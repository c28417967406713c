------------------------------ MODULE MCSessions ------------------------------
(***************************************************************************)
(* Instances of Sessions for model checking.                               *)
(***************************************************************************)
EXTENDS Sessions, TLC

\* The row may be there when a statement looks for it.
May(t) ==
  t \in tokens \/ t[2] = now \/ \E g \in Handlers : t \in req[g].ins

\* The request has the row in hand.
Uses(h, t) ==
  \/ t \in req[h].del \cup req[h].ins
  \/ t = req[h].t /\ pc[h] \in {"find_token", "find_session", "drop_token"}
  \/ seen[h] # None /\ t \in seen[h]

\* Once its second is over, no text can come again, and the one of register is
\* like any other.
Named(t) ==
  LET u == <<t[1], 0>> IN
  IF /\ t[2] = None /\ now > 0
     /\ u \notin tokens /\ \A h \in Handlers : ~ Uses(h, u)
    THEN u ELSE t

Rows(T) == {IF r \in Tokens THEN Named(r) ELSE r : r \in T}

\* What guards and properties tell apart: of a request, what its next
\* statements read.  (They read the session of a request that ends all of them
\* no more, nor a token once it was found or never will be, nor which form of
\* refresh it is that inserts its token.)  Of a session that is not active,
\* why, as long as LogoutDropsTokens asks.
Told ==
  LET asks(h) ==
        LET r    == req[h]
            at   == pc[h]
            lost == at = "find_token" /\ ~ May(r.t)
        IN  <<at,
              IF r.op \in Refreshes /\ (at \in {"insert", "commit"} \/ lost)
                THEN "refresh" ELSE r.op,
              IF r.op \in EndsAll THEN None ELSE r.s,
              IF at = "find_token" /\ ~ lost THEN Named(r.t) ELSE None,
              IF r.op \in AutoCommit THEN {} ELSE r.ended,
              Rows(r.del), Rows(r.ins),
              IF seen[h] = None THEN None ELSE Rows(seen[h])>>
      is(s) ==
        IF session[s] = "logged_out" /\ (s \in overlapped \/ failures > 0)
          THEN "revoked" ELSE session[s]
  IN  <<now, [s \in SessionIds |-> is(s)], Rows(tokens),
        [h \in Handlers |-> asks(h)], overlapped, disturbed, failures>>

\* Sessions are alike, and so are handlers.
Symmetry == Permutations(SessionIds) \cup Permutations(Handlers)
===============================================================================
