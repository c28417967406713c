---------------------------- MODULE SessionsProofs ----------------------------
(***************************************************************************)
(* Theorems about Sessions, for any number of sessions, requests in        *)
(* flight, seconds and failures.                                           *)
(*                                                                         *)
(* The argument.  Statements of two requests interleave, so what a request *)
(* found may be gone when it writes.  A session that no two requests       *)
(* worked on at a time is in the hands of one (Lone), and what that one    *)
(* dropped, renews or closes is all there is (Apart).  For the others it   *)
(* is a matter of debts: whoever takes the last token of an active session *)
(* has it replaced before it is done (Owes), and whoever deletes tokens    *)
(* ends their sessions in the same transaction, or did before (Spares).    *)
(* The change of the e-mail keeps insertions away until it commits         *)
(* (Keyed).  A statement that had to wait leaves alone what it did not see *)
(* as it began; in all of these it saw enough.                             *)
(***************************************************************************)
EXTENDS Sessions, FiniteSetTheorems, TLAPS

Finding  == {"find_token", "find_session", "drop_token"}
Renewing == {"select", "delete_all", "insert", "commit"}
Ends     == EndsOne \cup EndsAll

\* What a handler that goes on with statement "at" holds.
Fits(at, r) ==
  /\ at = "idle" => r = NoRequest
  /\ r.op = "none" => at = "idle"
  /\ r.op # "none" => r.s \in SessionIds
  /\ at \in Finding \cup (Renewing \ {"commit"}) => r.op \in Refreshes
  /\ at = "user" => r.op \in SavesUser
  /\ at \in {"update", "delete"} => r.op \in Ends
  /\ at = "commit" => r.op \in (Refreshes \cup Ends) \ AutoCommit
  /\ at = "save" => r.op \in Saves
  /\ r.op \in Refreshes => /\ r.t \in Tokens /\ r.t[1] = r.s
                           /\ \A t \in r.del \cup r.ins : t[1] = r.s
                           /\ at = "commit" => r.ins # {}
                           /\ \A t, u \in r.ins : t = u
  /\ r.op \in EndsOne => \A t \in r.del : t[1] = r.s
  /\ at # "commit" \/ r.op \notin Refreshes => r.ins = {}
  /\ \A s \in r.ended : r.op \in EndsAll \/ (r.op \in EndsOne /\ s = r.s)

ReqOK == /\ pc \in [Handlers -> Steps]
         /\ req \in [Handlers -> Requests]
         /\ \A h \in Handlers : Fits(pc[h], req[h])

\* The statements before which a handler may have looked at rows: what it saw
\* is the token it found, or anything if it waits.
Found == {"find_session", "drop_token"}
Slow  == {"update", "delete", "delete_all"}

SeenOK ==
  /\ seen \in [Handlers -> {None} \cup SUBSET (Tokens \cup SessionIds)]
  /\ \A h \in Handlers :
       /\ pc[h] \in Found => seen[h] \in SUBSET {req[h].t}
       /\ pc[h] \notin Found \cup Slow => seen[h] = None

TInv == TypeOK /\ ReqOK /\ SeenOK

\* Tokens and requests are about sessions that were created.
Born(s) ==
  session[s] = "none" =>
    /\ Of({s}) = {}
    /\ \A h \in Handlers : /\ req[h].s # s
                           /\ \A t \in req[h].del : t[1] # s

\* One request at most touches a session.
Lone(s) == \A g, h \in Handlers : Touches(g, s) /\ Touches(h, s) => g = h

\* There is one token, and none while its successor is under way.
RotatesBy(h, s) ==
  req[h].op \in Refreshes /\ req[h].s = s =>
    /\ pc[h] \in Found => Of({s}) \subseteq seen[h]
    /\ pc[h] \in Renewing => Of({s}) = {}

Single(s) == \A t, u \in Of({s}) : t = u

\* Nothing renews the token of a session that is logged out, and what logs it
\* out takes all its tokens.
ClosesBy(h, s) ==
  /\ /\ req[h].op \in Refreshes /\ req[h].s = s
     /\ pc[h] \in Renewing \cup {"drop_token"}
     => session[s] # "logged_out"
  /\ req[h].op \in Ends /\ pc[h] = "delete" /\ Touches(h, s)
     => \A t \in Of({s}) : Sees(h, t)
  /\ req[h].op \in Ends /\ pc[h] = "commit" /\ s \in req[h].ended
     => Of({s}) \subseteq req[h].del

\* h has logged s out and is about to delete its tokens.
Closing(h, s) == /\ Touches(h, s) /\ pc[h] = "delete"
                 /\ req[h].op \in AutoCommit

LeftOpen(s) == failures = 0 /\ session[s] = "logged_out" /\ Of({s}) # {}

Apart(s) == /\ Lone(s)
            /\ Single(s)
            /\ \A h \in Handlers : RotatesBy(h, s) /\ ClosesBy(h, s)
            /\ LeftOpen(s) => \E h \in Handlers : Closing(h, s)

\* A refresh that has dropped its token will insert one.
Owes(h, s) == /\ req[h].op \in Refreshes /\ req[h].s = s
              /\ pc[h] \in Renewing

\* A request that ends sessions sees s, and when it is about to delete their
\* tokens ends s with them, or s began too late for it.
Spares(h, s) ==
  /\ pc[h] = "update" /\ Touches(h, s) => Sees(h, s)
  /\ pc[h] \in {"delete", "commit"} /\ req[h].op \in Ends /\ Touches(h, s) =>
       \/ req[h].op \notin AutoCommit /\ s \in req[h].ended
       \/ /\ pc[h] = "commit" /\ req[h].op # "email"
          /\ \A t \in req[h].del : t[1] # s

Keeps(s) ==
  Active(s) =>
    /\ \A h \in Handlers : Spares(h, s)
    /\ failures = 0 /\ Of({s}) = {} => \E h \in Handlers : Owes(h, s)

\* The change of the e-mail has the account's key.
Keyed ==
  \A h \in Handlers :
    /\ HoldsKey(h) => \A g \in Handlers : req[g].ins = {}
    /\ req[h].op = "email" /\ pc[h] = "delete" => \A t \in tokens : Sees(h, t)
    /\ req[h].op = "email" /\ pc[h] = "commit" => tokens \subseteq req[h].del

IInv == /\ TInv
        /\ \A s \in SessionIds : Born(s)
        /\ \A s \in SessionIds \ overlapped : Apart(s)
        /\ \A s \in SessionIds \ disturbed : Keeps(s)
        /\ Keyed

-------------------------------------------------------------------------------
(***************************************************************************)
(* What a request holds as it changes.                                     *)
(***************************************************************************)

LEMMA NoRequestType ==
  /\ NoRequest \in Requests
  /\ NoRequest.op = "none" /\ NoRequest.s = None
  /\ NoRequest.ended = {} /\ NoRequest.del = {} /\ NoRequest.ins = {}
  BY DEF NoRequest, Requests

LEMMA FieldTypes ==
  ASSUME NEW r \in Requests
  PROVE  /\ r.op \in Ops \cup {"none"}
         /\ r.s \in SessionIds \cup {None} /\ r.t \in Tokens \cup {None}
         /\ r.ended \subseteq SessionIds
         /\ r.del \subseteq Tokens /\ r.ins \subseteq Tokens
  BY DEF Requests

LEMMA RefreshType ==
  ASSUME NEW op \in Refreshes, NEW t \in Tokens
  PROVE  LET r == [NoRequest EXCEPT !.op = op, !.s = t[1], !.t = t] IN
         /\ r \in Requests /\ r.op = op /\ r.s = t[1] /\ r.t = t
         /\ r.ended = {} /\ r.del = {} /\ r.ins = {}
<1>1. t[1] \in SessionIds
  BY DEF Tokens
<1> QED
  BY <1>1 DEF NoRequest, Requests, Ops

LEMMA EndType ==
  ASSUME NEW op \in Ops, NEW s \in SessionIds, NEW caller \in SessionIds
  PROVE  LET r == [NoRequest EXCEPT !.op = op, !.s = s, !.caller = caller] IN
         /\ r \in Requests /\ r.op = op /\ r.s = s
         /\ r.ended = {} /\ r.del = {} /\ r.ins = {}
  BY DEF NoRequest, Requests

LEMMA UnrevokeType ==
  ASSUME NEW s \in SessionIds
  PROVE  LET r == [NoRequest EXCEPT !.op = "unrevoke", !.s = s] IN
         /\ r \in Requests /\ r.op = "unrevoke" /\ r.s = s
         /\ r.ended = {} /\ r.del = {} /\ r.ins = {}
  BY DEF NoRequest, Requests, Ops, Saves

LEMMA EndedType ==
  ASSUME NEW q \in Requests, NEW S \in SUBSET SessionIds
  PROVE  LET r == [q EXCEPT !.ended = S] IN
         /\ r \in Requests /\ r.op = q.op /\ r.s = q.s /\ r.t = q.t
         /\ r.ended = S /\ r.del = q.del /\ r.ins = q.ins
  BY DEF Requests

LEMMA DelType ==
  ASSUME NEW q \in Requests, NEW T \in SUBSET Tokens
  PROVE  LET r == [q EXCEPT !.del = T] IN
         /\ r \in Requests /\ r.op = q.op /\ r.s = q.s /\ r.t = q.t
         /\ r.ended = q.ended /\ r.del = T /\ r.ins = q.ins
  BY DEF Requests

LEMMA InsType ==
  ASSUME NEW q \in Requests, NEW T \in SUBSET Tokens
  PROVE  LET r == [q EXCEPT !.ins = T] IN
         /\ r \in Requests /\ r.op = q.op /\ r.s = q.s /\ r.t = q.t
         /\ r.ended = q.ended /\ r.del = q.del /\ r.ins = T
  BY DEF Requests

\* Handler h goes on with request r at step "at".
On(h, r, at) == /\ req' = [req EXCEPT ![h] = r]
                /\ pc'  = [pc EXCEPT ![h] = at]

LEMMA Moved ==
  ASSUME ReqOK, NEW h \in Handlers, NEW r \in Requests, NEW at \in Steps,
         On(h, r, at)
  PROVE  /\ \A g \in Handlers :
              /\ g # h => req'[g] = req[g] /\ pc'[g] = pc[g]
              /\ g = h => req'[g] = r /\ pc'[g] = at
         /\ Fits(at, r) => ReqOK'
<1>1. \A g \in Handlers :
        /\ g # h => req'[g] = req[g] /\ pc'[g] = pc[g]
        /\ g = h => req'[g] = r /\ pc'[g] = at
  BY DEF ReqOK, On
<1>2. req' \in [Handlers -> Requests] /\ pc' \in [Handlers -> Steps]
  BY DEF ReqOK, On
<1>3. ASSUME Fits(at, r)
      PROVE  \A g \in Handlers : Fits(pc'[g], req'[g])
  <2> TAKE g \in Handlers
  <2>1. CASE g = h
    BY <1>1, <1>3, <2>1
  <2>2. CASE g # h
    BY <1>1, <2>2 DEF ReqOK
  <2> QED
    BY <2>1, <2>2
<1> QED
  BY <1>1, <1>2, <1>3 DEF ReqOK

-------------------------------------------------------------------------------
(***************************************************************************)
(* What the others see while h goes on.                                    *)
(***************************************************************************)
Watch(h, R) ==
  \A g \in Handlers \ {h}, row \in R :
    /\ Sees(g, row) => Sees(g, row)'
    /\ row \in seen[g] => row \in seen'[g]

LEMMA Sight ==
  ASSUME NEW h, NEW D, Forget(h, D), NEW R, R \cap D = {}
  PROVE  /\ Watch(h, R)
         /\ h \in Handlers => seen'[h] = None
  BY DEF Forget, Watch, Sees

LEMMA Calm ==
  ASSUME NEW h, Forget(h, {}), NEW R
  PROVE  Watch(h, R)
  BY Sight

LEMMA Looks ==
  ASSUME SeenOK, NEW h \in Handlers, NEW S, seen' = [seen EXCEPT ![h] = S],
         NEW R
  PROVE  Watch(h, R) /\ seen'[h] = S
  BY DEF SeenOK, Watch, Sees

LEMMA Idles ==
  ASSUME UNCHANGED seen, NEW h, NEW R
  PROVE  Watch(h, R)
  BY DEF Watch, Sees

LEMMA Untouched ==
  ASSUME SeenOK, NEW h \in Handlers, seen[h] = None, UNCHANGED seen
  PROVE  Forget(h, {})
<1>1. \A g \in Handlers :
        seen[g] = IF g = h \/ seen[g] = None THEN None ELSE seen[g] \ {}
  OBVIOUS
<1> QED
  BY <1>1 DEF Forget, SeenOK

LEMMA SeenForgets ==
  ASSUME TInv, NEW h, NEW D, Forget(h, D),
         \A g \in Handlers \ {h} : req'[g] = req[g] /\ pc'[g] = pc[g],
         h \in Handlers => pc'[h] \notin Found
  PROVE  SeenOK'
<1>1. \A g \in Handlers :
        seen'[g] = IF g = h \/ seen[g] = None THEN None ELSE seen[g] \ D
  BY DEF Forget
<1>2. seen' \in [Handlers -> {None} \cup SUBSET (Tokens \cup SessionIds)]
  BY DEF TInv, SeenOK, Forget
<1>3. ASSUME NEW g \in Handlers \ {h}
      PROVE  /\ pc'[g] \in Found => seen'[g] \in SUBSET {req'[g].t}
             /\ pc'[g] \notin Found \cup Slow => seen'[g] = None
  BY <1>1 DEF TInv, SeenOK
<1> QED
  BY <1>1, <1>2, <1>3 DEF SeenOK

-------------------------------------------------------------------------------
(***************************************************************************)
(* The steps of a handler, by what they leave it with.                     *)
(***************************************************************************)
Only(h)  == \A g \in Handlers \ {h} : req'[g] = req[g] /\ pc'[g] = pc[g]
Rests(h) == req'[h] = NoRequest /\ pc'[h] = "idle"

\* h goes on with the same request.
Goes(h, at) == /\ pc'[h] = at
               /\ req'[h].op = req[h].op
               /\ req'[h].s = req[h].s
               /\ req'[h].t = req[h].t

Starts(h) ==
  /\ pc[h] = "idle"
  /\ pc'[h] \in {"find_token", "user", "update", "save"}
  /\ req'[h].op \in SavesUser => pc'[h] = "user"
  /\ req'[h].op # "none" /\ req'[h].s \in SessionIds
  /\ session[req'[h].s] # "none"
  /\ req'[h].ended = {} /\ req'[h].del = {} /\ req'[h].ins = {}
  /\ \A s \in SessionIds :
       Touches(h, s)' /\ (\E g \in Handlers \ {h} : Touches(g, s))
         => s \in overlapped'
  /\ overlapped \subseteq overlapped' /\ overlapped' \subseteq SessionIds
  /\ Forget(h, {})
  /\ UNCHANGED <<now, session, tokens, disturbed, failures>>

LEMMA Finished ==
  ASSUME TInv, NEW h \in Handlers, Finish(h)
  PROVE  ReqOK' /\ Only(h) /\ Rests(h)
<1>1. On(h, NoRequest, "idle") /\ "idle" \in Steps
  BY DEF Finish, On, Steps
<1>2. Fits("idle", NoRequest)
  BY NoRequestType DEF Fits, Finding, Renewing, Refreshes, EndsOne
<1> QED
  BY <1>1, <1>2, NoRequestType, Moved DEF TInv, Only, Rests

LEMMA Went ==
  ASSUME TInv, NEW h \in Handlers, NEW at \in Steps, Fits(at, req[h]),
         Goto(h, at), UNCHANGED req
  PROVE  /\ ReqOK' /\ Only(h) /\ Goes(h, at)
         /\ req' = req
<1>1. On(h, req[h], at) /\ req[h] \in Requests
  BY DEF Goto, On, TInv, ReqOK
<1> QED
  BY <1>1, Moved DEF TInv, Only, Goes

LEMMA Changed ==
  ASSUME TInv, NEW h \in Handlers, NEW at \in Steps, NEW r \in Requests,
         Fits(at, r), r.op = req[h].op, r.s = req[h].s, r.t = req[h].t,
         req' = [req EXCEPT ![h] = r], Goto(h, at)
  PROVE  ReqOK' /\ Only(h) /\ Goes(h, at) /\ req'[h] = r
<1>1. On(h, r, at)
  BY DEF Goto, On
<1> QED
  BY <1>1, Moved DEF TInv, Only, Goes

LEMMA Begun ==
  ASSUME TInv, NEW h \in Handlers, NEW r \in Requests, NEW at \in Steps,
         at \in {"find_token", "user", "update", "save"},
         r.op \in SavesUser => at = "user", Fits(at, r),
         Begin(h, r, at), r.op # "none", session[r.s] # "none",
         r.ended = {}, r.del = {}, r.ins = {},
         UNCHANGED <<now, session, tokens, seen, disturbed, failures>>
  PROVE  ReqOK' /\ Only(h) /\ Starts(h)
<1>0. Forget(h, {})
  <2>1. pc[h] = "idle" /\ seen[h] = None
    BY DEF Begin, TInv, SeenOK, Found, Slow
  <2> QED
    BY <2>1, Untouched DEF TInv
<1>1. On(h, r, at) /\ pc[h] = "idle"
  BY DEF Begin, On
<1>2. ReqOK' /\ Only(h) /\ req'[h] = r /\ pc'[h] = at
  BY <1>1, Moved DEF TInv, Only
<1>3. overlapped' = overlapped \cup
        {s \in SessionIds : /\ r.op \in EndsAll \/ r.s = s
                            /\ \E g \in Handlers \ {h} : Touches(g, s)}
  BY DEF Begin
<1>4. overlapped \subseteq SessionIds
  BY DEF TInv, TypeOK
<1>5. ASSUME NEW s \in SessionIds, Touches(h, s)',
             \E g \in Handlers \ {h} : Touches(g, s)
      PROVE  s \in overlapped'
  <2>1. r.op \in EndsAll \/ r.s = s
    BY <1>2, <1>5 DEF Touches
  <2> QED
    BY <1>3, <1>5, <2>1
<1>6. r.s \in SessionIds
  BY DEF Fits
<1> QED
  BY <1>0, <1>1, <1>2, <1>3, <1>4, <1>5, <1>6 DEF Starts

\* Each request begins alike.
LEMMA RefreshStarts ==
  ASSUME TInv, NEW h \in Handlers, NEW op \in Refreshes, NEW t \in Tokens,
         StartRefresh(h, op, t)
  PROVE  ReqOK' /\ Only(h) /\ Starts(h)
<1> DEFINE r == [NoRequest EXCEPT !.op = op, !.s = t[1], !.t = t]
<1>1. /\ r \in Requests /\ r.op = op /\ r.s = t[1] /\ r.t = t
      /\ r.ended = {} /\ r.del = {} /\ r.ins = {}
  BY RefreshType
<1>2. /\ Begin(h, r, "find_token") /\ session[t[1]] # "none"
      /\ UNCHANGED <<now, session, tokens, seen, disturbed, failures>>
  BY DEF StartRefresh
<1> HIDE DEF r
<1>3. /\ t[1] \in SessionIds
      /\ op # "none" /\ op \notin EndsOne /\ op \notin SavesUser
  BY DEF Tokens, Refreshes, EndsOne, SavesUser
<1>4. Fits("find_token", r)
  BY <1>1, <1>3 DEF Fits
<1> QED
  BY <1>1, <1>2, <1>3, <1>4, Begun DEF Steps

LEMMA EndStarts ==
  ASSUME TInv, NEW h \in Handlers, NEW op \in EndsOne \cup EndsAll,
         NEW s \in SessionIds, StartEnd(h, op, s)
  PROVE  ReqOK' /\ Only(h) /\ Starts(h)
<1> DEFINE r  == [NoRequest EXCEPT !.op = op, !.s = s, !.caller = s]
           at == IF op \in SavesUser THEN "user" ELSE "update"
<1>1. /\ r \in Requests /\ r.op = op /\ r.s = s
      /\ r.ended = {} /\ r.del = {} /\ r.ins = {}
  BY EndType DEF Ops
<1>2. /\ Begin(h, r, at) /\ session[s] # "none"
      /\ UNCHANGED <<now, session, tokens, seen, disturbed, failures>>
  BY DEF StartEnd
<1> HIDE DEF r
<1>3. op # "none" /\ op \notin Refreshes
  BY DEF EndsOne, EndsAll, Refreshes
<1>4. /\ Fits(at, r) /\ at \in {"user", "update"}
      /\ op \in SavesUser => at = "user"
  BY <1>1, <1>3 DEF Fits, Ends, Finding, Renewing
<1> HIDE DEF at
<1> QED
  BY <1>1, <1>2, <1>3, <1>4, Begun DEF Steps

LEMMA RevokeStarts ==
  ASSUME TInv, NEW h \in Handlers, NEW s \in SessionIds, NEW c \in SessionIds,
         StartRevoke(h, c, s)
  PROVE  ReqOK' /\ Only(h) /\ Starts(h)
<1> DEFINE r  == [NoRequest EXCEPT !.op = "revoke", !.s = s, !.caller = c]
<1>1. /\ r \in Requests /\ r.op = "revoke" /\ r.s = s
      /\ r.ended = {} /\ r.del = {} /\ r.ins = {}
  BY EndType DEF Ops, Saves
<1>2. /\ Begin(h, r, "save") /\ session[s] # "none"
      /\ UNCHANGED <<now, session, tokens, seen, disturbed, failures>>
  BY DEF StartRevoke, Active
<1> HIDE DEF r
<1>3. Fits("save", r)
  BY <1>1 DEF Fits, Ends, Finding, Renewing, Saves, Refreshes, EndsOne
<1> QED
  BY <1>1, <1>2, <1>3, Begun DEF Steps, SavesUser

LEMMA UnrevokeStarts ==
  ASSUME TInv, NEW h \in Handlers, NEW s \in SessionIds, StartUnrevoke(h, s)
  PROVE  ReqOK' /\ Only(h) /\ Starts(h)
<1> DEFINE r  == [NoRequest EXCEPT !.op = "unrevoke", !.s = s]
<1>1. /\ r \in Requests /\ r.op = "unrevoke" /\ r.s = s
      /\ r.ended = {} /\ r.del = {} /\ r.ins = {}
  BY UnrevokeType
<1>2. /\ Begin(h, r, "save") /\ session[s] # "none"
      /\ UNCHANGED <<now, session, tokens, seen, disturbed, failures>>
  BY DEF StartUnrevoke, Exists
<1> HIDE DEF r
<1>3. Fits("save", r)
  BY <1>1 DEF Fits, Ends, Finding, Renewing, Saves, Refreshes, EndsOne
<1> QED
  BY <1>1, <1>2, <1>3, Begun DEF Steps, SavesUser

\* The statements of a refresh.
LEMMA FindTokenShape ==
  ASSUME TInv, NEW h \in Handlers, FindToken(h)
  PROVE  /\ ReqOK' /\ Only(h)
         /\ \/ /\ Goes(h, "find_session") /\ req[h].t \in tokens /\ req' = req
               /\ seen' = [seen EXCEPT ![h] = {req[h].t}]
            \/ Rests(h) /\ Forget(h, {})
         /\ pc[h] = "find_token" /\ req[h].op \in Refreshes
         /\ UNCHANGED <<now, session, tokens, overlapped, disturbed, failures>>
<1>1. Fits(pc[h], req[h]) /\ pc[h] = "find_token"
  BY DEF FindToken, TInv, ReqOK
<1>2. CASE req[h].t \in tokens
  <2>1. Fits("find_session", req[h])
    BY <1>1 DEF Fits, Finding
  <2> QED
    BY <1>1, <1>2, <2>1, Went DEF FindToken, Steps, Fits, Finding
<1>3. CASE req[h].t \notin tokens
  BY <1>1, <1>3, Finished DEF FindToken, Delete, Fits, Finding
<1> QED
  BY <1>2, <1>3

LEMMA FindSessionShape ==
  ASSUME TInv, NEW h \in Handlers, FindSession(h)
  PROVE  /\ ReqOK' /\ Only(h)
         /\ \/ /\ Goes(h, "drop_token") /\ Active(req[h].s) /\ req' = req
               /\ seen' = seen
            \/ Rests(h) /\ Forget(h, {})
         /\ pc[h] = "find_session" /\ req[h].op \in Refreshes
         /\ UNCHANGED <<now, session, tokens, overlapped, disturbed, failures>>
<1>1. Fits(pc[h], req[h]) /\ pc[h] = "find_session"
  BY DEF FindSession, TInv, ReqOK
<1>2. CASE Active(req[h].s)
  <2>1. Fits("drop_token", req[h])
    BY <1>1 DEF Fits, Finding
  <2> QED
    BY <1>1, <1>2, <2>1, Went DEF FindSession, Steps, Fits, Finding
<1>3. CASE ~ Active(req[h].s)
  BY <1>1, <1>3, Finished DEF FindSession, Delete, Fits, Finding
<1> QED
  BY <1>2, <1>3

LEMMA DropTokenShape ==
  ASSUME TInv, NEW h \in Handlers, DropToken(h)
  PROVE  /\ ReqOK' /\ Only(h) /\ Goes(h, "select") /\ req' = req
         /\ pc[h] = "drop_token" /\ req[h].op \in Refreshes
         /\ \A t \in seen[h] : t[1] = req[h].s
         /\ tokens' = tokens \ seen[h] /\ Forget(h, seen[h])
         /\ UNCHANGED <<now, session, overlapped, disturbed, failures>>
<1>1. Fits(pc[h], req[h]) /\ pc[h] = "drop_token"
  BY DEF DropToken, TInv, ReqOK
<1>2. Fits("select", req[h])
  BY <1>1 DEF Fits, Finding, Renewing
<1>3. \A t \in seen[h] : t = req[h].t
  BY <1>1 DEF TInv, SeenOK, Found
<1> QED
  BY <1>1, <1>2, <1>3, Went DEF DropToken, Delete, Steps, Fits, Finding

LEMMA SelectSessionShape ==
  ASSUME TInv, NEW h \in Handlers, SelectSession(h)
  PROVE  /\ ReqOK' /\ Only(h)
         /\ \/ /\ Active(req[h].s) /\ req' = req
               /\ Goes(h, "delete_all") \/ Goes(h, "insert")
            \/ ~ Active(req[h].s) /\ Rests(h)
         /\ Forget(h, {})
         /\ pc[h] = "select" /\ req[h].op \in Refreshes
         /\ UNCHANGED <<now, session, tokens, overlapped, disturbed, failures>>
<1>0. Forget(h, {})
  BY Untouched DEF SelectSession, TInv, SeenOK, Found, Slow
<1>1. Fits(pc[h], req[h]) /\ pc[h] = "select"
  BY DEF SelectSession, TInv, ReqOK
<1>2. CASE Active(req[h].s)
  <2>1. Fits("delete_all", req[h]) /\ Fits("insert", req[h])
    BY <1>1 DEF Fits, Finding, Renewing
  <2>2. Goto(h, "delete_all") \/ Goto(h, "insert")
    BY <1>2 DEF SelectSession
  <2> QED
    BY <1>0, <1>1, <1>2, <2>1, <2>2, Went
    DEF SelectSession, Steps, Fits, Renewing
<1>3. CASE ~ Active(req[h].s)
  BY <1>0, <1>1, <1>3, Finished DEF SelectSession, Fits, Renewing
<1> QED
  BY <1>2, <1>3

LEMMA DeleteAllShape ==
  ASSUME TInv, NEW h \in Handlers, DeleteAll(h)
  PROVE  /\ ReqOK' /\ Only(h) /\ Goes(h, "insert")
         /\ pc[h] = "delete_all" /\ req[h].op \in Refreshes
         /\ req'[h].del \subseteq Of({req[h].s})
         /\ req'[h].ins = req[h].ins /\ req'[h].ended = req[h].ended
         /\ Forget(h, {})
         /\ UNCHANGED <<now, session, tokens, overlapped, disturbed, failures>>
<1>1. Fits(pc[h], req[h]) /\ pc[h] = "delete_all" /\ req[h] \in Requests
  BY DEF DeleteAll, TInv, ReqOK
<1>2. req[h].op \in Refreshes
  BY <1>1 DEF Fits, Renewing
<1> DEFINE D == Doomed(h)
           r == [req[h] EXCEPT !.del = D]
<1>3. D \subseteq Tokens /\ D \subseteq Of({req[h].s})
  BY <1>2 DEF TInv, TypeOK, Of, Doomed, Touches, Refreshes, EndsAll
<1>4. req' = [req EXCEPT ![h] = r]
  BY DEF DeleteAll
<1>5. tokens' = tokens /\ Forget(h, {})
  BY DEF DeleteAll, Delete
<1> HIDE DEF D
<1>6. /\ r \in Requests /\ r.op = req[h].op /\ r.s = req[h].s
      /\ r.t = req[h].t /\ r.ended = req[h].ended /\ r.ins = req[h].ins
      /\ r.del = D
  BY <1>1, <1>3, DelType
<1> HIDE DEF r
<1>7. \A t \in D : t[1] = req[h].s
  BY <1>3 DEF Of
<1>8. Fits("insert", r)
  BY <1>1, <1>2, <1>6, <1>7 DEF Fits, Finding, Renewing, Refreshes, EndsOne
<1> QED
  BY <1>1, <1>2, <1>3, <1>4, <1>5, <1>6, <1>8, Changed DEF DeleteAll, Steps

LEMMA InsertShape ==
  ASSUME TInv, NEW h \in Handlers, Insert(h)
  PROVE  /\ ReqOK' /\ Only(h)
         /\ pc[h] = "insert" /\ req[h].op \in Refreshes
         /\ \A g \in Others(h) : ~ HoldsKey(g)
         /\ \/ Rests(h) /\ (Of({req[h].s}) # {} \/ ~ Exists(req[h].s))
            \/ /\ Goes(h, "commit") /\ Exists(req[h].s)
               /\ req'[h].ins = {<<req[h].s, now>>}
               /\ req'[h].del = req[h].del /\ req'[h].ended = req[h].ended
         /\ Forget(h, {})
         /\ UNCHANGED <<now, session, tokens, overlapped, disturbed, failures>>
<1>0. Forget(h, {})
  BY Untouched DEF Insert, TInv, SeenOK, Found, Slow
<1> DEFINE new == <<req[h].s, now>>
<1>1. Fits(pc[h], req[h]) /\ pc[h] = "insert" /\ req[h] \in Requests
  BY DEF Insert, TInv, ReqOK
<1>2. req[h].op \in Refreshes /\ req[h].s \in SessionIds
  BY <1>1 DEF Fits, Renewing, Refreshes
<1>3. CASE new \in tokens \ req[h].del \/ ~ Exists(req[h].s)
  <2>1. Finish(h)
    BY <1>3 DEF Insert
  <2>2. new \in tokens => Of({req[h].s}) # {}
    BY DEF Of
  <2> QED
    BY <1>0, <1>1, <1>2, <1>3, <2>1, <2>2, Finished DEF Insert
<1>4. CASE ~ (new \in tokens \ req[h].del \/ ~ Exists(req[h].s))
  <2> DEFINE r == [req[h] EXCEPT !.ins = {new}]
  <2>1. new \in Tokens /\ new[1] = req[h].s
    BY <1>2 DEF TInv, TypeOK, Tokens
  <2>2. /\ r \in Requests /\ r.op = req[h].op /\ r.s = req[h].s
        /\ r.t = req[h].t /\ r.ended = req[h].ended /\ r.del = req[h].del
        /\ r.ins = {new}
    BY <1>1, <2>1, InsType
  <2>3. req' = [req EXCEPT ![h] = r] /\ Goto(h, "commit")
    BY <1>4 DEF Insert
  <2> HIDE DEF r, new
  <2>4. Fits("commit", r)
    BY <1>1, <1>2, <2>1, <2>2
    DEF Fits, Finding, Renewing, Refreshes, EndsOne, AutoCommit
  <2>5. ReqOK' /\ Only(h) /\ Goes(h, "commit") /\ req'[h] = r
    BY <2>2, <2>3, <2>4, Changed DEF Steps
  <2> QED
    BY <1>0, <1>1, <1>2, <1>4, <2>2, <2>5 DEF Insert, new
<1> QED
  BY <1>3, <1>4

LEMMA CommitRefreshShape ==
  ASSUME TInv, NEW h \in Handlers, CommitRefresh(h)
  PROVE  /\ ReqOK' /\ Only(h) /\ Rests(h)
         /\ pc[h] = "commit" /\ req[h].op \in Refreshes
         /\ req[h].ins # {} /\ req[h].ins \subseteq Tokens
         /\ \A t, u \in req[h].ins : t = u
         /\ \A t \in req[h].del \cup req[h].ins : t[1] = req[h].s
         /\ tokens' = (tokens \ req[h].del) \cup req[h].ins
         /\ Forget(h, req[h].del)
         /\ UNCHANGED <<now, session, overlapped, disturbed, failures>>
<1>1. Fits(pc[h], req[h]) /\ req[h] \in Requests
  BY DEF TInv, ReqOK
<1>2. req[h].ins \subseteq Tokens
  BY <1>1, FieldTypes
<1> QED
  BY <1>1, <1>2, Finished DEF CommitRefresh, Fits

\* The statements of the requests that end sessions.
LEMMA SaveUserShape ==
  ASSUME TInv, NEW h \in Handlers, SaveUser(h)
  PROVE  /\ ReqOK' /\ Only(h) /\ Goes(h, "update") /\ req' = req
         /\ pc[h] = "user" /\ req[h].op \in SavesUser
         /\ req[h].op = "email" => \A g \in Others(h) : req[g].ins = {}
         /\ Forget(h, {})
         /\ UNCHANGED <<now, session, tokens, overlapped, disturbed, failures>>
<1>0. Forget(h, {})
  BY Untouched DEF SaveUser, TInv, SeenOK, Found, Slow
<1>1. Fits(pc[h], req[h]) /\ pc[h] = "user"
  BY DEF SaveUser, TInv, ReqOK
<1>2. Fits("update", req[h])
  BY <1>1 DEF Fits, Finding, Renewing, SavesUser, Ends, EndsAll
<1> QED
  BY <1>0, <1>1, <1>2, Went DEF SaveUser, Steps, Fits

LEMMA UpdateSessionsShape ==
  ASSUME TInv, NEW h \in Handlers, UpdateSessions(h)
  PROVE  /\ ReqOK' /\ Only(h)
         /\ pc[h] = "update" /\ req[h].op \in Ends
         /\ \/ Rests(h) /\ UNCHANGED session
            \/ /\ Goes(h, "delete")
               /\ req'[h].ended = Swept(h)
               /\ req'[h].del = req[h].del /\ req'[h].ins = req[h].ins
               /\ \/ req[h].op \in AutoCommit /\ End(Swept(h))
                  \/ req[h].op \notin AutoCommit /\ UNCHANGED session
         /\ Forget(h, {})
         /\ UNCHANGED <<now, tokens, overlapped, disturbed, failures>>
<1> DEFINE S == Swept(h)
           r == [req[h] EXCEPT !.ended = S]
<1>1. Fits(pc[h], req[h]) /\ pc[h] = "update" /\ req[h] \in Requests
  BY DEF UpdateSessions, TInv, ReqOK
<1>2. req[h].op \in Ends
  BY <1>1 DEF Fits
<1>3. \/ Finish(h) /\ UNCHANGED session
      \/ /\ req' = [req EXCEPT ![h] = r] /\ Goto(h, "delete")
         /\ IF req[h].op \in AutoCommit THEN End(S) ELSE UNCHANGED session
  BY DEF UpdateSessions
<1>4. UNCHANGED <<now, tokens, overlapped, disturbed, failures>>
  BY DEF UpdateSessions, Delete
<1>5. Forget(h, {})
  BY DEF UpdateSessions, Delete
<1>6. CASE Finish(h) /\ UNCHANGED session
  BY <1>1, <1>2, <1>4, <1>5, <1>6, Finished
<1>7. CASE /\ req' = [req EXCEPT ![h] = r] /\ Goto(h, "delete")
           /\ IF req[h].op \in AutoCommit THEN End(S) ELSE UNCHANGED session
  <2>1. S \subseteq SessionIds
    BY DEF Swept
  <2>2. \A s \in S : req[h].op \in EndsAll \/ s = req[h].s
    BY DEF Swept, Touches
  <2> HIDE DEF S
  <2>3. /\ r \in Requests /\ r.op = req[h].op /\ r.s = req[h].s
        /\ r.t = req[h].t /\ r.ended = S /\ r.del = req[h].del
        /\ r.ins = req[h].ins
    BY <1>1, <2>1, EndedType
  <2> HIDE DEF r
  <2>4. Fits("delete", r)
    BY <1>1, <1>2, <2>2, <2>3 DEF Fits, Finding, Renewing, Ends
  <2>5. ReqOK' /\ Only(h) /\ Goes(h, "delete") /\ req'[h] = r
    BY <1>7, <2>3, <2>4, Changed DEF Steps
  <2> QED
    BY <1>1, <1>2, <1>4, <1>5, <1>7, <2>3, <2>5 DEF S
<1> QED
  BY <1>3, <1>6, <1>7

LEMMA DeleteTokensShape ==
  ASSUME TInv, NEW h \in Handlers, DeleteTokens(h)
  PROVE  /\ ReqOK' /\ Only(h)
         /\ pc[h] = "delete" /\ req[h].op \in Ends
         /\ \/ /\ req[h].op \in AutoCommit /\ Rests(h)
               /\ tokens' = tokens \ Doomed(h) /\ Forget(h, Doomed(h))
            \/ /\ req[h].op \notin AutoCommit /\ Goes(h, "commit")
               /\ req'[h].del = Doomed(h) /\ req'[h].ended = req[h].ended
               /\ req'[h].ins = req[h].ins
               /\ Forget(h, {}) /\ UNCHANGED tokens
         /\ UNCHANGED <<now, session, overlapped, disturbed, failures>>
<1> DEFINE D == Doomed(h)
           r == [req[h] EXCEPT !.del = D]
<1>1. Fits(pc[h], req[h]) /\ pc[h] = "delete" /\ req[h] \in Requests
  BY DEF DeleteTokens, TInv, ReqOK
<1>2. req[h].op \in Ends
  BY <1>1 DEF Fits
<1>3. UNCHANGED <<now, session, overlapped, disturbed, failures>>
  BY DEF DeleteTokens
<1>4. CASE req[h].op \in AutoCommit
  BY <1>1, <1>2, <1>3, <1>4, Finished DEF DeleteTokens, Delete
<1>5. CASE req[h].op \notin AutoCommit
  <2>1. D \subseteq Tokens
    BY DEF TInv, TypeOK, Doomed
  <2>2. req[h].op \in EndsOne => \A t \in D : t[1] = req[h].s
    BY DEF Doomed, Touches, EndsOne, EndsAll
  <2>3. /\ req' = [req EXCEPT ![h] = r] /\ Goto(h, "commit")
        /\ UNCHANGED tokens /\ Forget(h, {})
    BY <1>5 DEF DeleteTokens, Delete
  <2> HIDE DEF D
  <2>4. /\ r \in Requests /\ r.op = req[h].op /\ r.s = req[h].s
        /\ r.t = req[h].t /\ r.ended = req[h].ended /\ r.del = D
        /\ r.ins = req[h].ins
    BY <1>1, <2>1, DelType
  <2> HIDE DEF r
  <2>5. Fits("commit", r)
    BY <1>1, <1>2, <1>5, <2>2, <2>4
    DEF Fits, Finding, Renewing, Ends, Refreshes, EndsOne, EndsAll
  <2>6. ReqOK' /\ Only(h) /\ Goes(h, "commit") /\ req'[h] = r
    BY <2>3, <2>4, <2>5, Changed DEF Steps
  <2> QED
    BY <1>1, <1>2, <1>3, <1>5, <2>3, <2>4, <2>6 DEF D
<1> QED
  BY <1>4, <1>5

\* A statement that waits saw all that it is about.
LEMMA WaitShape ==
  ASSUME TInv, NEW h \in Handlers, Wait(h)
  PROVE  /\ \/ pc[h] = "update" /\ seen' = [seen EXCEPT ![h] = Swept(h)]
            \/ /\ pc[h] \in {"delete", "delete_all"}
               /\ seen' = [seen EXCEPT ![h] = Doomed(h)]
         /\ \A g \in Handlers \ {h} : seen'[g] = seen[g]
         /\ pc[h] = "update" => seen'[h] = Swept(h)
         /\ pc[h] = "delete" => seen'[h] = Doomed(h)
         /\ \A row : Sees(h, row)
         /\ UNCHANGED <<now, session, tokens, pc, req, overlapped, disturbed,
                        failures>>
  BY DEF Wait, TInv, SeenOK, Sees

LEMMA CommitEndShape ==
  ASSUME TInv, NEW h \in Handlers, CommitEnd(h)
  PROVE  /\ ReqOK' /\ Only(h) /\ Rests(h)
         /\ pc[h] = "commit" /\ req[h].op \in Ends
         /\ req[h].op \in EndsOne => \A t \in req[h].del : t[1] = req[h].s
         /\ End(req[h].ended) /\ tokens' = tokens \ req[h].del
         /\ Forget(h, req[h].del)
         /\ UNCHANGED <<now, overlapped, disturbed, failures>>
<1>1. Fits(pc[h], req[h])
  BY DEF TInv, ReqOK
<1> QED
  BY <1>1, Finished DEF CommitEnd, Delete, Fits, Ends

LEMMA DeadlockShape ==
  ASSUME TInv, NEW h \in Handlers, NEW g \in Handlers, Deadlock(h, g)
  PROVE  /\ ReqOK'
         /\ \/ Only(h) /\ Rests(h) /\ Forget(h, {})
            \/ Only(g) /\ Rests(g) /\ Forget(g, {})
         /\ pc[h] = "insert" /\ req[h].op \in Refreshes
         /\ pc[g] = "delete" /\ req[g].op = "email"
         /\ Of({req[h].s}) # {}
         /\ UNCHANGED <<now, session, tokens, overlapped, disturbed, failures>>
<1>1. Fits(pc[h], req[h]) /\ pc[h] = "insert" /\ req[h].op \in Refreshes
  BY DEF Deadlock, TInv, ReqOK, Fits, Renewing
<1>2. pc[g] = "delete" /\ req[g].op = "email"
  BY DEF Deadlock, HoldsKey
<1>3. req[h].del \cap tokens # {}
  BY DEF Deadlock, Doomed
<1>4. \A t \in req[h].del : t[1] = req[h].s
  BY <1>1 DEF Fits
<1>5. Of({req[h].s}) # {}
  BY <1>3, <1>4 DEF Of
<1>6. CASE Finish(h) /\ Delete(h, {})
  BY <1>1, <1>2, <1>5, <1>6, Finished DEF Deadlock, Delete
<1>7. CASE Finish(g) /\ Delete(g, {})
  BY <1>1, <1>2, <1>5, <1>7, Finished DEF Deadlock, Delete
<1> QED
  BY <1>6, <1>7 DEF Deadlock

\* The statement of revokeSession and unrevokeSession, and failures.
LEMMA SaveSessionShape ==
  ASSUME TInv, NEW h \in Handlers, SaveSession(h)
  PROVE  /\ ReqOK' /\ Only(h) /\ Rests(h)
         /\ pc[h] = "save" /\ req[h].op \in Saves /\ req[h].s \in SessionIds
         /\ session' = [session EXCEPT ![req[h].s] =
                          IF req[h].op = "revoke" THEN "revoked" ELSE "active"]
         /\ disturbed \subseteq disturbed' /\ disturbed' \subseteq SessionIds
         /\ req[h].op # "revoke" => req[h].s \in disturbed'
         /\ Forget(h, {})
         /\ UNCHANGED <<now, tokens, overlapped, failures>>
<1>0. Forget(h, {})
  BY Untouched DEF SaveSession, TInv, SeenOK, Found, Slow
<1>1. Fits(pc[h], req[h]) /\ pc[h] = "save" /\ disturbed \subseteq SessionIds
  BY DEF SaveSession, TInv, TypeOK, ReqOK
<1>2. req[h].op \in Saves /\ req[h].s \in SessionIds
  BY <1>1 DEF Fits, Saves
<1> QED
  BY <1>0, <1>1, <1>2, Finished DEF SaveSession, Saves

LEMMA FailShape ==
  ASSUME TInv, NEW h \in Handlers, Fail(h)
  PROVE  /\ ReqOK' /\ Only(h) /\ Rests(h)
         /\ failures' = failures + 1 /\ failures' \in 0 .. MaxFailures
         /\ Forget(h, {})
         /\ UNCHANGED <<now, session, tokens, overlapped, disturbed>>
<1>1. failures' = failures + 1 /\ failures' \in 0 .. MaxFailures
  BY SessionsAssumption DEF Fail, TInv, TypeOK
<1> QED
  BY <1>1, Finished DEF Fail, Delete

\* Both a login and a registration open a session.
LEMMA Opens ==
  ASSUME TInv, NEW s, Login(s) \/ Register(s)
  PROVE  \E at \in Seconds \cup {None} : Open(s, at)
  BY DEF Login, Register, TInv, TypeOK

-------------------------------------------------------------------------------
(***************************************************************************)
(* Types.                                                                  *)
(***************************************************************************)

LEMMA TypesInit == Init => TInv
<1> SUFFICES ASSUME Init
             PROVE  TInv
  OBVIOUS
<1>1. Fits("idle", NoRequest)
  BY NoRequestType DEF Fits, Finding, Renewing, Refreshes, EndsOne
<1>2. ReqOK
  BY <1>1, NoRequestType DEF Init, ReqOK, Steps
<1>3. SeenOK
  BY DEF Init, SeenOK, Found
<1>4. TypeOK
  BY <1>2, <1>3, NoRequestType, SessionsAssumption
  DEF Init, TypeOK, ReqOK, SeenOK, Seconds
<1> QED
  BY <1>2, <1>3, <1>4 DEF TInv

LEMMA TypesStep == TInv /\ [Next]_vars => TInv'
<1> SUFFICES ASSUME TInv, [Next]_vars
             PROVE  TInv'
  OBVIOUS
<1> DEFINE States == {"none", "active", "logged_out", "revoked", "deleted"}
           Rest == /\ now \in Seconds /\ session \in [SessionIds -> States]
                   /\ tokens \subseteq Tokens
                   /\ overlapped \subseteq SessionIds
                   /\ disturbed \subseteq SessionIds
                   /\ failures \in 0 .. MaxFailures
           Good == Rest /\ ReqOK /\ SeenOK
<1>1. Good
  BY DEF TInv, TypeOK
<1>2. SUFFICES Good'
  BY DEF TInv, TypeOK, ReqOK, SeenOK, Fits, Found, Slow
<1>3. CASE Tick
  <2>1. now' \in Seconds
    BY <1>1, <1>3, SessionsAssumption DEF Tick, Seconds
  <2> QED
    BY <1>1, <1>3, <2>1 DEF Tick, ReqOK, SeenOK
<1>4. ASSUME NEW s \in SessionIds, NEW at \in Seconds \cup {None}, Open(s, at)
      PROVE  Good'
  <2>1. <<s, at>> \in Tokens
    BY DEF Tokens
  <2> QED
    BY <1>1, <1>4, <2>1 DEF Open, ReqOK, SeenOK
<1>5. ASSUME NEW S, DeleteSessions(S)
      PROVE  Good'
  <2>1. SeenOK'
    BY <1>5, SeenForgets, SessionsAssumption DEF DeleteSessions, Delete
  <2> QED
    BY <1>1, <1>5, <2>1 DEF DeleteSessions, Delete, ReqOK
<1>6. ASSUME NEW S, RevokeMany(S)
      PROVE  Good'
  BY <1>1, <1>6 DEF RevokeMany, ReqOK, SeenOK
<1>7. ASSUME NEW h \in Handlers, Only(h), NEW D, Forget(h, D),
             Rests(h) \/ \E at \in Steps \ Found : Goes(h, at)
      PROVE  SeenOK'
  BY <1>7, SeenForgets DEF Only, Rests, Goes, Found
<1>8. ASSUME NEW h \in Handlers, ReqOK' /\ Only(h) /\ Starts(h)
      PROVE  Good'
  <2>1. SeenOK'
    BY <1>8, SeenForgets DEF Starts, Only, Found
  <2> QED
    BY <1>1, <1>8, <2>1 DEF Starts
<1>9. ASSUME NEW h \in Handlers, Refresh(h)
       PROVE  Good'
  <2>1. ASSUME NEW op \in Refreshes, NEW t \in Tokens, StartRefresh(h, op, t)
        PROVE  Good'
    BY <2>1, <1>8, RefreshStarts
  <2>2. CASE FindToken(h)
    <3>1. CASE Goes(h, "find_session") /\ req[h].t \in tokens
      <4>1. seen' = [seen EXCEPT ![h] = {req[h].t}] /\ req' = req
        BY <2>2, <3>1, FindTokenShape DEF Goes, Rests
      <4>2. {req[h].t} \in SUBSET (Tokens \cup SessionIds)
        BY <1>1, <3>1
      <4>3. SeenOK'
        BY <1>1, <2>2, <3>1, <4>1, <4>2, FindTokenShape
        DEF SeenOK, Only, Goes, Found
      <4> QED
        BY <1>1, <2>2, <4>3, FindTokenShape
    <3>2. CASE Rests(h) /\ Forget(h, {})
      BY <1>1, <1>7, <2>2, <3>2, FindTokenShape
    <3> QED
      BY <2>2, <3>1, <3>2, FindTokenShape
  <2>3. CASE FindSession(h)
    <3>1. CASE Goes(h, "drop_token") /\ req' = req /\ seen' = seen
      <4>1. SeenOK'
        BY <1>1, <2>3, <3>1, FindSessionShape DEF SeenOK, Only, Goes, Found
      <4> QED
        BY <1>1, <2>3, <4>1, FindSessionShape
    <3>2. CASE Rests(h) /\ Forget(h, {})
      BY <1>1, <1>7, <2>3, <3>2, FindSessionShape
    <3> QED
      BY <2>3, <3>1, <3>2, FindSessionShape
  <2>4. CASE DropToken(h)
    BY <1>1, <1>7, <2>4, DropTokenShape DEF Steps, Found
  <2>5. CASE SelectSession(h)
    BY <1>1, <1>7, <2>5, SelectSessionShape DEF Steps, Found
  <2>6. CASE DeleteAll(h)
    BY <1>1, <1>7, <2>6, DeleteAllShape DEF Steps, Found
  <2>7. CASE Insert(h)
    BY <1>1, <1>7, <2>7, InsertShape DEF Steps, Found
  <2>8. CASE CommitRefresh(h)
    BY <1>1, <1>7, <2>8, CommitRefreshShape
  <2> QED
    BY <1>9, <2>1, <2>2, <2>3, <2>4, <2>5, <2>6, <2>7, <2>8 DEF Refresh
<1>10. ASSUME NEW h \in Handlers, EndSessions(h)
       PROVE  Good'
  <2>1. ASSUME NEW op \in EndsOne \cup EndsAll, NEW s \in SessionIds,
               StartEnd(h, op, s)
        PROVE  Good'
    BY <2>1, <1>8, EndStarts
  <2>2. CASE SaveUser(h)
    BY <1>1, <1>7, <2>2, SaveUserShape DEF Steps, Found
  <2>3. CASE UpdateSessions(h)
    <3>1. SeenOK'
      BY <1>7, <2>3, UpdateSessionsShape DEF Steps, Found
    <3> QED
      BY <1>1, <2>3, <3>1, UpdateSessionsShape DEF End
  <2>4. CASE DeleteTokens(h)
    <3>1. SeenOK'
      BY <1>7, <2>4, DeleteTokensShape DEF Steps, Found
    <3> QED
      BY <1>1, <2>4, <3>1, DeleteTokensShape
  <2>5. CASE CommitEnd(h)
    <3>1. SeenOK'
      BY <1>7, <2>5, CommitEndShape
    <3> QED
      BY <1>1, <2>5, <3>1, CommitEndShape DEF End
  <2>6. ASSUME NEW g \in Handlers, Deadlock(g, h)
        PROVE  Good'
    BY <1>1, <1>7, <2>6, DeadlockShape
  <2> QED
    BY <1>10, <2>1, <2>2, <2>3, <2>4, <2>5, <2>6 DEF EndSessions
<1>11. ASSUME NEW h \in Handlers, Administer(h)
       PROVE  Good'
  <2>1. ASSUME NEW s \in SessionIds, NEW c \in SessionIds, StartRevoke(h, c, s)
        PROVE  Good'
    BY <2>1, <1>8, RevokeStarts
  <2>2. ASSUME NEW s \in SessionIds, StartUnrevoke(h, s)
        PROVE  Good'
    BY <2>2, <1>8, UnrevokeStarts
  <2>3. CASE SaveSession(h)
    BY <1>1, <1>7, <2>3, SaveSessionShape
  <2> QED
    BY <1>11, <2>1, <2>2, <2>3 DEF Administer
<1>12. ASSUME NEW h \in Handlers, Wait(h)
       PROVE  Good'
  <2>1. Swept(h) \subseteq SessionIds /\ Doomed(h) \subseteq Tokens
    BY <1>1 DEF Swept, Doomed
  <2>2. SeenOK'
    BY <1>1, <1>12, <2>1, WaitShape DEF SeenOK, Found, Slow
  <2> QED
    BY <1>1, <1>12, <2>2, WaitShape DEF ReqOK
<1>13. ASSUME NEW h \in Handlers, Fail(h)
       PROVE  Good'
  BY <1>1, <1>7, <1>13, FailShape
<1>14. CASE UNCHANGED vars
  BY <1>1, <1>14 DEF vars, ReqOK, SeenOK
<1> QED
  BY <1>3, <1>4, <1>5, <1>6, <1>9, <1>10, <1>11, <1>12, <1>13, <1>14, Opens
  DEF Next

\* Every variable of Sessions has its type, and a handler at rest holds
\* nothing, not even an open transaction.
THEOREM TypeCorrect == Spec => []TypeOK
<1>1. TInv => TypeOK
  BY DEF TInv
<1> QED
  BY <1>1, TypesInit, TypesStep, PTL DEF Spec

-------------------------------------------------------------------------------
(***************************************************************************)
(* Nothing is about a session before it is created, and one request at     *)
(* most touches a session that was not overlapped.                         *)
(***************************************************************************)

\* What h holds of session s is nothing new, unless it begins.
LEMMA BornKept ==
  ASSUME TInv, NEW s \in SessionIds, Born(s), NEW h \in Handlers, Only(h),
         session'[s] = "none" =>
           /\ session[s] = "none" /\ Of({s})' \subseteq Of({s})
           /\ \/ Rests(h)
              \/ /\ req'[h].s = req[h].s
                 /\ \A t \in req'[h].del : t \in req[h].del \cup tokens
  PROVE  Born(s)'
<1> SUFFICES ASSUME session'[s] = "none"
             PROVE  /\ Of({s})' = {}
                    /\ \A g \in Handlers : /\ req'[g].s # s
                                           /\ \A t \in req'[g].del : t[1] # s
  BY DEF Born
<1>1. /\ Of({s}) = {}
      /\ \A g \in Handlers : /\ req[g].s # s
                             /\ \A t \in req[g].del : t[1] # s
  BY DEF Born
<1>2. \A t \in tokens : t[1] # s
  BY <1>1 DEF Of
<1>3. req'[h].s # s /\ \A t \in req'[h].del : t[1] # s
  BY <1>1, <1>2, NoRequestType, SessionsAssumption DEF Rests
<1> QED
  BY <1>1, <1>3 DEF Only

LEMMA BornStep ==
  ASSUME TInv, Next, NEW s \in SessionIds, Born(s)
  PROVE  Born(s)'
<1> USE DEF TInv, TypeOK
<1>1. CASE Tick
  BY <1>1 DEF Tick, Born, Of
<1>2. ASSUME NEW u \in SessionIds, NEW at, Open(u, at)
      PROVE  Born(s)'
  BY <1>2 DEF Open, Born, Of
<1>3. ASSUME NEW S \in SUBSET SessionIds, DeleteSessions(S)
      PROVE  Born(s)'
  BY <1>3 DEF DeleteSessions, Delete, Born, Of, Exists
<1>4. ASSUME NEW S, RevokeMany(S)
      PROVE  Born(s)'
  BY <1>4 DEF RevokeMany, Born, Of, Exists
<1>5. ASSUME NEW h \in Handlers, Only(h), Starts(h)
      PROVE  Born(s)'
  <2>1. req'[h].s # s \/ session[s] # "none"
    BY <1>5 DEF Starts
  <2>2. req'[h].del = {} /\ session' = session /\ tokens' = tokens
    BY <1>5 DEF Starts
  <2> QED
    BY <1>5, <2>1, <2>2 DEF Born, Of, Only
<1>6. ASSUME NEW h \in Handlers, Refresh(h)
      PROVE  Born(s)'
  <2>1. ASSUME NEW op \in Refreshes, NEW t \in Tokens, StartRefresh(h, op, t)
        PROVE  Born(s)'
    BY <2>1, <1>5, RefreshStarts
  <2>2. CASE FindToken(h)
    BY <2>2, FindTokenShape, BornKept DEF Of
  <2>3. CASE FindSession(h)
    BY <2>3, FindSessionShape, BornKept DEF Of
  <2>4. CASE DropToken(h)
    BY <2>4, DropTokenShape, BornKept DEF Of
  <2>5. CASE SelectSession(h)
    BY <2>5, SelectSessionShape, BornKept DEF Of
  <2>6. CASE DeleteAll(h)
    BY <2>6, DeleteAllShape, BornKept DEF Of, Goes
  <2>7. CASE Insert(h)
    BY <2>7, InsertShape, BornKept DEF Of, Goes
  <2>8. CASE CommitRefresh(h)
    <3>1. session'[s] = "none" => req[h].s # s
      BY <2>8, CommitRefreshShape DEF Born
    <3>2. session'[s] = "none" => Of({s})' \subseteq Of({s})
      BY <2>8, <3>1, CommitRefreshShape DEF Of
    <3> QED
      BY <2>8, <3>2, CommitRefreshShape, BornKept
  <2> QED
    BY <1>6, <2>1, <2>2, <2>3, <2>4, <2>5, <2>6, <2>7, <2>8 DEF Refresh
<1>7. ASSUME NEW h \in Handlers, EndSessions(h)
      PROVE  Born(s)'
  <2>1. ASSUME NEW op \in EndsOne \cup EndsAll, NEW u \in SessionIds,
               StartEnd(h, op, u)
        PROVE  Born(s)'
    BY <2>1, <1>5, EndStarts
  <2>2. CASE SaveUser(h)
    BY <2>2, SaveUserShape, BornKept DEF Of
  <2>3. CASE UpdateSessions(h)
    BY <2>3, UpdateSessionsShape, BornKept DEF Of, Goes, End
  <2>4. CASE DeleteTokens(h)
    BY <2>4, DeleteTokensShape, BornKept DEF Of, Goes, Doomed
  <2>5. CASE CommitEnd(h)
    BY <2>5, CommitEndShape, BornKept DEF Of, End
  <2>6. ASSUME NEW g \in Handlers, Deadlock(g, h)
        PROVE  Born(s)'
    BY <2>6, DeadlockShape, BornKept DEF Of
  <2> QED
    BY <1>7, <2>1, <2>2, <2>3, <2>4, <2>5, <2>6 DEF EndSessions
<1>8. ASSUME NEW h \in Handlers, Administer(h)
      PROVE  Born(s)'
  <2>1. ASSUME NEW u \in SessionIds, NEW c \in SessionIds, StartRevoke(h, c, u)
        PROVE  Born(s)'
    BY <2>1, <1>5, RevokeStarts
  <2>2. ASSUME NEW u \in SessionIds, StartUnrevoke(h, u)
        PROVE  Born(s)'
    BY <2>2, <1>5, UnrevokeStarts
  <2>3. CASE SaveSession(h)
    BY <2>3, SaveSessionShape, BornKept DEF Of
  <2> QED
    BY <1>8, <2>1, <2>2, <2>3 DEF Administer
<1>9. ASSUME NEW h \in Handlers, Wait(h)
      PROVE  Born(s)'
  BY <1>9, WaitShape DEF Born, Of
<1>10. ASSUME NEW h \in Handlers, Fail(h)
       PROVE  Born(s)'
  BY <1>10, FailShape, BornKept DEF Of
<1> QED
  BY <1>1, <1>2, <1>3, <1>4, <1>6, <1>7, <1>8, <1>9, <1>10, Opens DEF Next

\* A request of another session, or none, has no part in s.
LEMMA NoPart ==
  ASSUME ReqOK', NEW s \in SessionIds, NEW h \in Handlers, ~ Touches(h, s)'
  PROVE  RotatesBy(h, s)' /\ ClosesBy(h, s)'
<1>1. Fits(pc'[h], req'[h])
  BY DEF ReqOK
<1>2. ~ (req'[h].op \in Refreshes /\ req'[h].s = s)
  BY DEF Touches, Refreshes
<1>3. s \notin req'[h].ended
  BY <1>1 DEF Fits, Touches, EndsOne
<1> QED
  BY <1>2, <1>3 DEF RotatesBy, ClosesBy

\* The request that touches s goes on.
LEMMA ApartMine ==
  ASSUME ReqOK', NEW s \in SessionIds, Apart(s), NEW h \in Handlers, Only(h),
         Touches(h, s), Single(s)', RotatesBy(h, s)', ClosesBy(h, s)',
         LeftOpen(s)' => Closing(h, s)'
  PROVE  Apart(s)'
<1>1. ASSUME NEW g \in Handlers \ {h}
      PROVE  ~ Touches(g, s)'
  BY <1>1 DEF Apart, Lone, Only, Touches
<1>2. Lone(s)'
  BY <1>1 DEF Lone
<1>3. \A g \in Handlers : RotatesBy(g, s)' /\ ClosesBy(g, s)'
  BY <1>1, NoPart
<1> QED
  BY <1>2, <1>3 DEF Apart

\* A request that does not touch s begins, goes on or ends.
LEMMA ApartElse ==
  ASSUME ReqOK', NEW s \in SessionIds, Apart(s), NEW h \in Handlers, Only(h),
         ~ Touches(h, s), Touches(h, s)' => \A g \in Handlers : ~ Touches(g, s),
         Of({s})' = Of({s}), session'[s] = session[s],
         failures' = 0 => failures = 0, Watch(h, Of({s})),
         Touches(h, s)' => RotatesBy(h, s)' /\ ClosesBy(h, s)'
  PROVE  Apart(s)'
<1>1. \A g \in Handlers \ {h} : /\ Touches(g, s)' <=> Touches(g, s)
                                /\ Closing(g, s)' <=> Closing(g, s)
  BY DEF Touches, Closing, Only
<1>2. Lone(s)'
  BY <1>1 DEF Lone, Apart
<1>3. RotatesBy(h, s)' /\ ClosesBy(h, s)'
  BY NoPart
<1>4. ASSUME NEW g \in Handlers \ {h}
      PROVE  RotatesBy(g, s)' /\ ClosesBy(g, s)'
  <2>1. req'[g] = req[g] /\ pc'[g] = pc[g]
    BY DEF Only
  <2>2. \A t \in Tokens : t[1] = s => (t \in tokens' <=> t \in tokens)
    BY DEF Of
  <2>3. Of({s})' = Of({s}) /\ session'[s] = session[s]
    OBVIOUS
  <2>4. RotatesBy(g, s) /\ ClosesBy(g, s)
    BY DEF Apart
  <2>5. Fits(pc'[g], req'[g])
    BY DEF ReqOK
  <2>6. \A t \in Of({s}) : /\ Sees(g, t) => Sees(g, t)'
                           /\ t \in seen[g] => t \in seen'[g]
    BY DEF Watch
  <2>7. RotatesBy(g, s)'
    BY <2>1, <2>3, <2>4, <2>6 DEF RotatesBy
  <2>8. Touches(g, s)' <=> Touches(g, s)
    BY <1>1
  <2>9. ClosesBy(g, s)'
    BY <2>1, <2>2, <2>3, <2>4, <2>5, <2>6, <2>8 DEF ClosesBy, Fits
  <2> QED
    BY <2>7, <2>9
<1>5. LeftOpen(s)' => \E g \in Handlers : Closing(g, s)'
  <2> SUFFICES ASSUME LeftOpen(s)'
               PROVE  \E g \in Handlers : Closing(g, s)'
    OBVIOUS
  <2>1. LeftOpen(s)
    BY DEF LeftOpen
  <2>2. PICK g \in Handlers : Closing(g, s)
    BY <2>1 DEF Apart
  <2> QED
    BY <1>1, <2>2 DEF Closing
<1> QED
  BY <1>2, <1>3, <1>4, <1>5 DEF Apart, Single

\* No request moves, and the tokens of s stay or go.
LEMMA ApartStill ==
  ASSUME ReqOK', NEW s \in SessionIds, Apart(s), UNCHANGED <<pc, req>>,
         failures' = failures,
         Of({s})' = {} \/ (Of({s})' = Of({s}) /\ Watch(None, Of({s}))),
         \/ Of({s})' = Of({s}) /\ session'[s] = session[s]
         \/ session'[s] # "logged_out"
  PROVE  Apart(s)'
<1>1. \A g \in Handlers : /\ Touches(g, s)' <=> Touches(g, s)
                          /\ Closing(g, s)' <=> Closing(g, s)
  BY DEF Touches, Closing
<1>2. ASSUME NEW g \in Handlers
      PROVE  RotatesBy(g, s)' /\ ClosesBy(g, s)'
  <2>1. req'[g] = req[g] /\ pc'[g] = pc[g]
    OBVIOUS
  <2>2. Of({s})' = {} \/
          \A t \in Tokens : t[1] = s => (t \in tokens' <=> t \in tokens)
    BY DEF Of
  <2>3. RotatesBy(g, s) /\ ClosesBy(g, s)
    BY DEF Apart
  <2>4. Fits(pc'[g], req'[g])
    BY DEF ReqOK
  <2>5. Of({s})' = {} \/
          (/\ Of({s})' = Of({s})
           /\ \A t \in Of({s}) : /\ Sees(g, t) => Sees(g, t)'
                                 /\ t \in seen[g] => t \in seen'[g])
    BY SessionsAssumption DEF Watch
  <2>6. RotatesBy(g, s)'
    BY <2>1, <2>3, <2>5 DEF RotatesBy
  <2>7. Touches(g, s)' <=> Touches(g, s)
    BY <1>1
  <2>8. ClosesBy(g, s)'
    BY <2>1, <2>2, <2>3, <2>4, <2>5, <2>7 DEF ClosesBy, Fits
  <2> QED
    BY <2>6, <2>8
<1>3. LeftOpen(s)' => \E g \in Handlers : Closing(g, s)'
  <2> SUFFICES ASSUME LeftOpen(s)'
               PROVE  \E g \in Handlers : Closing(g, s)'
    OBVIOUS
  <2>1. LeftOpen(s)
    BY DEF LeftOpen
  <2> QED
    BY <1>1, <2>1 DEF Apart
<1> QED
  BY <1>1, <1>2, <1>3 DEF Apart, Lone, Single

\* What a step of h does to a session: nothing, if h does not touch it.
LEMMA ApartStep ==
  ASSUME TInv, TInv', Next, NEW s \in SessionIds, Born(s), Apart(s),
         s \notin overlapped'
  PROVE  Apart(s)'
<1> USE DEF TInv
<1>1. CASE Tick
  BY <1>1, ApartStill, Idles DEF Tick, Of
<1>2. ASSUME NEW u \in SessionIds, NEW at, Open(u, at)
      PROVE  Apart(s)'
  <2>1. CASE u = s
    <3>1. \A h \in Handlers : ~ Touches(h, s)
      BY <1>2, <2>1 DEF Open
    <3>2. \A h \in Handlers : ~ Touches(h, s)'
      BY <1>2, <3>1 DEF Open, Touches
    <3>3. Of({s})' = {<<s, at>>} /\ session'[s] = "active"
      BY <1>2, <2>1 DEF Open, Born, Of, TypeOK
    <3> QED
      BY <3>2, <3>3, NoPart DEF Apart, Lone, Single, LeftOpen
  <2>2. CASE u # s
    <3>1. /\ Of({s})' = Of({s}) /\ session'[s] = session[s]
          /\ UNCHANGED <<pc, req, seen, failures>>
      BY <1>2, <2>2 DEF Open, Of, TypeOK
    <3> QED
      BY <3>1, ApartStill, Idles
  <2> QED
    BY <2>1, <2>2
<1>3. ASSUME NEW S \in SUBSET SessionIds, DeleteSessions(S)
      PROVE  Apart(s)'
  <2>1. CASE s \in S
    <3>1. Of({s})' = {} /\ UNCHANGED <<pc, req, failures>>
      BY <1>3, <2>1 DEF DeleteSessions, Delete, Of
    <3>2. session'[s] = IF Exists(s) THEN "deleted" ELSE session[s]
      BY <1>3, <2>1 DEF DeleteSessions
    <3>3. session'[s] # "logged_out"
      BY <3>2 DEF Exists
    <3> QED
      BY <3>1, <3>3, ApartStill
  <2>2. CASE s \notin S
    <3>0. Of({s}) \subseteq Tokens
      BY DEF Of, TypeOK
    <3>1. Of({s}) \cap (Of(S) \cup S) = {}
      BY <2>2, <3>0, SessionsAssumption DEF Of
    <3>2. Watch(None, Of({s}))
      BY <1>3, <3>1, Sight DEF DeleteSessions, Delete
    <3> QED
      BY <1>3, <2>2, <3>1, <3>2, ApartStill
      DEF DeleteSessions, Delete, Of, TypeOK
  <2> QED
    BY <2>1, <2>2
<1>4. ASSUME NEW S, RevokeMany(S)
      PROVE  Apart(s)'
  BY <1>4, ApartStill, Idles DEF RevokeMany, Of, TypeOK
<1>5. ASSUME NEW h \in Handlers, Only(h), Starts(h)
      PROVE  Apart(s)'
  <2>1. ~ Touches(h, s)
    BY <1>5, NoRequestType DEF Starts, TypeOK, Touches, EndsAll
  <2>2. Touches(h, s)' => \A g \in Handlers : ~ Touches(g, s)
    BY <1>5, <2>1 DEF Starts
  <2>3. RotatesBy(h, s)' /\ ClosesBy(h, s)'
    BY <1>5 DEF Starts, RotatesBy, ClosesBy, Found, Renewing
  <2>4. Watch(h, Of({s}))
    BY <1>5, Sight DEF Starts
  <2> QED
    BY <1>5, <2>1, <2>2, <2>3, <2>4, ApartElse DEF Starts, Of
<1>6. ASSUME NEW h \in Handlers, Only(h), Rests(h), Forget(h, {}),
             UNCHANGED <<session, tokens>>, failures' = 0 => failures = 0,
             Closing(h, s) => failures' # 0
      PROVE  Apart(s)'
  <2>1. ~ Touches(h, s)'
    BY <1>6, NoRequestType, SessionsAssumption DEF Rests, Touches, EndsAll
  <2>2. CASE Touches(h, s)
    <3>1. LeftOpen(s)' => Closing(h, s)
      BY <1>6, <2>2 DEF LeftOpen, Of, Apart, Lone, Closing
    <3>2. ~ LeftOpen(s)'
      BY <1>6, <3>1 DEF LeftOpen
    <3> QED
      BY <1>6, <2>1, <2>2, <3>2, NoPart, ApartMine DEF Apart, Single, Of
  <2>3. CASE ~ Touches(h, s)
    <3>1. Of({s})' = Of({s}) /\ session'[s] = session[s]
      BY <1>6 DEF Of
    <3>2. Watch(h, Of({s}))
      BY <1>6, Sight
    <3> QED
      BY <1>6, <2>1, <2>3, <3>1, <3>2, ApartElse
  <2> QED
    BY <2>2, <2>3
<1>7. ASSUME NEW h \in Handlers, Refresh(h)
      PROVE  Apart(s)'
  <2>1. ASSUME NEW op \in Refreshes, NEW t \in Tokens, StartRefresh(h, op, t)
        PROVE  Apart(s)'
    BY <2>1, <1>5, RefreshStarts
  <2>2. ASSUME req[h].op \in Refreshes, Only(h), ~ Touches(h, s),
               \A t \in tokens : t[1] # req[h].s => t \in tokens',
               \A t \in tokens' : t[1] # req[h].s => t \in tokens,
               Rests(h) \/ \E at : Goes(h, at), Watch(h, Of({s})),
               UNCHANGED <<session, failures>>
        PROVE  Apart(s)'
    <3>1. ~ Touches(h, s)'
      BY <2>2, NoRequestType, SessionsAssumption
      DEF Goes, Rests, Touches, EndsAll
    <3>2. req[h].s # s
      BY <2>2 DEF Touches, Refreshes
    <3>3. Of({s})' = Of({s})
      BY <2>2, <3>2 DEF Of
    <3> QED
      BY <2>2, <3>1, <3>3, ApartElse
  <2>3. ASSUME req[h].op \in Refreshes, Touches(h, s)
        PROVE  /\ req[h].s = s /\ ~ Closing(h, s)
               /\ \A g \in Handlers : ~ Closing(g, s)
               /\ RotatesBy(h, s) /\ ClosesBy(h, s)
               /\ LeftOpen(s) => FALSE
    BY <2>3 DEF Touches, Refreshes, EndsAll, Closing, AutoCommit, Apart, Lone
  <2>4. CASE FindToken(h)
    <3>1. CASE Rests(h) /\ Forget(h, {})
      BY <2>3, <2>4, <3>1, <1>6, FindTokenShape DEF Closing
    <3>2. CASE /\ Goes(h, "find_session") /\ req[h].t \in tokens
               /\ seen' = [seen EXCEPT ![h] = {req[h].t}]
      <4>1. Watch(h, Of({s})) /\ seen'[h] = {req[h].t}
        BY <3>2, Looks
      <4>2. CASE Touches(h, s)
        <5>1. req[h].t \in Of({s})
          BY <2>3, <2>4, <3>2, <4>2, FindTokenShape DEF ReqOK, Fits, Of
        <5>2. Of({s})' \subseteq seen'[h]
          BY <2>4, <4>1, <5>1, FindTokenShape DEF Apart, Single, Of
        <5> QED
          BY <2>3, <2>4, <3>2, <4>2, <5>2, FindTokenShape, ApartMine
          DEF Goes, RotatesBy, ClosesBy, Found, Renewing, Of, Single, Apart,
              LeftOpen, Refreshes, Ends, EndsOne, EndsAll
      <4>3. CASE ~ Touches(h, s)
        BY <2>2, <2>4, <3>2, <4>1, <4>3, FindTokenShape
      <4> QED
        BY <4>2, <4>3
    <3> QED
      BY <2>4, <3>1, <3>2, FindTokenShape
  <2>5. CASE FindSession(h)
    <3>1. CASE Rests(h) /\ Forget(h, {})
      BY <2>3, <2>5, <3>1, <1>6, FindSessionShape DEF Closing
    <3>2. CASE /\ Goes(h, "drop_token") /\ Active(req[h].s) /\ req' = req
               /\ seen' = seen
      <4>1. Watch(h, Of({s}))
        BY <3>2, Idles
      <4>2. CASE Touches(h, s)
        BY <2>3, <2>5, <3>2, <4>2, FindSessionShape, ApartMine
        DEF Goes, RotatesBy, ClosesBy, Found, Renewing, Of, Single, Apart,
            LeftOpen, Active, Refreshes, Ends, EndsOne, EndsAll
      <4>3. CASE ~ Touches(h, s)
        BY <2>2, <2>5, <3>2, <4>1, <4>3, FindSessionShape
      <4> QED
        BY <4>2, <4>3
    <3> QED
      BY <2>5, <3>1, <3>2, FindSessionShape
  <2>6. CASE DropToken(h)
    <3>1. CASE Touches(h, s)
      <4>1. Of({s})' = {}
        <5>1. Of({s}) \subseteq seen[h]
          BY <2>3, <2>6, <3>1, DropTokenShape DEF RotatesBy, Found
        <5> QED
          BY <5>1, <2>6, DropTokenShape DEF Of
      <4> QED
        BY <2>3, <2>6, <3>1, <4>1, DropTokenShape, ApartMine
        DEF Goes, RotatesBy, ClosesBy, Found, Renewing, Single, LeftOpen,
            Refreshes, Ends, EndsOne, EndsAll
    <3>2. CASE ~ Touches(h, s)
      <4>1. Of({s}) \cap seen[h] = {}
        BY <2>6, <3>2, DropTokenShape DEF Of, Touches, Refreshes
      <4>2. Watch(h, Of({s}))
        BY <2>6, <4>1, DropTokenShape, Sight
      <4> QED
        BY <2>2, <2>6, <3>2, <4>2, DropTokenShape
    <3> QED
      BY <3>1, <3>2
  <2>7. CASE SelectSession(h)
    <3>1. CASE Rests(h)
      BY <2>3, <2>7, <3>1, <1>6, SelectSessionShape DEF Closing
    <3>2. CASE req' = req /\ (Goes(h, "delete_all") \/ Goes(h, "insert"))
      BY <2>2, <2>3, <2>7, <3>2, SelectSessionShape, Sight, ApartMine
      DEF Goes, RotatesBy, ClosesBy, Found, Renewing, Of, Single, Apart,
          LeftOpen, Refreshes, Ends, EndsOne, EndsAll
    <3> QED
      BY <2>7, <3>1, <3>2, SelectSessionShape
  <2>8. CASE DeleteAll(h)
    BY <2>2, <2>3, <2>8, DeleteAllShape, Sight, ApartMine
    DEF Goes, RotatesBy, ClosesBy, Found, Renewing, Of, Single, Apart,
        LeftOpen, Refreshes, Ends, EndsOne, EndsAll
  <2>9. CASE Insert(h)
    <3>1. CASE Rests(h)
      BY <2>3, <2>9, <3>1, <1>6, InsertShape DEF Closing
    <3>2. CASE Goes(h, "commit")
      BY <2>2, <2>3, <2>9, <3>2, InsertShape, Sight, ApartMine
      DEF Goes, RotatesBy, ClosesBy, Found, Renewing, Of, Single, Apart,
          LeftOpen, Refreshes, Ends, EndsOne, EndsAll
    <3> QED
      BY <2>9, <3>1, <3>2, InsertShape
  <2>10. CASE CommitRefresh(h)
    <3>1. CASE Touches(h, s)
      <4>1. ~ Touches(h, s)'
        BY <2>10, CommitRefreshShape, NoRequestType, SessionsAssumption
        DEF Rests, Touches, EndsAll
      <4>2. Of({s}) = {} /\ session[s] # "logged_out"
        BY <2>3, <2>10, <3>1, CommitRefreshShape
        DEF RotatesBy, ClosesBy, Renewing
      <4>3. Single(s)'
        BY <2>10, <4>2, CommitRefreshShape DEF Of, Single
      <4> QED
        BY <2>10, <3>1, <4>1, <4>2, <4>3, CommitRefreshShape, NoPart, ApartMine
        DEF LeftOpen
    <3>2. CASE ~ Touches(h, s)
      <4>1. Of({s}) \cap req[h].del = {}
        BY <2>10, <3>2, CommitRefreshShape DEF Of, Touches, Refreshes
      <4>2. Watch(h, Of({s}))
        BY <2>10, <4>1, CommitRefreshShape, Sight
      <4> QED
        BY <2>2, <2>10, <3>2, <4>2, CommitRefreshShape
    <3> QED
      BY <3>1, <3>2
  <2> QED
    BY <1>7, <2>1, <2>4, <2>5, <2>6, <2>7, <2>8, <2>9, <2>10 DEF Refresh
<1>8. ASSUME NEW h \in Handlers, EndSessions(h)
      PROVE  Apart(s)'
  <2>1. ASSUME NEW op \in EndsOne \cup EndsAll, NEW u \in SessionIds,
               StartEnd(h, op, u)
        PROVE  Apart(s)'
    BY <2>1, <1>5, EndStarts
  <2>2. ASSUME req[h].op \in Ends, Only(h), ~ Touches(h, s),
               Of({s})' = Of({s}), session'[s] = session[s],
               Rests(h) \/ \E at : Goes(h, at), Watch(h, Of({s})),
               UNCHANGED failures
        PROVE  Apart(s)'
    <3>1. ~ Touches(h, s)'
      BY <2>2, NoRequestType, SessionsAssumption
      DEF Goes, Rests, Touches, EndsAll
    <3> QED
      BY <2>2, <3>1, ApartElse
  <2>3. ASSUME req[h].op \in Ends
        PROVE  /\ \A g \in Handlers : Closing(g, s) /\ Touches(h, s) => g = h
               /\ RotatesBy(h, s)' \/ ~ (req'[h].op = req[h].op)
    BY <2>3 DEF Closing, Apart, Lone, RotatesBy, Refreshes, Ends, EndsOne,
                EndsAll
  <2>4. CASE SaveUser(h)
    <3>1. req[h].op \in Ends
      BY <2>4, SaveUserShape DEF SavesUser, Ends, EndsAll
    <3>2. CASE Touches(h, s)
      <4>1. LeftOpen(s)' => FALSE
        BY <2>3, <2>4, <3>1, <3>2, SaveUserShape
        DEF LeftOpen, Of, Apart, Closing
      <4> QED
        BY <2>3, <2>4, <3>1, <3>2, <4>1, SaveUserShape, ApartMine
        DEF Goes, ClosesBy, Refreshes, Ends, EndsOne, EndsAll, Single, Of, Apart
    <3>3. CASE ~ Touches(h, s)
      BY <2>2, <2>4, <3>1, <3>3, SaveUserShape, Sight DEF Of
    <3> QED
      BY <3>2, <3>3
  <2>5. CASE UpdateSessions(h)
    <3>1. req[h].op \in Ends
      BY <2>5, UpdateSessionsShape
    <3>2. CASE Rests(h) /\ UNCHANGED session
      BY <2>5, <3>2, <1>6, UpdateSessionsShape DEF Closing
    <3>3. CASE Goes(h, "delete") /\ Touches(h, s)
      <4>1. req[h].op \in AutoCommit => Closing(h, s)'
        BY <3>3 DEF Goes, Closing, Touches
      <4>2. req[h].op \notin AutoCommit => ~ LeftOpen(s)'
        BY <2>3, <2>5, <3>1, <3>3, UpdateSessionsShape
        DEF LeftOpen, Of, Apart, Closing, Rests, Goes, AutoCommit
      <4>3. seen'[h] = None
        BY <2>5, UpdateSessionsShape, Sight
      <4>4. ClosesBy(h, s)'
        BY <3>1, <3>3, <4>3
        DEF ClosesBy, Goes, Sees, Refreshes, Ends, EndsOne, EndsAll
      <4> QED
        BY <2>3, <2>5, <3>1, <3>3, <4>1, <4>2, <4>4, UpdateSessionsShape,
           ApartMine
        DEF Goes, Single, Of, Apart
    <3>4. CASE Goes(h, "delete") /\ ~ Touches(h, s)
      <4>1. session'[s] = session[s]
        BY <2>5, <3>4, UpdateSessionsShape DEF End, Swept
      <4> QED
        BY <2>2, <2>5, <3>1, <3>4, <4>1, UpdateSessionsShape, Sight DEF Of
    <3> QED
      BY <2>5, <3>2, <3>3, <3>4, UpdateSessionsShape
  <2>6. CASE DeleteTokens(h)
    <3>1. req[h].op \in Ends /\ pc[h] = "delete"
      BY <2>6, DeleteTokensShape
    <3>2. CASE Rests(h) /\ Touches(h, s)
      <4>0. Of({s}) \subseteq Doomed(h)
        BY <3>1, <3>2 DEF Apart, ClosesBy, Doomed, Of
      <4>1. Of({s})' = {} /\ ~ Touches(h, s)'
        BY <2>6, <3>1, <3>2, <4>0, DeleteTokensShape, NoRequestType,
           SessionsAssumption
        DEF Rests, Of, Touches, EndsAll, Ends, EndsOne, Goes, AutoCommit
      <4> QED
        BY <2>6, <3>2, <4>1, DeleteTokensShape, NoPart, ApartMine
        DEF Single, LeftOpen
    <3>3. CASE req[h].op \notin AutoCommit /\ Goes(h, "commit") /\ Touches(h, s)
      <4>1. ~ LeftOpen(s)'
        BY <2>3, <2>6, <3>1, <3>3, DeleteTokensShape
        DEF LeftOpen, Of, Apart, Closing
      <4>2. Of({s})' = Of({s}) /\ Of({s}) \subseteq req'[h].del
        BY <2>6, <3>1, <3>3, DeleteTokensShape
        DEF Apart, ClosesBy, Doomed, Of, Goes, Rests
      <4>3. ClosesBy(h, s)'
        BY <3>1, <3>3, <4>2
        DEF ClosesBy, Goes, Refreshes, Ends, EndsOne, EndsAll
      <4> QED
        <5>1. Single(s)'
          BY <4>2 DEF Apart, Single
        <5>2. RotatesBy(h, s)'
          BY <2>3, <3>1, <3>3 DEF Goes
        <5> QED
          BY <2>6, <3>3, <4>1, <4>3, <5>1, <5>2, DeleteTokensShape, ApartMine
    <3>4. CASE ~ Touches(h, s)
      <4>1. Of({s})' = Of({s})
        BY <2>6, <3>4, DeleteTokensShape DEF Of, Doomed
      <4>2. Of({s}) \cap Doomed(h) = {}
        BY <3>4 DEF Of, Doomed
      <4>3. Watch(h, Of({s}))
        BY <2>6, <4>2, DeleteTokensShape, Sight
      <4> QED
        BY <2>2, <2>6, <3>1, <3>4, <4>1, <4>3, DeleteTokensShape
    <3> QED
      BY <2>6, <3>2, <3>3, <3>4, DeleteTokensShape
  <2>7. CASE CommitEnd(h)
    <3>1. req[h].op \in Ends /\ pc[h] = "commit" /\ ~ Closing(h, s)
      BY <2>7, CommitEndShape DEF Closing
    <3>2. ~ Touches(h, s)'
      BY <2>7, CommitEndShape, NoRequestType, SessionsAssumption
      DEF Rests, Touches, EndsAll
    <3>3. CASE Touches(h, s)
      <4>1. s \in req[h].ended => Of({s})' = {}
        BY <2>7, <3>1, <3>3, CommitEndShape DEF Apart, ClosesBy, Of
      <4>2. s \notin req[h].ended => session'[s] = session[s]
        BY <2>7, CommitEndShape DEF End
      <4>3. ~ LeftOpen(s)
        BY <2>3, <3>1, <3>3 DEF Apart
      <4>4. ~ LeftOpen(s)'
        BY <2>7, <4>1, <4>2, <4>3, CommitEndShape DEF LeftOpen, Of
      <4>5. Single(s)'
        BY <2>7, CommitEndShape DEF Apart, Single, Of
      <4> QED
        BY <2>7, <3>2, <3>3, <4>4, <4>5, CommitEndShape, NoPart, ApartMine
    <3>4. CASE ~ Touches(h, s)
      <4>1. Fits(pc[h], req[h])
        BY DEF ReqOK
      <4>2. s \notin req[h].ended /\ \A t \in req[h].del : t[1] # s
        BY <2>7, <3>4, <4>1, CommitEndShape
        DEF Fits, Touches, Ends, EndsOne, EndsAll
      <4>3. session'[s] = session[s] /\ Of({s})' = Of({s})
        BY <2>7, <4>2, CommitEndShape DEF End, Of
      <4>4. Of({s}) \cap req[h].del = {}
        BY <4>2 DEF Of
      <4>5. Watch(h, Of({s}))
        BY <2>7, <4>4, CommitEndShape, Sight
      <4> QED
        BY <2>2, <2>7, <3>1, <3>4, <4>3, <4>5, CommitEndShape
    <3> QED
      BY <3>3, <3>4
  <2>8. ASSUME NEW g \in Handlers, Deadlock(g, h)
        PROVE  Apart(s)'
    <3>1. ~ Closing(g, s) /\ ~ Closing(h, s)
      BY <2>8, DeadlockShape DEF Closing, AutoCommit
    <3> QED
      BY <2>8, <3>1, <1>6, DeadlockShape
  <2> QED
    BY <1>8, <2>1, <2>4, <2>5, <2>6, <2>7, <2>8 DEF EndSessions
<1>9. ASSUME NEW h \in Handlers, Administer(h)
      PROVE  Apart(s)'
  <2>1. ASSUME NEW u \in SessionIds, NEW c \in SessionIds, StartRevoke(h, c, u)
        PROVE  Apart(s)'
    BY <2>1, <1>5, RevokeStarts
  <2>2. ASSUME NEW u \in SessionIds, StartUnrevoke(h, u)
        PROVE  Apart(s)'
    BY <2>2, <1>5, UnrevokeStarts
  <2>3. CASE SaveSession(h)
    <3>1. ~ Touches(h, s)'
      BY <2>3, SaveSessionShape, NoRequestType, SessionsAssumption
      DEF Rests, Touches, EndsAll
    <3>2. CASE Touches(h, s)
      <4>1. req[h].s = s
        BY <2>3, <3>2, SaveSessionShape DEF Touches, Saves, EndsAll
      <4>2. ~ LeftOpen(s)'
        BY <2>3, <4>1, SaveSessionShape DEF LeftOpen, TypeOK
      <4> QED
        BY <2>3, <3>1, <3>2, <4>2, SaveSessionShape, NoPart, ApartMine
        DEF Single, Of, Apart
    <3>3. CASE ~ Touches(h, s)
      <4>1. req[h].s # s
        BY <2>3, <3>3, SaveSessionShape DEF Touches, Saves
      <4> QED
        <5>1. Of({s})' = Of({s}) /\ session'[s] = session[s]
          BY <2>3, <4>1, SaveSessionShape DEF Of, TypeOK
        <5>2. Watch(h, Of({s}))
          BY <2>3, SaveSessionShape, Sight
        <5> QED
          BY <2>3, <3>1, <3>3, <5>1, <5>2, SaveSessionShape, ApartElse
    <3> QED
      BY <3>2, <3>3
  <2> QED
    BY <1>9, <2>1, <2>2, <2>3 DEF Administer
<1>10. ASSUME NEW h \in Handlers, Wait(h)
       PROVE  Apart(s)'
  <2>1. /\ Of({s})' = Of({s}) /\ (Lone(s)' <=> Lone(s))
        /\ LeftOpen(s)' <=> LeftOpen(s)
        /\ \A g \in Handlers : /\ Closing(g, s)' <=> Closing(g, s)
                               /\ Touches(g, s)' <=> Touches(g, s)
    BY <1>10, WaitShape DEF Of, Lone, LeftOpen, Closing, Touches
  <2>2. ASSUME NEW g \in Handlers \ {h}
        PROVE  RotatesBy(g, s)' /\ ClosesBy(g, s)'
    <3>1. seen'[g] = seen[g] /\ (\A t : Sees(g, t)' <=> Sees(g, t))
      BY <1>10, WaitShape DEF Sees
    <3> QED
      BY <1>10, <2>1, <2>2, <3>1, WaitShape DEF Apart, RotatesBy, ClosesBy
  <2>3. RotatesBy(h, s)'
    BY <1>10, <2>1, WaitShape DEF Apart, RotatesBy, Found
  <2>4. pc[h] = "delete" /\ Touches(h, s) =>
          \A t \in Of({s}) : t \in Doomed(h)
    BY <1>10, WaitShape DEF Doomed, Of
  <2>5. ClosesBy(h, s)'
    BY <1>10, <2>1, <2>4, WaitShape DEF Apart, ClosesBy, Sees
  <2> QED
    BY <2>1, <2>2, <2>3, <2>5 DEF Apart, Single
<1>11. ASSUME NEW h \in Handlers, Fail(h)
       PROVE  Apart(s)'
  <2>1. failures' # 0
    BY <1>11, FailShape, SessionsAssumption DEF TypeOK
  <2> QED
    BY <1>11, <2>1, <1>6, FailShape
<1> QED
  BY <1>1, <1>2, <1>3, <1>4, <1>7, <1>8, <1>9, <1>10, <1>11, Opens DEF Next

-------------------------------------------------------------------------------
(***************************************************************************)
(* What an active session has to go on with.                               *)
(***************************************************************************)

\* Rows of tokens that are gone are not rows of sessions.
LEMMA SessionSight ==
  ASSUME NEW s \in SessionIds, NEW h, NEW D, Forget(h, D), D \subseteq Tokens
  PROVE  Watch(h, {s})
<1>1. {s} \cap D = {}
  BY SessionsAssumption
<1> QED
  BY <1>1, Sight

\* h goes on, and takes the last token of s only if it owes one then.
LEMMA KeepsKept ==
  ASSUME NEW s \in SessionIds, Keeps(s), NEW h \in Handlers, Only(h),
         Watch(h, {s}),
         Active(s)' =>
           /\ Active(s) /\ Spares(h, s)'
           /\ failures' = 0 /\ Of({s})' = {} =>
                /\ failures = 0
                /\ Of({s}) # {} \/ Owes(h, s) => Owes(h, s)'
  PROVE  Keeps(s)'
<1> SUFFICES ASSUME Active(s)'
             PROVE  /\ \A g \in Handlers : Spares(g, s)'
                    /\ failures' = 0 /\ Of({s})' = {} =>
                         \E g \in Handlers : Owes(g, s)'
  BY DEF Keeps
<1>1. \A g \in Handlers \ {h} : /\ Spares(g, s) => Spares(g, s)'
                                /\ Owes(g, s)' <=> Owes(g, s)
  BY DEF Only, Spares, Owes, Touches, Watch
<1>2. \A g \in Handlers : Spares(g, s)'
  BY <1>1 DEF Keeps
<1>3. ASSUME failures' = 0, Of({s})' = {}
      PROVE  \E g \in Handlers : Owes(g, s)'
  <2>1. CASE Of({s}) # {} \/ Owes(h, s)
    BY <1>3, <2>1
  <2>2. CASE ~ (Of({s}) # {} \/ Owes(h, s))
    BY <1>1, <1>3, <2>2 DEF Keeps
  <2> QED
    BY <2>1, <2>2
<1> QED
  BY <1>2, <1>3

\* No request moves.
LEMMA KeepsStill ==
  ASSUME NEW s \in SessionIds, Keeps(s), UNCHANGED <<pc, req, failures>>,
         Watch(None, {s}),
         Active(s)' => Active(s) /\ Of({s})' = Of({s})
  PROVE  Keeps(s)'
<1>1. \A g \in Handlers : /\ Spares(g, s) => Spares(g, s)'
                          /\ Owes(g, s)' <=> Owes(g, s)
  BY SessionsAssumption DEF Spares, Owes, Touches, Watch
<1> QED
  BY <1>1 DEF Keeps

LEMMA KeepsStep ==
  ASSUME TInv, TInv', Next, NEW s \in SessionIds, Born(s), Keeps(s),
         s \notin disturbed'
  PROVE  Keeps(s)'
<1> USE DEF TInv
<1>1. CASE Tick
  BY <1>1, KeepsStill, Idles DEF Tick, Of, Active
<1>2. ASSUME NEW u \in SessionIds, NEW at \in Seconds \cup {None}, Open(u, at)
      PROVE  Keeps(s)'
  <2>1. CASE u = s
    <3>1. <<s, at>> \in Of({s})'
      BY <1>2, <2>1 DEF Open, Of
    <3>2. ASSUME NEW h \in Handlers
          PROVE  Spares(h, s)'
      <4>1. req[h].s # s /\ \A t \in req[h].del : t[1] # s
        BY <1>2, <2>1 DEF Open, Born
      <4>2. ~ Between(h)
        BY <1>2, <2>1 DEF Open
      <4>3. pc[h] = "commit" => req[h].op # "email"
        BY <1>2 DEF Open, HoldsKey, HoldsUser, SavesUser
      <4>4. UNCHANGED <<pc, req, seen>>
        BY <1>2 DEF Open
      <4> QED
        BY <4>1, <4>2, <4>3, <4>4 DEF Between, Spares, Sees, Touches
    <3> QED
      BY <3>1, <3>2 DEF Keeps
  <2>2. CASE u # s
    <3>1. /\ Of({s})' = Of({s}) /\ (Active(s)' <=> Active(s))
          /\ UNCHANGED <<pc, req, seen, failures>>
      BY <1>2, <2>2 DEF Open, Of, TypeOK, Active
    <3> QED
      BY <3>1, KeepsStill, Idles
  <2> QED
    BY <2>1, <2>2
<1>3. ASSUME NEW S \in SUBSET SessionIds, DeleteSessions(S)
      PROVE  Keeps(s)'
  <2>1. Active(s)' => s \notin S /\ Active(s) /\ Of({s})' = Of({s})
    <3>1. session'[s] = IF s \in S /\ Exists(s) THEN "deleted"
                                               ELSE session[s]
      BY <1>3 DEF DeleteSessions
    <3>2. Active(s)' => s \notin S /\ Active(s)
      BY <3>1 DEF Active, Exists
    <3>3. Of({s}) \subseteq Tokens
      BY DEF Of, TypeOK
    <3>4. s \notin S => Of({s}) \cap (Of(S) \cup S) = {}
      BY <1>3, <3>3, SessionsAssumption DEF Of
    <3>5. tokens' = tokens \ (Of(S) \cup S)
      BY <1>3 DEF DeleteSessions, Delete
    <3> QED
      BY <3>2, <3>4, <3>5 DEF Of
  <2>2. CASE Active(s)'
    <3>1. {s} \cap (Of(S) \cup S) = {}
      BY <2>1, <2>2, SessionsAssumption DEF Of, TypeOK
    <3>2. Watch(None, {s})
      BY <1>3, <3>1, Sight DEF DeleteSessions, Delete
    <3> QED
      BY <1>3, <2>1, <3>2, KeepsStill DEF DeleteSessions
  <2> QED
    BY <2>2 DEF Keeps
<1>4. ASSUME NEW S, RevokeMany(S)
      PROVE  Keeps(s)'
  BY <1>4, KeepsStill, Idles DEF RevokeMany, Of, TypeOK, Active
<1>5. ASSUME NEW h \in Handlers, Only(h), Starts(h)
      PROVE  Keeps(s)'
  <2>1. Spares(h, s)' /\ ~ Owes(h, s)
    BY <1>5, Sight DEF Starts, Spares, Sees, Owes, Renewing
  <2>2. Watch(h, {s})
    BY <1>5, SessionSight DEF Starts
  <2> QED
    BY <1>5, <2>1, <2>2, KeepsKept DEF Starts, Of, Active
<1>6. ASSUME NEW h \in Handlers, pc'[h] \notin {"delete", "commit"},
             pc'[h] = "update" => seen'[h] = None
      PROVE  Spares(h, s)'
  BY <1>6 DEF Spares, Sees
<1>7. ASSUME NEW h \in Handlers, Refresh(h)
      PROVE  Keeps(s)'
  <2>1. ASSUME NEW op \in Refreshes, NEW t \in Tokens, StartRefresh(h, op, t)
        PROVE  Keeps(s)'
    BY <2>1, <1>5, RefreshStarts
  <2>2. CASE FindToken(h)
    <3>1. Watch(h, {s})
      BY <2>2, FindTokenShape, SessionSight, Looks
    <3> QED
      BY <2>2, <3>1, <1>6, FindTokenShape, KeepsKept
      DEF Goes, Rests, Owes, Renewing, Of, Active
  <2>3. CASE FindSession(h)
    <3>1. Watch(h, {s})
      BY <2>3, FindSessionShape, SessionSight, Idles
    <3> QED
      BY <2>3, <3>1, <1>6, FindSessionShape, KeepsKept
      DEF Goes, Rests, Owes, Renewing, Of, Active
  <2>4. CASE DropToken(h)
    <3>1. Spares(h, s)' /\ ~ Owes(h, s)
      BY <2>4, <1>6, DropTokenShape DEF Goes, Owes, Renewing
    <3>2. req[h].s = s => Owes(h, s)'
      BY <2>4, DropTokenShape DEF Goes, Owes, Renewing
    <3>3. req[h].s # s => Of({s})' = Of({s})
      BY <2>4, DropTokenShape DEF Of
    <3>4. seen[h] \subseteq Tokens
      <4>1. Fits(pc[h], req[h]) /\ seen[h] \in SUBSET {req[h].t}
        BY <2>4, DropTokenShape DEF ReqOK, SeenOK, Found
      <4> QED
        BY <2>4, <4>1, DropTokenShape DEF Fits
    <3>5. Watch(h, {s})
      BY <2>4, <3>4, DropTokenShape, SessionSight
    <3> QED
      BY <2>4, <3>1, <3>2, <3>3, <3>5, DropTokenShape, KeepsKept DEF Active
  <2>5. CASE SelectSession(h)
    <3>0. Watch(h, {s})
      BY <2>5, SelectSessionShape, SessionSight
    <3>1. Spares(h, s)'
      BY <2>5, <1>6, SelectSessionShape DEF Goes, Rests
    <3>2. Active(s)' /\ Owes(h, s) => Owes(h, s)'
      BY <2>5, SelectSessionShape DEF Goes, Owes, Renewing, Active
    <3>3. /\ Of({s})' = Of({s}) /\ (Active(s)' <=> Active(s))
          /\ Only(h) /\ failures' = failures
      BY <2>5, SelectSessionShape DEF Of, Active
    <3> QED
      BY <3>0, <3>1, <3>2, <3>3, KeepsKept
  <2>6. CASE DeleteAll(h)
    <3>1. Watch(h, {s})
      BY <2>6, DeleteAllShape, Calm
    <3>2. /\ Of({s})' = Of({s}) /\ (Active(s)' <=> Active(s))
          /\ Only(h) /\ failures' = failures
      BY <2>6, DeleteAllShape DEF Of, Active
    <3>3. Spares(h, s)' /\ (Owes(h, s) => Owes(h, s)')
      BY <2>6, <1>6, DeleteAllShape DEF Goes, Owes, Renewing
    <3> QED
      BY <3>1, <3>2, <3>3, KeepsKept
  <2>7. CASE Insert(h)
    <3>0. Watch(h, {s})
      BY <2>7, InsertShape, Calm
    <3>1. Spares(h, s)'
      BY <2>7, InsertShape
      DEF Spares, Goes, Rests, Refreshes, Ends, EndsOne, EndsAll
    <3>2. Active(s)' /\ Owes(h, s) => Owes(h, s)' \/ Of({s})' # {}
      BY <2>7, InsertShape DEF Goes, Owes, Renewing, Active, Exists, Of
    <3> QED
      BY <2>7, <3>0, <3>1, <3>2, InsertShape, KeepsKept DEF Of, Active
  <2>8. CASE CommitRefresh(h)
    <3>1. Spares(h, s)'
      BY <2>8, <1>6, CommitRefreshShape DEF Rests
    <3>2. req[h].s = s => Of({s})' # {}
      BY <2>8, CommitRefreshShape DEF Of
    <3>3. req[h].s # s => Of({s})' = Of({s}) /\ ~ Owes(h, s)
      BY <2>8, CommitRefreshShape DEF Of, Owes
    <3>4. req[h].del \subseteq Tokens
      BY FieldTypes DEF ReqOK
    <3>5. Watch(h, {s})
      BY <2>8, <3>4, CommitRefreshShape, SessionSight
    <3> QED
      BY <2>8, <3>1, <3>2, <3>3, <3>5, CommitRefreshShape, KeepsKept DEF Active
  <2> QED
    BY <1>7, <2>1, <2>2, <2>3, <2>4, <2>5, <2>6, <2>7, <2>8 DEF Refresh
<1>8. ASSUME NEW h \in Handlers, EndSessions(h)
      PROVE  Keeps(s)'
  <2>1. ASSUME NEW op \in EndsOne \cup EndsAll, NEW u \in SessionIds,
               StartEnd(h, op, u)
        PROVE  Keeps(s)'
    BY <2>1, <1>5, EndStarts
  <2>2. ASSUME req[h].op \in Ends
        PROVE  ~ Owes(h, s)
    BY <2>2 DEF Owes, Refreshes, Ends, EndsOne, EndsAll
  <2>3. CASE SaveUser(h)
    <3>1. Spares(h, s)' /\ ~ Owes(h, s)
      BY <2>3, <2>2, <1>6, SaveUserShape, Sight
      DEF Goes, SavesUser, Ends, EndsAll
    <3> QED
      BY <2>3, <3>1, SaveUserShape, SessionSight, KeepsKept DEF Of, Active
  <2>4. CASE UpdateSessions(h)
    <3>0. Watch(h, {s})
      BY <2>4, UpdateSessionsShape, SessionSight
    <3>1. ~ Owes(h, s) /\ Of({s})' = Of({s})
      BY <2>4, <2>2, UpdateSessionsShape DEF Of
    <3>2. Active(s)' => Active(s)
      BY <2>4, UpdateSessionsShape DEF End, Active
    <3>3. CASE Rests(h)
      BY <2>4, <3>0, <3>1, <3>2, <3>3, <1>6, UpdateSessionsShape, KeepsKept
      DEF Rests
    <3>4. CASE Goes(h, "delete")
      <4>0. Active(s)' /\ Touches(h, s) => s \in Swept(h)
        BY <2>4, <3>2, UpdateSessionsShape DEF Keeps, Spares, Swept
      <4>1. Active(s)' /\ Touches(h, s) =>
              req[h].op \notin AutoCommit /\ s \in req'[h].ended
        BY <2>4, <3>4, <4>0, UpdateSessionsShape DEF End, Active, Rests, Goes
      <4>2. Touches(h, s)' <=> Touches(h, s)
        BY <3>4 DEF Goes, Touches
      <4>3. Active(s)' => Spares(h, s)'
        BY <3>4, <4>1, <4>2 DEF Spares, Goes
      <4> QED
        BY <2>4, <3>0, <3>1, <3>2, <4>3, UpdateSessionsShape, KeepsKept
    <3> QED
      BY <2>4, <3>3, <3>4, UpdateSessionsShape
  <2>5. CASE DeleteTokens(h)
    <3>1. ~ Owes(h, s) /\ (Active(s)' => Active(s) /\ Spares(h, s))
      BY <2>5, <2>2, DeleteTokensShape DEF Active, Keeps
    <3>0. Watch(h, {s})
      <4>1. Doomed(h) \subseteq Tokens
        BY DEF Doomed, TypeOK
      <4> QED
        BY <2>5, <4>1, DeleteTokensShape, SessionSight
    <3>2. CASE req[h].op \in AutoCommit /\ Rests(h)
      <4>1. Active(s) => ~ Touches(h, s)
        BY <2>5, <3>1, <3>2, DeleteTokensShape DEF Spares, Active
      <4>2. Active(s) => Of({s})' = Of({s})
        BY <2>5, <3>2, <4>1, DeleteTokensShape DEF Of, Doomed, Goes, Rests
      <4> QED
        BY <2>5, <3>0, <3>1, <3>2, <4>2, <1>6, DeleteTokensShape, KeepsKept
        DEF Rests
    <3>3. CASE req[h].op \notin AutoCommit /\ Goes(h, "commit")
      <4>1. Active(s)' => Spares(h, s)'
        BY <2>5, <3>1, <3>3, DeleteTokensShape DEF Spares, Goes, Touches
      <4> QED
        BY <2>5, <3>0, <3>1, <3>3, <4>1, DeleteTokensShape, KeepsKept DEF Of
    <3> QED
      BY <2>5, <3>2, <3>3, DeleteTokensShape
  <2>6. CASE CommitEnd(h)
    <3>1. ~ Owes(h, s) /\ Spares(h, s)'
      BY <2>6, <2>2, <1>6, CommitEndShape DEF Rests
    <3>2. Active(s)' => s \notin req[h].ended /\ Active(s)
      BY <2>6, CommitEndShape DEF End, Active
    <3>3. Active(s)' => \A t \in req[h].del : t[1] # s
      BY <2>6, <3>2, CommitEndShape
      DEF Keeps, Spares, Touches, Ends, EndsOne, EndsAll
    <3>4. Active(s)' => Of({s})' = Of({s})
      BY <2>6, <3>3, CommitEndShape DEF Of
    <3>5. req[h].del \subseteq Tokens
      BY FieldTypes DEF ReqOK
    <3>6. Watch(h, {s})
      BY <2>6, <3>5, CommitEndShape, SessionSight
    <3> QED
      BY <2>6, <3>1, <3>2, <3>4, <3>6, CommitEndShape, KeepsKept
  <2>7. ASSUME NEW g \in Handlers, Deadlock(g, h)
        PROVE  Keeps(s)'
    <3>1. /\ Of({s})' = Of({s}) /\ Active(s)' = Active(s)
          /\ ~ Owes(h, s) /\ (Owes(g, s) => Of({s}) # {})
          /\ failures' = failures
      BY <2>7, DeadlockShape DEF Of, Active, Owes, Refreshes
    <3>2. CASE Only(g) /\ Rests(g) /\ Forget(g, {})
      <4>1. Watch(g, {s})
        BY <3>2, SessionSight
      <4>2. Spares(g, s)'
        BY <3>2, <1>6 DEF Rests
      <4> QED
        BY <3>1, <3>2, <4>1, <4>2, KeepsKept
    <3>3. CASE Only(h) /\ Rests(h) /\ Forget(h, {})
      <4>1. Watch(h, {s})
        BY <3>3, SessionSight
      <4>2. Spares(h, s)'
        BY <3>3, <1>6 DEF Rests
      <4> QED
        BY <3>1, <3>3, <4>1, <4>2, KeepsKept
    <3> QED
      BY <2>7, <3>2, <3>3, DeadlockShape
  <2> QED
    BY <1>8, <2>1, <2>3, <2>4, <2>5, <2>6, <2>7 DEF EndSessions
<1>9. ASSUME NEW h \in Handlers, Administer(h)
      PROVE  Keeps(s)'
  <2>1. ASSUME NEW u \in SessionIds, NEW c \in SessionIds, StartRevoke(h, c, u)
        PROVE  Keeps(s)'
    BY <2>1, <1>5, RevokeStarts
  <2>2. ASSUME NEW u \in SessionIds, StartUnrevoke(h, u)
        PROVE  Keeps(s)'
    BY <2>2, <1>5, UnrevokeStarts
  <2>3. CASE SaveSession(h)
    <3>1. Spares(h, s)' /\ ~ Owes(h, s)
      BY <2>3, <1>6, SaveSessionShape DEF Rests, Owes, Renewing
    <3>2. Active(s)' => Active(s)
      BY <2>3, SaveSessionShape DEF Active, TypeOK
    <3> QED
      BY <2>3, <3>1, <3>2, SaveSessionShape, SessionSight, KeepsKept DEF Of
  <2> QED
    BY <1>9, <2>1, <2>2, <2>3 DEF Administer
<1>10. ASSUME NEW h \in Handlers, Wait(h)
       PROVE  Keeps(s)'
  <2>1. Active(s) => Spares(h, s)'
    <3>1. Active(s) /\ Touches(h, s) /\ pc[h] = "update" => s \in seen'[h]
      BY <1>10, WaitShape DEF Swept
    <3> QED
      BY <1>10, <3>1, WaitShape DEF Keeps, Spares, Touches, Sees
  <2>2. Only(h) /\ Watch(h, {s})
    BY <1>10, WaitShape DEF Only, Watch, Sees
  <2> QED
    BY <1>10, <2>1, <2>2, WaitShape, KeepsKept DEF Active, Of, Owes
<1>11. ASSUME NEW h \in Handlers, Fail(h)
       PROVE  Keeps(s)'
  <2>1. failures' # 0
    BY <1>11, FailShape, SessionsAssumption DEF TypeOK
  <2>2. Watch(h, {s})
    BY <1>11, FailShape, SessionSight
  <2> QED
    BY <1>11, <2>1, <2>2, <1>6, FailShape, KeepsKept DEF Rests, Active
<1> QED
  BY <1>1, <1>2, <1>3, <1>4, <1>7, <1>8, <1>9, <1>10, <1>11, Opens DEF Next

\* What was overlapped or disturbed stays so.
LEMMA Grows ==
  ASSUME TInv, Next
  PROVE  overlapped \subseteq overlapped' /\ disturbed \subseteq disturbed'
<1>1. ASSUME NEW h \in Handlers, Refresh(h)
      PROVE  overlapped \subseteq overlapped' /\ disturbed \subseteq disturbed'
  BY <1>1
  DEF Refresh, StartRefresh, Begin, FindToken, FindSession, DropToken,
      SelectSession, DeleteAll, Insert, CommitRefresh
<1>2. ASSUME NEW h \in Handlers, EndSessions(h)
      PROVE  overlapped \subseteq overlapped' /\ disturbed \subseteq disturbed'
  BY <1>2
  DEF EndSessions, StartEnd, Begin, SaveUser, UpdateSessions, DeleteTokens,
      CommitEnd, Deadlock
<1>3. ASSUME NEW h \in Handlers, Administer(h)
      PROVE  overlapped \subseteq overlapped' /\ disturbed \subseteq disturbed'
  BY <1>3
  DEF Administer, StartRevoke, StartUnrevoke, Begin, SaveSession
<1> QED
  BY <1>1, <1>2, <1>3
  DEF Next, Tick, Login, Register, Open, DeleteSessions, RevokeMany, Wait, Fail

-------------------------------------------------------------------------------
(***************************************************************************)
(* Nothing is inserted while a change of the e-mail is under way.          *)
(***************************************************************************)

LEMMA KeyedKept ==
  ASSUME Keyed, NEW h \in Handlers, Only(h), tokens' \subseteq tokens,
         req'[h].ins = {}, HoldsKey(h)' => HoldsKey(h), Watch(h, tokens'),
         req'[h].op = "email" /\ pc'[h] = "delete" => seen'[h] = None,
         req'[h].op = "email" /\ pc'[h] = "commit"
           => tokens' \subseteq req'[h].del
  PROVE  Keyed'
<1>1. \A g \in Handlers : HoldsKey(g)' => HoldsKey(g)
  BY DEF Only, HoldsKey, HoldsUser
<1>2. \A g \in Handlers : req'[g].ins = req[g].ins \/ req'[g].ins = {}
  BY DEF Only
<1>3. \A g \in Handlers : req'[g].op = "email" /\ pc'[g] = "commit"
                            => tokens' \subseteq req'[g].del
  BY DEF Only, Keyed
<1>4. ASSUME NEW g \in Handlers, req'[g].op = "email" /\ pc'[g] = "delete",
             NEW t \in tokens'
      PROVE  Sees(g, t)'
  <2>1. CASE g = h
    BY <1>4, <2>1 DEF Sees
  <2>2. CASE g # h
    BY <1>4, <2>2 DEF Only, Keyed, Watch
  <2> QED
    BY <2>1, <2>2
<1> QED
  BY <1>1, <1>2, <1>3, <1>4 DEF Keyed

\* No request moves.
LEMMA KeyedStill ==
  ASSUME Keyed, UNCHANGED <<pc, req>>, Watch(None, tokens'),
         tokens' \subseteq tokens \/ \A h \in Handlers : ~ HoldsKey(h)
  PROVE  Keyed'
<1>1. \A g \in Handlers : HoldsKey(g)' <=> HoldsKey(g)
  BY DEF HoldsKey, HoldsUser
<1>2. \A g \in Handlers :
        req[g].op = "email" /\ pc[g] \in {"delete", "commit"} => HoldsKey(g)
  BY DEF HoldsKey, HoldsUser, SavesUser
<1>3. \A g \in Handlers, t \in tokens' : Sees(g, t) => Sees(g, t)'
  BY SessionsAssumption DEF Watch
<1> QED
  BY <1>1, <1>2, <1>3 DEF Keyed

LEMMA KeyedStep ==
  ASSUME TInv, TInv', Next, Keyed
  PROVE  Keyed'
<1> USE DEF TInv
<1>1. CASE Tick
  BY <1>1, KeyedStill, Idles DEF Tick
<1>2. ASSUME NEW u \in SessionIds, NEW at, Open(u, at)
      PROVE  Keyed'
  BY <1>2, KeyedStill, Idles DEF Open
<1>3. ASSUME NEW S \in SUBSET SessionIds, DeleteSessions(S)
      PROVE  Keyed'
  <2>1. tokens' = tokens \ (Of(S) \cup S) /\ Forget(None, Of(S) \cup S)
    BY <1>3 DEF DeleteSessions, Delete
  <2>2. tokens' \cap (Of(S) \cup S) = {}
    BY <2>1
  <2>3. Watch(None, tokens')
    BY <2>1, <2>2, Sight
  <2> QED
    BY <1>3, <2>1, <2>3, KeyedStill DEF DeleteSessions
<1>4. ASSUME NEW S, RevokeMany(S)
      PROVE  Keyed'
  BY <1>4, KeyedStill, Idles DEF RevokeMany
<1>5. ASSUME NEW h \in Handlers, Only(h), Starts(h)
      PROVE  Keyed'
  <2>1. Watch(h, tokens')
    BY <1>5, Sight DEF Starts
  <2> QED
    BY <1>5, <2>1, KeyedKept DEF Starts, HoldsKey, HoldsUser
<1>6. ASSUME NEW h \in Handlers, Only(h), Rests(h), NEW D, Forget(h, D),
             tokens' \subseteq tokens, tokens' \cap D = {}
      PROVE  Keyed'
  <2>1. Watch(h, tokens')
    BY <1>6, Sight
  <2> QED
    BY <1>6, <2>1, NoRequestType, KeyedKept DEF Rests, HoldsKey
<1>7. ASSUME NEW h \in Handlers, Only(h), tokens' \subseteq tokens,
             Watch(h, tokens'),
             req[h].op = "email" /\ pc'[h] = "delete" => seen'[h] = None,
             NEW at \in Steps \ {"user"}, Goes(h, at),
             pc[h] # "user" \/ req[h].op # "email", at # "commit"
      PROVE  Keyed'
  <2>1. Fits(pc'[h], req'[h])
    BY DEF ReqOK
  <2>2. req'[h].ins = {}
    BY <1>7, <2>1 DEF Fits, Goes
  <2> QED
    BY <1>7, <2>2, KeyedKept DEF Goes, HoldsKey, HoldsUser
<1>8. ASSUME NEW h \in Handlers, Refresh(h)
      PROVE  Keyed'
  <2>1. ASSUME NEW op \in Refreshes, NEW t \in Tokens, StartRefresh(h, op, t)
        PROVE  Keyed'
    BY <2>1, <1>5, RefreshStarts
  <2>2. CASE FindToken(h)
    <3>1. CASE Rests(h) /\ Forget(h, {})
      BY <2>2, <3>1, <1>6, FindTokenShape
    <3>2. CASE /\ Goes(h, "find_session")
               /\ seen' = [seen EXCEPT ![h] = {req[h].t}]
      BY <2>2, <3>2, <1>7, Looks, FindTokenShape DEF Steps, Goes
    <3> QED
      BY <2>2, <3>1, <3>2, FindTokenShape
  <2>3. CASE FindSession(h)
    <3>1. CASE Rests(h) /\ Forget(h, {})
      BY <2>3, <3>1, <1>6, FindSessionShape
    <3>2. CASE Goes(h, "drop_token") /\ seen' = seen
      BY <2>3, <3>2, <1>7, Idles, FindSessionShape DEF Steps, Goes
    <3> QED
      BY <2>3, <3>1, <3>2, FindSessionShape
  <2>4. CASE DropToken(h)
    <3>1. tokens' \cap seen[h] = {}
      BY <2>4, DropTokenShape
    <3>2. Watch(h, tokens')
      BY <2>4, <3>1, DropTokenShape, Sight
    <3> QED
      BY <2>4, <3>2, <1>7, DropTokenShape DEF Steps, Goes
  <2>5. CASE SelectSession(h)
    <3>1. Watch(h, tokens')
      BY <2>5, SelectSessionShape, Sight
    <3>2. CASE Rests(h)
      BY <2>5, <3>2, <1>6, SelectSessionShape
    <3>3. CASE Goes(h, "delete_all") \/ Goes(h, "insert")
      BY <2>5, <3>1, <3>3, <1>7, SelectSessionShape DEF Steps, Goes
    <3> QED
      BY <2>5, <3>2, <3>3, SelectSessionShape
  <2>6. CASE DeleteAll(h)
    <3>1. Watch(h, tokens')
      BY <2>6, DeleteAllShape, Calm
    <3> QED
      BY <2>6, <3>1, <1>7, DeleteAllShape DEF Steps, Goes
  <2>7. CASE Insert(h)
    <3>1. CASE Rests(h)
      BY <2>7, <3>1, <1>6, InsertShape
    <3>2. CASE Goes(h, "commit")
      <4>1. req'[h].op \in Refreshes /\ req[h].op \in Refreshes
        BY <2>7, <3>2, InsertShape DEF Goes
      <4>2. \A g \in Handlers : ~ HoldsKey(g)
        BY <2>7, <4>1, InsertShape DEF Others, HoldsKey, Refreshes
      <4>3. \A g \in Handlers : ~ HoldsKey(g)'
        BY <2>7, <4>1, <4>2, InsertShape
        DEF Only, HoldsKey, HoldsUser, Refreshes
      <4>4. \A g \in Handlers :
              ~ (req'[g].op = "email" /\ pc'[g] \in {"delete", "commit"})
        BY <4>3 DEF HoldsKey, HoldsUser, SavesUser
      <4> QED
        BY <4>3, <4>4 DEF Keyed
    <3> QED
      BY <2>7, <3>1, <3>2, InsertShape
  <2>8. CASE CommitRefresh(h)
    <3>1. \A g \in Handlers : ~ HoldsKey(g)
      BY <2>8, CommitRefreshShape DEF Keyed
    <3>2. \A g \in Handlers : ~ HoldsKey(g)'
      BY <2>8, <3>1, NoRequestType, CommitRefreshShape
      DEF Only, Rests, HoldsKey, HoldsUser
    <3>3. \A g \in Handlers :
            ~ (req'[g].op = "email" /\ pc'[g] \in {"delete", "commit"})
      BY <3>2 DEF HoldsKey, HoldsUser, SavesUser
    <3> QED
      BY <3>2, <3>3 DEF Keyed
  <2> QED
    BY <1>8, <2>1, <2>2, <2>3, <2>4, <2>5, <2>6, <2>7, <2>8 DEF Refresh
<1>9. ASSUME NEW h \in Handlers, EndSessions(h)
      PROVE  Keyed'
  <2>1. ASSUME NEW op \in EndsOne \cup EndsAll, NEW u \in SessionIds,
               StartEnd(h, op, u)
        PROVE  Keyed'
    BY <2>1, <1>5, EndStarts
  <2>2. CASE SaveUser(h)
    <3>0. Watch(h, tokens')
      BY <2>2, SaveUserShape, Sight
    <3>1. CASE req[h].op # "email"
      BY <2>2, <3>0, <3>1, <1>7, SaveUserShape DEF Steps
    <3>2. CASE req[h].op = "email"
      <4>1. req[h].ins = {} /\ pc[h] = "user"
        BY <2>2, SaveUserShape DEF ReqOK, Fits
      <4>2. \A g \in Handlers : req'[g].ins = {}
        BY <2>2, <3>2, <4>1, SaveUserShape DEF Others
      <4>3. \A g \in Handlers : req'[g].op = "email" /\ pc'[g] = "commit"
                                  => tokens' \subseteq req'[g].del
        BY <2>2, SaveUserShape DEF Only, Goes, Keyed
      <4>4. \A g \in Handlers : req'[g].op = "email" /\ pc'[g] = "delete"
                                  => \A t \in tokens' : Sees(g, t)'
        BY <2>2, <3>0, SaveUserShape DEF Only, Goes, Keyed, Watch
      <4> QED
        BY <4>2, <4>3, <4>4 DEF Keyed
    <3> QED
      BY <3>1, <3>2
  <2>3. CASE UpdateSessions(h)
    <3>1. Watch(h, tokens') /\ seen'[h] = None
      BY <2>3, UpdateSessionsShape, Sight
    <3> QED
      BY <2>3, <3>1, <1>6, <1>7, UpdateSessionsShape DEF Steps, Goes
  <2>4. CASE DeleteTokens(h)
    <3>1. CASE Rests(h)
      <4>1. tokens' = tokens \ Doomed(h) /\ Forget(h, Doomed(h))
        BY <2>4, <3>1, DeleteTokensShape DEF Rests, Goes
      <4>2. tokens' \subseteq tokens /\ tokens' \cap Doomed(h) = {}
        BY <4>1
      <4> QED
        BY <2>4, <3>1, <4>1, <4>2, <1>6, DeleteTokensShape
    <3>2. CASE ~ Rests(h)
      <4>0. Watch(h, tokens')
        BY <2>4, <3>2, DeleteTokensShape, Sight
      <4>1. req[h].ins = {}
        BY <2>4, DeleteTokensShape DEF ReqOK, Fits
      <4>2. req[h].op = "email" => req'[h].del = tokens
        <5>1. req'[h].del = Doomed(h) /\ pc[h] = "delete"
          BY <2>4, <3>2, DeleteTokensShape
        <5>2. req[h].op = "email" => Doomed(h) = tokens
          BY <5>1 DEF Keyed, Doomed, Touches, EndsAll
        <5> QED
          BY <5>1, <5>2
      <4> QED
        BY <2>4, <3>2, <4>0, <4>1, <4>2, DeleteTokensShape, KeyedKept
        DEF Goes, HoldsKey, HoldsUser
    <3> QED
      BY <3>1, <3>2
  <2>5. CASE CommitEnd(h)
    BY <2>5, <1>6, CommitEndShape
  <2>6. ASSUME NEW g \in Handlers, Deadlock(g, h)
        PROVE  Keyed'
    BY <2>6, <1>6, DeadlockShape
  <2> QED
    BY <1>9, <2>1, <2>2, <2>3, <2>4, <2>5, <2>6 DEF EndSessions
<1>10. ASSUME NEW h \in Handlers, Administer(h)
       PROVE  Keyed'
  <2>1. ASSUME NEW u \in SessionIds, NEW c \in SessionIds, StartRevoke(h, c, u)
        PROVE  Keyed'
    BY <2>1, <1>5, RevokeStarts
  <2>2. ASSUME NEW u \in SessionIds, StartUnrevoke(h, u)
        PROVE  Keyed'
    BY <2>2, <1>5, UnrevokeStarts
  <2>3. CASE SaveSession(h)
    BY <2>3, <1>6, SaveSessionShape
  <2> QED
    BY <1>10, <2>1, <2>2, <2>3 DEF Administer
<1>11. ASSUME NEW h \in Handlers, Fail(h)
       PROVE  Keyed'
  BY <1>11, <1>6, FailShape
<1>12. ASSUME NEW h \in Handlers, Wait(h)
       PROVE  Keyed'
  <2>1. \A g \in Handlers : HoldsKey(g)' <=> HoldsKey(g)
    BY <1>12, WaitShape DEF HoldsKey, HoldsUser
  <2>2. ASSUME NEW g \in Handlers, req[g].op = "email", pc[g] = "delete",
               NEW t \in tokens
        PROVE  Sees(g, t)'
    <3>1. CASE g = h
      BY <1>12, <2>2, <3>1, WaitShape DEF Doomed, Touches, EndsAll, Sees
    <3>2. CASE g # h
      BY <1>12, <2>2, <3>2, WaitShape DEF Keyed, Sees
    <3> QED
      BY <3>1, <3>2
  <2> QED
    BY <1>12, <2>1, <2>2, WaitShape DEF Keyed
<1> QED
  BY <1>1, <1>2, <1>3, <1>4, <1>8, <1>9, <1>10, <1>11, <1>12, Opens DEF Next

-------------------------------------------------------------------------------
(***************************************************************************)
(* The inductive invariant, and what follows from it.                      *)
(***************************************************************************)

LEMMA Inductive ==
  /\ Init => IInv
  /\ IInv /\ [Next]_vars => IInv'
<1>1. Init => IInv
  <2> SUFFICES ASSUME Init
               PROVE  IInv
    OBVIOUS
  <2>1. \A h \in Handlers : req[h] = NoRequest /\ pc[h] = "idle"
    BY DEF Init
  <2>2. \A h \in Handlers, s \in SessionIds : ~ Touches(h, s) /\ req[h].s # s
    BY <2>1, NoRequestType, SessionsAssumption DEF Touches, EndsAll
  <2>3. \A s \in SessionIds : Born(s)
    BY <2>1, <2>2, NoRequestType DEF Init, Born, Of
  <2>4. ASSUME NEW s \in SessionIds
        PROVE  Apart(s)
    BY <2>1, <2>2
    DEF Init, Apart, Lone, Single, RotatesBy, ClosesBy, LeftOpen, Of
  <2>5. \A s \in SessionIds : Keeps(s)
    BY DEF Init, Keeps, Active
  <2>6. Keyed
    BY <2>1, NoRequestType DEF Keyed, HoldsKey
  <2> QED
    BY <2>3, <2>4, <2>5, <2>6, TypesInit DEF IInv
<1>2. ASSUME IInv, Next
      PROVE  IInv'
  <2>1. TInv /\ TInv'
    BY <1>2, TypesStep DEF IInv
  <2>2. \A s \in SessionIds : Born(s)'
    BY <1>2, <2>1, BornStep DEF IInv
  <2>3. overlapped \subseteq overlapped' /\ disturbed \subseteq disturbed'
    BY <1>2, <2>1, Grows
  <2>4. \A s \in SessionIds \ overlapped' : Apart(s)'
    BY <1>2, <2>1, <2>3, ApartStep DEF IInv
  <2>5. \A s \in SessionIds \ disturbed' : Keeps(s)'
    BY <1>2, <2>1, <2>3, KeepsStep DEF IInv
  <2>6. Keyed'
    BY <1>2, <2>1, KeyedStep DEF IInv
  <2> QED
    BY <2>1, <2>2, <2>4, <2>5, <2>6 DEF IInv
<1>3. ASSUME IInv, UNCHANGED vars
      PROVE  IInv'
  <2>1. TInv'
    BY <1>3, TypesStep DEF IInv
  <2>2. \A s \in SessionIds : Born(s) => Born(s)'
    BY <1>3 DEF vars, Born, Of
  <2>3. \A s \in SessionIds : Apart(s) => Apart(s)'
    BY <1>3 DEF vars, Apart, Lone, Single, RotatesBy, ClosesBy, LeftOpen,
                Closing, Touches, Sees, Of
  <2>4. \A s \in SessionIds : Keeps(s) => Keeps(s)'
    BY <1>3 DEF vars, Keeps, Spares, Sees, Owes, Active, Touches, Of
  <2>5. Keyed => Keyed'
    BY <1>3 DEF vars, Keyed, Sees, HoldsKey, HoldsUser
  <2> QED
    BY <1>3, <2>1, <2>2, <2>3, <2>4, <2>5 DEF IInv, vars
<1> QED
  BY <1>1, <1>2, <1>3

\* Refresh tokens rotate: a session that two requests never worked on at a
\* time has one token that can be exchanged, or none.
THEOREM TokensRotate == Spec => []OneLiveToken
<1>1. IInv => OneLiveToken
  <2> SUFFICES ASSUME IInv, NEW s \in SessionIds, s \notin overlapped
               PROVE  Cardinality(Of({s})) <= 1
    BY DEF OneLiveToken
  <2>1. \A t, u \in Of({s}) : t = u
    BY DEF IInv, Apart, Single
  <2>2. CASE Of({s}) = {}
    BY <2>2, FS_EmptySet
  <2>3. ASSUME NEW t \in Of({s})
        PROVE  Cardinality(Of({s})) = 1
    <3>1. Of({s}) = {t}
      BY <2>1, <2>3
    <3> QED
      BY <3>1, FS_Singleton
  <2> QED
    BY <2>2, <2>3
<1> QED
  BY <1>1, Inductive, PTL DEF Spec

\* However refreshes interleave with each other and with requests that end
\* sessions, an active session at rest has a token to go on with, unless a
\* statement failed, or the session was unrevoked or created in the middle of a
\* logout of all sessions.
THEOREM NobodyLockedOut == Spec => []ActiveHasToken
<1>1. IInv => ActiveHasToken
  <2> SUFFICES ASSUME IInv, NEW s \in SessionIds \ disturbed,
                      failures = 0, Quiet(s), Active(s), Of({s}) = {}
               PROVE  FALSE
    BY DEF ActiveHasToken
  <2>1. PICK h \in Handlers : Owes(h, s)
    BY DEF IInv, Keeps
  <2>2. Touches(h, s)
    BY <2>1 DEF Owes, Touches, Refreshes
  <2> QED
    BY <2>2 DEF Quiet
<1> QED
  BY <1>1, Inductive, PTL DEF Spec

\* A logout that nothing overlapped, and of which no statement failed, leaves no
\* token behind.
THEOREM LogoutComplete == Spec => []LogoutDropsTokens
<1>1. IInv => LogoutDropsTokens
  BY DEF IInv, LogoutDropsTokens, Apart, LeftOpen, Closing, Quiet
<1> QED
  BY <1>1, Inductive, PTL DEF Spec

\* A change of the e-mail that commits leaves no token and no session active,
\* whatever logins and refreshes raced it, except sessions that were unrevoked
\* or created in the middle of a logout of all sessions.
THEOREM EmailChangeEndsAll == Spec => AllInvalidated
<1> DEFINE Ended ==
      \A h \in Handlers : req[h].op = "email" /\ CommitEnd(h) =>
        \A s \in SessionIds \ disturbed : ~ Active(s)' /\ Of({s})' = {}
<1>1. IInv /\ [Next]_vars => [Ended]_vars
  <2> SUFFICES ASSUME IInv, NEW h \in Handlers, req[h].op = "email",
                      CommitEnd(h), NEW s \in SessionIds \ disturbed
               PROVE  ~ Active(s)' /\ Of({s})' = {}
    OBVIOUS
  <2>1. /\ pc[h] = "commit" /\ req[h].op \in Ends
        /\ End(req[h].ended) /\ tokens' = tokens \ req[h].del
    BY CommitEndShape DEF IInv
  <2>2. tokens' = {}
    BY <2>1 DEF IInv, Keyed
  <2>3. Active(s) => s \in req[h].ended
    BY <2>1 DEF IInv, Keeps, Spares, Touches, EndsAll
  <2> QED
    BY <2>1, <2>2, <2>3 DEF End, Active, Of
<1> QED
  BY <1>1, Inductive, PTL DEF Spec, AllInvalidated

===============================================================================
