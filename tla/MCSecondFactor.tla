---------------------------- MODULE MCSecondFactor ----------------------------
(***************************************************************************)
(* Instances of SecondFactor for model checking.                           *)
(***************************************************************************)
EXTENDS SecondFactor, TLC

CONSTANTS s1, s2, t1, a1, b1

\* Account a1 has two sessions, b1 has one.
TwoAndOne == (s1 :> a1) @@ (s2 :> a1) @@ (t1 :> b1)

\* The key of a code that was sent is gone, and nobody is to write it again or
\* to pass with it.
Gone(c) ==
  /\ c \in sent /\ attempts[c] = None
  /\ \A h \in Handlers : req[h].c = c => pc[h] \notin {"put", "take"}

\* Account u neither has the secret n nor is about to store it.
Lost(u, n) ==
  /\ n \in 1 .. drawn /\ secret[u] # n
  /\ \A h \in Handlers :
       ~ (pc[h] = "save" /\ req[h].got = n /\ Owner[req[h].s] = u)

\* What guards and properties tell apart: of a session's tokens, whether the
\* routes take one, whether one is still to do, whether the refresh token can
\* be exchanged; of a request, what its next steps read, which is nothing of
\* one that will find its code gone; of a code, its age and the guesses at it,
\* or whether they were within the limits once it is gone; of the sessions,
\* who must verify yet.
Told ==
  LET has(s)   == <<\E c \in claims[s] : RouteTakes(c),
                    \E c \in claims[s] : ~ c.auth,
                    refresh[s] # None /\ RouteTakes(refresh[s])>>
      late(h)  == pc[h] = "get" /\ Gone(req[h].c)
      asks(h)  == LET r == req[h] IN
                  <<r.op, r.on, IF late(h) THEN None ELSE r.c,
                    IF late(h) \/ pc[h] \in {"store", "drop", "put"}
                      THEN None ELSE r.s,
                    pc[h] = "get" /\ r.right /\ r.c \notin aged /\ ~ late(h),
                    IF \/ pc[h] \in {"drop", "take"}
                       \/ pc[h] = "secret" /\ Lost(Owner[r.s], r.got)
                      THEN 0 ELSE r.got>>
      count(c) == IF Gone(c)
                    THEN \/ c \in raced
                         \/ /\ wrong[c] + admitted[c] <= MaxGuesses
                            /\ admitted[c] <= 1
                  ELSE IF c \in raced THEN None
                  ELSE <<wrong[c], admitted[c]>>
      tells(c) == <<c \in sent, attempts[c], c \in aged /\ ~ Gone(c),
                    count(c)>>
  IN  <<enabled, store, [s \in Clients |-> has(s)], pc,
        [h \in Handlers |-> asks(h)], [c \in Codes |-> tells(c)],
        gated \ verified>>

\* The two sessions of a1 are alike, and so are codes and handlers.
Symmetry == Permutations({s1, s2}) \cup Permutations(Codes)
              \cup Permutations(Handlers)
===============================================================================
