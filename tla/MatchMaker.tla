------------------------------ MODULE MatchMaker ------------------------------
(***************************************************************************)
(* What matching promises: at most one user waits, two users who want a    *)
(* match get one with each other, and nobody is in two matches or waits    *)
(* while in one.  Each operation is a single step.  Matching with one      *)
(* handler at a time and no failures implements this (see MCMatching).     *)
(***************************************************************************)
EXTENDS TLAPS

CONSTANTS
  Users,
  MatchIds

VARIABLES
  waiting,  \* the users in the queue
  couple,   \* the two users of each match going on, {} for the other ids
  used      \* the ids of the matches there ever were

vars == <<waiting, couple, used>>

Init ==
  /\ waiting = {}
  /\ couple  = [m \in MatchIds |-> {}]
  /\ used    = {}

Free(u) == \A m \in MatchIds : u \notin couple[m]

\* Nobody else waits: u waits.
Wait(u) ==
  /\ Free(u)
  /\ waiting \subseteq {u}
  /\ waiting' = {u}
  /\ UNCHANGED <<couple, used>>

\* Somebody else waits: both are matched.
Pair(u, w, m) ==
  /\ Free(u)
  /\ w \in waiting \ {u}
  /\ m \notin used
  /\ waiting' = waiting \ {u, w}
  /\ couple'  = [couple EXCEPT ![m] = {u, w}]
  /\ used'    = used \cup {m}

Leave(u) ==
  /\ waiting' = waiting \ {u}
  /\ UNCHANGED <<couple, used>>

\* One of the two ends the match, or its time is over: it ends for both.
End(m) ==
  /\ couple' = [couple EXCEPT ![m] = {}]
  /\ UNCHANGED <<waiting, used>>

Next ==
  \/ \E u \in Users : Wait(u) \/ Leave(u)
  \/ \E u, w \in Users, m \in MatchIds : Pair(u, w, m)
  \/ \E m \in MatchIds : End(m)

Spec == Init /\ [][Next]_vars

-------------------------------------------------------------------------------

TypeOK ==
  /\ waiting \subseteq Users
  /\ couple \in [MatchIds -> SUBSET Users]
  /\ used \subseteq MatchIds

\* A match is between two different users, no user has two, and a user who
\* waits has none.
Exclusive ==
  /\ \A m \in MatchIds :
       couple[m] # {} => \E u, w \in Users : u # w /\ couple[m] = {u, w}
  /\ \A m, n \in MatchIds : m # n => couple[m] \cap couple[n] = {}
  /\ \A m \in MatchIds : couple[m] \cap waiting = {}

\* Two users never wait at the same time.
OneWaits == \A u, w \in waiting : u = w

-------------------------------------------------------------------------------

Inv ==
  /\ TypeOK
  /\ Exclusive
  /\ OneWaits
  /\ \A m \in MatchIds \ used : couple[m] = {}

\* The promise: whatever users ask for, in whatever order, matches exclude each
\* other and nobody waits beside somebody who waits.
THEOREM Promise == Spec => [](Exclusive /\ OneWaits)
<1>1. Init => Inv
  BY DEF Init, Inv, TypeOK, Exclusive, OneWaits
<1>2. Inv /\ [Next]_vars => Inv'
  <2> SUFFICES ASSUME Inv, [Next]_vars
               PROVE  Inv'
    OBVIOUS
  <2> USE DEF Inv, TypeOK, Exclusive, OneWaits
  <2>1. ASSUME NEW u \in Users, Wait(u)
        PROVE  Inv'
    BY <2>1 DEF Wait, Free
  <2>2. ASSUME NEW u \in Users, Leave(u)
        PROVE  Inv'
    BY <2>2 DEF Leave
  <2>3. ASSUME NEW u \in Users, NEW w \in Users, NEW m \in MatchIds,
               Pair(u, w, m)
        PROVE  Inv'
    BY <2>3 DEF Pair, Free
  <2>4. ASSUME NEW m \in MatchIds, End(m)
        PROVE  Inv'
    BY <2>4 DEF End
  <2>5. CASE UNCHANGED vars
    BY <2>5 DEF vars
  <2> QED
    BY <2>1, <2>2, <2>3, <2>4, <2>5 DEF Next
<1>3. Inv => Exclusive /\ OneWaits
  BY DEF Inv
<1> QED
  BY <1>1, <1>2, <1>3, PTL DEF Spec

===============================================================================
