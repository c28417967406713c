------------------------------ MODULE MCMatching ------------------------------
(***************************************************************************)
(* Instances of Matching for TLC.                                          *)
(***************************************************************************)
EXTENDS Matching, TLC

CONSTANTS a, b, c

\* Three users with one connection each.
OneEach == (1 :> a) @@ (2 :> b) @@ (3 :> c)

\* told is only written: two states that differ in it alone behave alike.
Unheard == <<conn, now, redis, failures, local>>

Symmetry == Permutations(MatchIds) \cup Permutations(Handlers)

===============================================================================
