------------------------------ MODULE MCRecovery ------------------------------
(***************************************************************************)
(* Instances of Recovery for model checking.                               *)
(***************************************************************************)
EXTENDS Recovery, TLC

\* Keys are alike, and so are addresses and handlers.
Symmetry == Permutations(Keys) \cup Permutations(Addresses)
              \cup Permutations(Handlers)
===============================================================================
