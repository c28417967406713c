------------------------------- MODULE MCAccount ------------------------------
(***************************************************************************)
(* Instances of Account for model checking.                                *)
(***************************************************************************)
EXTENDS Account, TLC

\* The bodies of PATCH users/:id: each status that the route accepts; one also
\* verifies, one withdraws the verification.
MCUpdates == {[status |-> "active", is_verified |-> TRUE],
              [status |-> "inactive", is_verified |-> FALSE],
              [status |-> "deactivated"], [status |-> "soft_deleted"]}

\* Handlers are alike.
Symmetry == Permutations(Handlers)
===============================================================================
