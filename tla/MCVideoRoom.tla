------------------------------ MODULE MCVideoRoom -----------------------------
(***************************************************************************)
(* Instances of VideoRoom for model checking.                              *)
(***************************************************************************)
EXTENDS VideoRoom, TLC

CONSTANTS a, b, c, a1, b1, c1, n1, n2

\* b is on another process than a and c.
OwnerOf == (a1 :> a) @@ (b1 :> b) @@ (c1 :> c)
NodeOf  == (a1 :> n1) @@ (b1 :> n2) @@ (c1 :> n1)
===============================================================================
