------------------------------- MODULE MCSignUp -------------------------------
(***************************************************************************)
(* Instances of SignUp for model checking.  (No symmetry: it is not sound  *)
(* for liveness.)                                                          *)
(***************************************************************************)
EXTENDS SignUp

\* Both accounts at the provider have one and the same e-mail.
MCMailOf == [s \in Subjects |-> CHOOSE e \in Emails : TRUE]
===============================================================================
