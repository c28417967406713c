\* Two users and a lapsed one, on two processes.
CONSTANTS
  a = a
  b = b
  c = c
  a1 = a1
  b1 = b1
  c1 = c1
  n1 = n1
  n2 = n2
  Users = {a, b, c}
  Sockets = {a1, b1, c1}
  Owner <- OwnerOf
  Nodes = {n1, n2}
  Node <- NodeOf
  Lapsed = {c}
  MaxInFlight = 2

SPECIFICATION Spec

INVARIANT TypeOK
INVARIANT OneKnowsTheOther
INVARIANT NoGhosts
INVARIANT NoStrangers
