\* One handler at a time, no failures: the refinement of MatchMaker.
CONSTANTS
  a = a
  b = b
  c = c
  Users = {a, b, c}
  Sockets = {1, 2, 3}
  Owner <- OneEach
  MatchIds = {m1, m2}
  Handlers = {h1}
  TabsPerUser = 1
  MaxClock = 2
  MaxFailures = 0
  None = None

SPECIFICATION FairSpec

INVARIANT KeysAgreeAtRest
INVARIANT BothTold
PROPERTY ImplementsMatchMaker
PROPERTY PairedUp

CHECK_DEADLOCK FALSE
