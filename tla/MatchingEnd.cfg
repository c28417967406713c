\* One handler at a time, no failures: who may end a match.
CONSTANTS
  a = a
  b = b
  c = c
  Users = {a, b, c}
  Sockets = {1, 2, 3}
  Owner <- OneEach
  MatchIds = {m1, m2}
  Handlers = {h1}
  TabsPerUser = 1
  MaxClock = 0
  MaxFailures = 0
  None = None

SPECIFICATION Spec

PROPERTY MemberMayEnd

CHECK_DEADLOCK FALSE
