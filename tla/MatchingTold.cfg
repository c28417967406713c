\* Two handlers in flight, no failures: who hears of a match.
CONSTANTS
  a = a
  b = b
  c = c
  Users = {a, b, c}
  Sockets = {1, 2, 3}
  Owner <- OneEach
  MatchIds = {m1, m2}
  Handlers = {h1, h2}
  TabsPerUser = 1
  MaxClock = 0
  MaxFailures = 0
  None = None

SPECIFICATION Spec

INVARIANT OnlyMembersTold

CHECK_DEADLOCK FALSE
