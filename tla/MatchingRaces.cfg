\* Two handlers in flight, one Redis error or crash, three users.
CONSTANTS
  a = a
  b = b
  c = c
  Users = {a, b, c}
  Sockets = {1, 2, 3}
  Owner <- OneEach
  MatchIds = {m1, m2}
  Handlers = {h1, h2}
  TabsPerUser = 1
  MaxClock = 0
  MaxFailures = 1
  None = None

SPECIFICATION Spec
VIEW Unheard
SYMMETRY Symmetry

INVARIANT TypeOK
INVARIANT LinkNamesOwnMatch
PROPERTY EndedByMemberOrExpiry
PROPERTY EndedStaysEnded

\* The connections are bounded: when all have closed and every key has
\* expired nothing is left to do.
CHECK_DEADLOCK FALSE
