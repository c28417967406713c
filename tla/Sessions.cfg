\* Two sessions, two requests in flight, one failure.
CONSTANTS
  SessionIds = {s1, s2}
  Handlers = {h1, h2}
  MaxClock = 1
  MaxFailures = 1
  None = None
SPECIFICATION Spec
VIEW Told
SYMMETRY Symmetry
INVARIANTS TypeOK OneLiveToken ActiveHasToken LogoutDropsTokens
PROPERTY AllInvalidated
