\* No failures: which session may a caller revoke.
CONSTANTS
  SessionIds = {s1, s2}
  Handlers = {h1, h2}
  MaxClock = 1
  MaxFailures = 0
  None = None
SPECIFICATION Spec
INVARIANT CurrentSessionKept
