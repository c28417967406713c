\* Two requests in flight, one socket, four requests in all.
CONSTANTS
  Handlers = {h1, h2}
  Sockets = {c1}
  MaxClock = 1
  MaxRequests = 4
  Passwords = {"old", "new"}
  Updates <- MCUpdates
  None = None
SPECIFICATION Spec
SYMMETRY Symmetry
INVARIANT TypeOK
PROPERTIES SuspensionServed PasswordKept
