\* The smallest instance.
CONSTANTS
  Keys = {k1}
  Addresses = {a1}
  Handlers = {h1}
  MaxRequests = 2
  None = None
SPECIFICATION Spec
PROPERTY RefusedIfSame

\* The bound on requests stops the system.
CHECK_DEADLOCK FALSE
