\* Two codes or links, two addresses, two requests in flight, five in all.
CONSTANTS
  Keys = {k1, k2}
  Addresses = {a1, a2}
  Handlers = {h1, h2}
  MaxRequests = 5
  None = None
SPECIFICATION Spec
SYMMETRY Symmetry
INVARIANTS TypeOK OneOfAKind NothingOutlives
PROPERTY VerifiedByOwner

\* The bound on requests stops the system.
CHECK_DEADLOCK FALSE
