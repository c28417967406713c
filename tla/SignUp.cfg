\* Two requests in flight and one lost connection: four connections are enough.
CONSTANTS
  Emails = {e1, e2}
  Subjects = {s1, s2}
  MailOf <- MCMailOf
  Tokens = {t1}
  Handlers = {h1, h2}
  PoolSize = 4
  MaxLeaks = 1
  MaxRequests = 5
  None = None
SPECIFICATION Spec
INVARIANTS TypeOK LinkedOnce SignedInLinked
PROPERTY Answered

\* The bound on requests stops the system.
CHECK_DEADLOCK FALSE
