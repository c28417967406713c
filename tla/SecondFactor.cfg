\* Two sessions of an account and one of another, one code, two requests in
\* flight.
CONSTANTS
  s1 = s1
  s2 = s2
  t1 = t1
  a1 = a1
  b1 = b1
  Accounts = {a1, b1}
  Clients = {s1, s2, t1}
  Owner <- TwoAndOne
  Codes = {c1}
  Handlers = {h1, h2}
  MaxSecrets = 1
  None = None
SPECIFICATION Spec
VIEW Told
SYMMETRY Symmetry
INVARIANTS TypeOK CodeBeforeRoutes GuessLimit OncePerCode
