\* Two phones, three requests in flight, three codes and three sessions.
CONSTANTS
  sarah = sarah
  tom = tom
  c1 = c1
  c2 = c2
  c3 = c3
  t1 = t1
  t2 = t2
  t3 = t3
  Phones = {sarah, tom}
  Calls = {c1, c2, c3}
  Tokens = {t1, t2, t3}
  MaxCodes = 3
  None = None
SPECIFICATION Spec
SYMMETRY Symmetry
INVARIANTS
  TypeOK
  SessionsComeOfCodes
  LoggedOutStaysOut
PROPERTIES
  LoginSpec
