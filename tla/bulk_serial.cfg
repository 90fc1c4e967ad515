SPECIFICATION Spec
CONSTANTS
  None = None
  available = available
  planned = planned
  Address = {a1, a2}
  User = {editor}
  Editor = {editor}
  Field = {status}
  Value = {available, planned}
  Token = {t1, t2}
  Op = {o1, o2}
  Proc = {p1}
  Request <- OneOfEachKind
  MaxAffected = 2
  RateLimit = 2
  Editable = {a1}
  Horizon = "minute"
SYMMETRY Symmetry
INVARIANTS
  
  RateLimitWithinConcurrency
  TokenUseWithinConcurrency
PROPERTIES
  ChangesLogged
  ImplementsLedger
