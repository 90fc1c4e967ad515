SPECIFICATION Spec
CONSTANTS
  None = None
  available = available
  planned = planned
  Address = {a1}
  User = {admin}
  Editor = {}
  Field = {status}
  Value = {available, planned}
  Token = {t1, t2}
  Op = {o1, o2}
  Proc = {p1, p2}
  Request <- OneOfEachKind
  MaxAffected = 2
  RateLimit = 2
  Editable = {}
  Horizon = "minute"
SYMMETRY Symmetry
INVARIANTS TokenSingleUse
