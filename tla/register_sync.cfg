SPECIFICATION Spec
CONSTANTS
  None = None
  a1 = a1
  a2 = a2
  Address = {a1, a2}
  Run = {r1}
  Past <- OneBuilt
  Published <- Later
  MaxCid = 5
  Failures = 1
  MaxLag = 1
INVARIANTS
  TypeOK
  
  AddressCurrent
PROPERTIES
  ResyncExact
