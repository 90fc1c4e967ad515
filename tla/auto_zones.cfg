SPECIFICATION Spec
CONSTANTS
  None = None
  a1 = a1
  a2 = a2
  a3 = a3
  Address = {a1, a2, a3}
  Disc <- Line
  Tech = {gpon}
  Zone <- Zones3
  Proc = {p1, p2}
  Surveys <- NoSurvey
  Given = {"none", "available"}
  Synced = {}
  Cli = FALSE
  HandEdits = {}
SYMMETRY Symmetry
INVARIANTS
  TypeOK
  ZonesCurrent
  ZonesDisjoint
PROPERTIES
  IdentityStable
