SPECIFICATION Spec
CONSTANTS
  None = None
  a1 = a1
  a2 = a2
  a3 = a3
  Address = {a1, a2}
  Disc <- Line
  Tech = {gpon}
  Zone <- Zones3
  Proc = {p1, p2}
  Surveys <- TwoSurveys
  Given = {"none", "available", "planned"}
  Synced = {a1, a2}
  Cli = TRUE
  HandEdits <- Hide
SYMMETRY Symmetry
INVARIANTS
  
  ZonesCurrent
  ZonesDisjoint
