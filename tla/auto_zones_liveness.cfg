SPECIFICATION FairSpec
CONSTANTS
  None = None
  a1 = a1
  a2 = a2
  a3 = a3
  Address = {a1}
  Disc <- Line
  Tech = {gpon, lte}
  Zone <- Zones3
  Proc = {p1, p2}
  Surveys <- NoSurvey
  Given = {"available"}
  Synced = {}
  Cli = TRUE
  HandEdits <- OneOfEach
PROPERTIES RebuildsEnd
