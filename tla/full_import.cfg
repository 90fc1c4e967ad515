SPECIFICATION FairSpec
CONSTANTS
  None = None
  MaxEdition = 2
  MaxFailures = 3
  MaxRetries = 2
  Undeletable = {"axes"}
INVARIANTS
  TypeOK
  CheckpointSound
  
PROPERTIES
  MarkSafe
  Recovers
