SPECIFICATION Spec
CONSTANTS
  None = None
  MaxEdition = 1
  MaxFailures = 1
  MaxRetries = 2
  Undeletable = {}
INVARIANTS
  NoDataLost
