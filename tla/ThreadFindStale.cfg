SPECIFICATION Spec
CONSTANTS
  None = None
  Owed = Owed
  Execute <- ThreadAccount
  Fingerprints <- ClosureFingerprints
  Collapse <- Deliveries
  Ids <- MCIds
  Scenes <- MCScenes
  Versions = {3}
  MaxChanges = 5
  Window = 3
  AnyVictim = TRUE
INVARIANTS PurgeRepairs
CHECK_DEADLOCK FALSE
