SPECIFICATION Spec
CONSTANTS
  None = None
  Owed = Owed
  Execute <- ThreadAccount
  Fingerprints <- ClosureFingerprints
  Collapse <- Deliveries
  Ids <- MCIds
  Scenes <- MCScenes
  Versions = {1, 2, 3}
  MaxChanges = 4
  Window = 3
  AnyVictim = FALSE
INVARIANTS ParentsEnd OnlyEvidenceJoins WeakIsCertain
PROPERTIES DrainIsRebuild
CHECK_DEADLOCK FALSE
