CONSTANTS
  MaxUid = 2
  MaxValidity = 1
  MaxModseq = 3
  Changes = {"expunge", "flag"}
  PassOptions <- InboxCallers
  InitialBatch = 1
  IncrementalBatch = 1
  BatchesPerPass = 1
  MissingLimit = 1
  ShortLists = TRUE
  TransientMisses = FALSE
SPECIFICATION Spec
INVARIANTS FlagCursorHonest UnchangedProofSound
PROPERTIES NoWrongTombstone
