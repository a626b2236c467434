CONSTANTS
  MaxUid = 2
  MaxValidity = 2
  MaxModseq = 3
  Changes = {"oldMail"}
  PassOptions <- SweepAndSent
  InitialBatch = 1
  IncrementalBatch = 1
  BatchesPerPass = 1
  MissingLimit = 1
  ShortLists = FALSE
  TransientMisses = FALSE
SPECIFICATION Spec
INVARIANTS SnapshotOfGeneration NewUidIsNewMail
