CONSTANTS
  MaxUid = 2
  MaxValidity = 1
  MaxModseq = 2
  Changes = {"expunge", "flag"}
  PassOptions <- InboxAndSent
  InitialBatch = 1
  IncrementalBatch = 1
  BatchesPerPass = 1
  MissingLimit = 1
  ShortLists = FALSE
  TransientMisses = TRUE
SPECIFICATION FairSpec
PROPERTIES MirrorConverges
