CONSTANTS
  Messages = {1}
  Runs = {r1,r2,r3}
  Evidence = {"s"}
  Versions = {1}
  MaxBucket = 2
  MaxEvents = 1
  Legacy = TRUE
  AutoActivate = TRUE
  NoRun = NoRun
  NoMessage = 99
SPECIFICATION Spec
SYMMETRY Symmetric
INVARIANTS CandidateIsReferenced
CHECK_DEADLOCK FALSE
