CONSTANTS
  Messages = {1,2,3}
  Runs = {r1,r2,r3}
  Evidence = {"a","s","r"}
  Versions = {1}
  MaxBucket = 2
  MaxEvents = 1
  Legacy = TRUE
  AutoActivate = TRUE
  NoRun = NoRun
  NoMessage = 99
SPECIFICATION Spec
SYMMETRY Symmetric
INVARIANTS ProjectionFaithful WorkIsFound
PROPERTIES SwitchIsCurrent RolloutNotStarved
CHECK_DEADLOCK FALSE
