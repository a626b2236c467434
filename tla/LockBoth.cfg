CONSTANTS
  Calls = {c1, c2}
  Sessions = {s1, s2}
  Runs = {r1, r2}
  Kinds = {"full"}
  MaxFolders = 1
  Pooler = FALSE
  GrantRace = FALSE
  Faults = {"stray", "abandon", "end", "crash", "sweep"}
  NoSession = NoSession
  NoRun = NoRun
SPECIFICATION Spec
SYMMETRY Symmetric
INVARIANTS OneWriter PoolClean OwnerShown
PROPERTIES LiveLeftRunning
