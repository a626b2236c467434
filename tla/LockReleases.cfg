CONSTANTS
  Calls = {c1}
  Sessions = {s1, s2}
  Runs = {r1, r2}
  Kinds = {"full", "act"}
  MaxFolders = 1
  Pooler = TRUE
  GrantRace = FALSE
  Faults = {"abandon", "end", "crash", "sweep"}
  NoSession = NoSession
  NoRun = NoRun
SPECIFICATION FairSpec
PROPERTY LockIsReleased
