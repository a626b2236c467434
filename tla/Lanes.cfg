CONSTANTS
  HistoryFolders = {1, 2}
  MaxHistoryUid = 4
  HistoryBatchSize = 2
  RateLimit = 2
  MaxMailEvents = 1
  MaxHistoryFaults = 1
  Unset = Unset
  Actions = {a1, a2}
  Sessions = {s1, s2}
  Steps = 2
  MaxCredential = 2
  NoSession = NoSession
  SyncInterval = 8
  SentInterval = 3
  PassTime = 14
  AbortGrace = 1
  LaneBudget = 2
  StepTime = 2
  LaneSteps = 3
  MaxAttempts = 3
  Tasks = {1, 2, 3, 4}
  Targets = {t1, t2}
  Global = 2
  PerTarget = 1
  Uids = {1}
  Writers = {w1, w2}
  Keys = {"message-id", "thread-topic"}
  Columns = {"message-id"}
  Metas <- MCMetas
  Bodies <- MCBodies
  Null = Null
SPECIFICATION Spec
INVARIANTS ArchiveHasNoGap OneOwner WorkerIsPrompt EvidenceTrue
PROPERTIES IdentityKept Archived ActionsEnd TargetsSettle
CHECK_DEADLOCK FALSE
