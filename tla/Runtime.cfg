SPECIFICATION RuntimeSpec
CONSTANTS
  Threads = {t1, t2}
  MaxTimers = 3
  Monitors = {m1, m2}
  Threshold <- ThresholdOf
  Models = {gpt}
  Costs = {1, 2}
  MaxRecords = 3
  MaxResets = 1
  MaxFrames = 2
  Providers = 2
  FailureThreshold = 2
  RecoveryTimeout = 2
  MaxAttempts = 2
  MaxClock = 3
  MaxCalls = 3
  MaxFailures = 3
  Keys = {k1, k2}
  Score <- MCScore
  SimilarityThreshold = 92
  TtlSeconds = 1
  MaxSize = 1
  Tag = Tag
  MaxNow = 1
  MaxCacheCalls = 3
  TraceIds = {1, 2, 3}
  MaxTraces = {2}
  MaxRecorded = 4
  MaxStores = 2
  Secrets = {s1, s2}
  InitialSecret = s1
  MaxSigned = 3
  Radix = 2
  TimeWidth = 2
  RandWidth = 2
  ClockMax = 3
  MaxIds = 4
  BatchSize = 2
  MaxRetries = 2
  MaxBatch = 3
  MaxMessages = 2
  MaxProduced = 4
  MaxReads = 2
  SpanShapes <- MCShapes
  HookTraces = {A, B}
  MaxHookSpans = 2
  MaxHookOps = 2
  MaxPatchOps = 2
  MaxResponses = 1
  ToolNames = {"search", "web_search", "1"}
  Agents = {"agent"}
  Tools = {"tool"}
  Ticks = {1, 2}
  InKey <- MCInKey
  Tasks = {k1, k2}
  MaxCallbacks = 4
  m1 = m1
  m2 = m2
  A = A
  B = B
  k1 = k1
  k2 = k2
SYMMETRY RuntimeSymmetry
CHECK_DEADLOCK FALSE
INVARIANTS
  RuntimeTypeOK DeadlineIsSafe BudgetIsWatched
  CircuitFollowsFailures CacheIsCurrent RingIsRecent StreamTellsChanges
  IdsIncrease StringsIncrease NoEventVanishes SessionsAreFaithful ReplayAgrees
  PatchingIsExact
PROPERTIES CallbacksAreMatchedOnce
