SPECIFICATION ServicesSpec
CONSTANTS
  d1 = d1
  c1 = c1
  k1 = k1
  p1 = p1
  p2 = p2
  s1 = s1
  s2 = s2
  t1 = t1
  t2 = t2
  Deployed = {d1}
  Bodies = {d1}
  Occurrences <- MCOccurrences
  Horizon = 2
  LateAfter = 0
  RunOnce = {}
  Overlapping = {}
  Schedulers = {p1, p2}
  MaxRuns = 3
  Announcements = {1, 2, 3}
  MaxEdits = 1
  MaxFaults = 1
  Clients = {c1}
  Keys = {k1}
  NoKey = NoKey
  NoBody = NoBody
  KeyOf <- MCKeyOf
  BodyOf <- MCBodyOf
  CallRetries = 1
  MaxPrunes = 0
  Subscriptions = {h1}
  MaxSubscriptions = 1
  Deliverers = {}
  Nobody = Nobody
  MaxAttempts = 2
  MaxStalls = 0
  MaxHookCrashes = 0
  MaxToggles = 0
  MaxRetries = 0
  Sessions = {s1, s2}
  Processes = {p1, p2}
  Disposable = {s2}
  Bench = p2
  ExecIds <- MCExecIds
  NoExec = NoExec
  MaxRunning = 1
  MemoryOf <- MCMemoryOf
  MemoryBudget = 3
  Traced = {t1}
  Capacity = 2
  Batch = 2
  MaxSpans = 3
  MaxClaims = 3
  McpCalls = {t1, t2}
  MaxClients = 2
  MaxSessions = 3
  Editors = {s1, s2}
  Paths = {f1, f2}
  Contents = {"a", "b"}
  NoContent = "none"
  NoPath = NoPath
  EntryLimit = 1
  HistoryKeep = 2
  MaxVersion = 3
  Uploaders = {s1, s2}
  Unlocked = Unlocked
  Publishers = {p1, p2}
  Data = {"a", "b"}
  NoData = NoData
  SizeOf <- MCSizeOf
  Quota <- MCQuota
  Outputs = {"x"}
  MaxFiles = 2
  Turns <- MCTurns
  KeptMessages = 2
  MaxMessages = 10
  Roots = {s1, s2}
  Preparers = {p1, p2}
  Managers = {m1}
  Inputs = {f1}
  NoRoot = NoRoot
  NoPreparer = NoPreparer
  NoManager = NoManager
  MaxClaimsOfRoots = 2
  Fragments <- MCFragments
  ValidJson <- MCValidJson
  Unset = ""
  MaxFragments = 4
CHECK_DEADLOCK FALSE
INVARIANTS
  ServicesTypeOK
  OccurrenceOnce
  NoOverlap
  UnsharedWithinCapacity
  ExecOnce
  TraceComplete
  RejectedNeverRan
  MemoryExact
  FilesExact
  RequestsWellFormed
  ReadyIsProvisioned
  CallsAssembled
PROPERTIES
  DueIsHandled
