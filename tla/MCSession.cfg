SPECIFICATION Spec
CONSTANTS
  r1 = r1
  r2 = r2
  k1 = k1
  w1 = w1
  w2 = w2
  NoTask = NoTask
  NoWorker = NoWorker
  NoCall = NoCall
  Tasks <- MCTasks
  Parent <- MCParent
  Calls <- MCCalls
  CallTask <- MCNone
  Kind <- MCNone
  NeedsApproval = {}
  WaitFor <- MCNone
  WaitAny = {}
  Timed = {}
  Workers <- MCWorkers
  HasEnvironment = TRUE
  MaxToolCalls <- MCMaxToolCalls
  MaxAgents = 2
  MaxConcurrentAgents = 1
  MaxFailures = 2
  MaxEpoch <- MCMaxEpoch
  StopReasons = {"partial"}
  Admissions = {"ok", "declined"}
  Faults = {"lapse", "error", "model", "summary"}
  Api = {"archive", "spawn", "expire"}
SYMMETRY MCSymmetry
CHECK_DEADLOCK FALSE
INVARIANTS
  OneTreeRuns
  ArchivedIsQuiet
  GenerationsSettled
