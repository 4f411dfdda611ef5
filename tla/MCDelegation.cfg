SPECIFICATION Spec
CONSTANTS
  r1 = r1
  k1 = k1
  w1 = w1
  w2 = w2
  NoTask = NoTask
  NoWorker = NoWorker
  NoCall = NoCall
  Tasks <- MCTasks
  Parent <- MCParent
  Calls <- MCCalls
  CallTask <- MCCallTask
  Kind <- MCKind
  NeedsApproval = {}
  WaitFor <- MCWaitFor
  WaitAny = {}
  Timed = {}
  Workers <- MCWorkers
  HasEnvironment = FALSE
  MaxToolCalls <- MCMaxToolCalls
  MaxAgents = 2
  MaxConcurrentAgents = 1
  MaxFailures = 2
  MaxEpoch <- MCMaxEpoch
  StopReasons = {"succeeded"}
  Admissions = {"ok"}
  Faults = {"lapse", "error"}
  Api = {"followup"}
SYMMETRY WorkerSymmetry
CHECK_DEADLOCK FALSE
INVARIANTS
  TreeToolBudget
  FinalizingIsSettled
PROPERTY KeepsContract
