SPECIFICATION Spec
CONSTANTS
  r1 = r1
  w1 = w1
  w2 = w2
  NoTask = NoTask
  NoWorker = NoWorker
  NoCall = NoCall
  Tasks <- MCTasks
  Parent <- MCParent
  Calls <- MCCalls
  CallTask <- MCCallTask
  Kind <- MCKind
  NeedsApproval <- MCNeedsApproval
  WaitFor <- MCWaitFor
  WaitAny = {}
  Timed = {}
  Workers <- MCWorkers
  HasEnvironment = FALSE
  MaxToolCalls <- MCMaxToolCalls
  MaxAgents = 1
  MaxConcurrentAgents = 1
  MaxFailures = 2
  MaxEpoch <- MCMaxEpoch
  StopReasons = {"succeeded"}
  Admissions = {"ok"}
  Faults = {"lapse", "crash", "interrupt", "error"}
  Api = {"cancel", "deny", "steer"}
SYMMETRY WorkerSymmetry
INVARIANTS
  TypeOK
  AtMostOnce
  WriterLock
  RunningCallOwned
  WaitingHasWaker
PROPERTY KeepsContract
