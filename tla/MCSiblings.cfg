SPECIFICATION Spec
CONSTANTS
  r1 = r1
  k1 = k1
  k2 = k2
  w1 = w1
  w2 = w2
  NoTask = NoTask
  NoWorker = NoWorker
  NoCall = NoCall
  Tasks <- MCTasks
  Parent <- MCParent
  Calls <- MCCalls
  CallTask <- MCCallTask
  Kind <- MCKind
  NeedsApproval = {}
  WaitFor <- MCWaitFor
  WaitAny = {1}
  Timed = {1}
  Workers <- MCWorkers
  HasEnvironment = FALSE
  MaxToolCalls <- MCMaxToolCalls
  MaxAgents = 3
  MaxConcurrentAgents = 1
  MaxFailures = 1
  MaxEpoch <- MCMaxEpoch
  StopReasons = {"succeeded"}
  Admissions = {"ok"}
  Faults = {"lapse", "fail"}
  Api = {"spawn"}
SYMMETRY MCSymmetry
CHECK_DEADLOCK FALSE
INVARIANTS
  ConcurrentAgents
  WaitingHasWaker
