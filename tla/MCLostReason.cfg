SPECIFICATION Spec
CONSTANTS
  r1 = r1
  w1 = w1
  w2 = w2
  NoTask = NoTask
  NoWorker = NoWorker
  NoCall = NoCall
  Tasks <- MCTasks
  Parent <- MCParent
  Calls <- MCCalls
  CallTask <- MCCallTask
  Kind <- MCKind
  NeedsApproval <- MCNeedsApproval
  WaitFor <- MCWaitFor
  WaitAny = {}
  Timed = {}
  Workers <- MCWorkers
  HasEnvironment = FALSE
  MaxToolCalls <- MCMaxToolCalls
  MaxAgents = 1
  MaxConcurrentAgents = 1
  MaxFailures = 2
  MaxEpoch <- MCMaxEpoch
  StopReasons = {"succeeded"}
  Admissions = {"ok"}
  Faults = {"interrupt", "fail"}
  Api = {}
CHECK_DEADLOCK FALSE
INVARIANT FailedHasReason
