SPECIFICATION BoxSpec
CONSTANTS
  s1 = s1
  s2 = s2
  p1 = p1
  p2 = p2
  Sessions = {s1, s2}
  Processes = {p1, p2}
  Disposable = {}
  Bench = p2
  ExecIds <- MCExecIds
  NoExec = NoExec
  MaxRunning = 1
  MemoryOf <- MCMemoryOf
  MemoryBudget = 3
CHECK_DEADLOCK FALSE
INVARIANTS
  WithinCapacity
