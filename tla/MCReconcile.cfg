SPECIFICATION WorkspaceSpec
CONSTANTS
  Roots = {r1}
  Preparers = {p1}
  Managers = {m1}
  Inputs = {f1}
  NoRoot = NoRoot
  NoPreparer = NoPreparer
  NoManager = NoManager
  MaxClaimsOfRoots = 2
CHECK_DEADLOCK FALSE
INVARIANTS
  ReconcileAllowsRetry
