SPECIFICATION Spec
CONSTANTS
  d1 = d1 d2 = d2 c1 = c1 t1 = t1 k1 = k1 k2 = k2
  Procs = {d1, d2, c1, t1}
  KindOf <- MCKind
  NoFile = NoFile Torn = Torn Squat = Squat NoProc = NoProc NoId = NoId Bad = Bad
  Servers = {k1} Friends = {k1, k2}
  Scenarios <- DaemonScenarios
INVARIANTS DataDirOwned IdentityKept
PROPERTIES ReloadKeepsService
CHECK_DEADLOCK FALSE
