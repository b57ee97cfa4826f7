SPECIFICATION Spec
CONSTANTS
  f1 = f1 f2 = f2 f3 = f3 t1 = t1 s1 = s1
  Conns = {f1, f2, f3, t1, s1}
  KindOf <- MCKind
  HoldCap = 2
  MaxConnections = 2
  Scenarios <- EagerScenarios
INVARIANT PipelinedPreserved
CHECK_DEADLOCK FALSE
