SPECIFICATION FairSpec
CONSTANTS
  f1 = f1  f2 = f2  s1 = s1  p1 = p1
  NoConn = NoConn
  Servers = {0, 1}
  Conns = {f1, f2, s1, p1}
  KindOf <- MCKind
  MaxHeld = 1
  Scenarios <- ClientScenarios
CHECK_DEADLOCK FALSE
 
PROPERTIES RoutesAgree AcceptedResolved FailsOver NoZombie
