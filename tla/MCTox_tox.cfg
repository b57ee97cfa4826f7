SPECIFICATION FairSpec
CONSTANTS
  a = a  b = b  c1 = c1  c2 = c2
  Keys = {a, b}
  Numbers = {0}
  Callers = {c1, c2}
  Driver = c1
  NoKey = NoKey
  Floor = 1
  MaxBudget = 3
  MinInterval = 1
  MaxEntries = 2
  Trusted = 1
  Queue = 6
  MaxSeq = 9
  Deadline = 2
  Confirmations = 2
  Friends <- OneFriend
  Scenarios <- ToxScenarios
CHECK_DEADLOCK FALSE
INVARIANT GateExact
PROPERTIES CallsReturn DataFlows CutOffContacts WatchdogHonest
