SPECIFICATION FairSpec
CONSTANTS
  o1 = o1  o2 = o2
  Opens = {o1, o2}
  NoOpen = NoOpen
  Managers = {1, 2, 3}
  Resume = TRUE
  IdOf <- SameId
  Scenarios <- ServerScenarios
CHECK_DEADLOCK FALSE
INVARIANTS OpensAccounted ClientTold 
PROPERTIES NoEarlyPrune BacklogDrains
