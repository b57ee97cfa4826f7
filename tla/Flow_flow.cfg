SPECIFICATION FairSpec
CONSTANTS
  Source = "socket"
  Total = 3
  ReadSizes = {1, 2}
  Holdback = 1
  Windows = {1, 2}
  AckThreshold = 1
  WriteLimit = 1
  FrameCap = 2
  FullBudget = 1
  FailBudget = 1
INVARIANTS WindowAccount WindowBound NothingLost
 
