SPECIFICATION FairSpec
CONSTANTS
  a = a  b = b  c1 = c1  c2 = c2  c3 = c3  d1 = d1  d2 = d2  h1 = h1  h2 = h2
  Senders = {a, b, c1, c2, c3}
  Objs = {a, b}
  Kind <- Kinds
  Drains = {d1}
  Handlers = {h1, h2}
  MaxPending = 2
  Timeout = 1
  MaxId = 2
  MaxTunnels = 2
  Scenarios <- ManagerScenarios
CHECK_DEADLOCK FALSE
INVARIANTS IdsHeld QueueOrdered
PROPERTIES KeepaliveHonest ParkedLeave
