CONSTANTS
  Peers <- PeersOf3
  NoAddr = NoAddr
  Branches <- PlainBranches
  Child <- PlainChild
  Leaf <- PlainLeaf
  r1 = r1
  r2 = r2
  Requests = {r1, r2}
  Client <- TwoClients
  NumTasks <- TwoAndOne
  Built = FALSE
  Limited = FALSE
  MaxRefresh = 1
  MaxFaults = 0
SPECIFICATION Spec
CHECK_DEADLOCK FALSE
INVARIANT InformationSettles
PROPERTY NewsIsUsed
