CONSTANTS
  Peers <- PeersOf3
  NoAddr = NoAddr
  Branches <- SharedBranches
  Child <- SharedChild
  Leaf <- SharedLeaf
  r1 = r1
  r2 = r2
  Requests = {r1}
  Client <- NearClient
  NumTasks <- OneOf2
  Built = TRUE
  Limited = TRUE
  MaxRefresh = 0
  MaxFaults = 1
SPECIFICATION FairSpec
CHECK_DEADLOCK FALSE
INVARIANT NothingIsInvented
PROPERTY EveryTaskSettles
