CONSTANTS
  Policies = {"DP", "MMP", "FSP"}
  a = a
  b = b
  n1 = n1
  n2 = n2
  n3 = n3
  r1 = r1
  r2 = r2
  Branches = {a, b}
  Nodes = {n1, n2, n3}
  NoAddr = NoAddr
  Child <- SmallChild
  Requests = {r1, r2}
  Client <- TwoClients
  NumTasks <- TwoAndOne
  TaskTime <- LongAndShort
  Probe <- ThreeProbes
  Levels = {0, 3}
  Slowest = 1
  Changing <- OneChanges
SPECIFICATION Spec
CHECK_DEADLOCK FALSE
PROPERTY EveryBagSettles
PROPERTY TasksAreNotWasted
