\* Late, reordered and lost messages, a failure and a restart.
SPECIFICATION Spec
CONSTANTS
  h1 = h1
  h2 = h2
  Hosts = {h1, h2}
  NoHost = NoHost
  MaxApps = 1
  NumTasks = 1
  MaxRequests = 2
  SubmitRetries = 1
  UIntMax = 7
  AcceptFirst = FALSE
  PromptTimers = FALSE
  MaxFaults = 1
  MaxLosses = 1
  MaxNet = 2
  MaxTimers = 2
  MaxRestarts = 1
SYMMETRY HostSymmetry
CHECK_DEADLOCK FALSE
INVARIANTS
  RequestsConsistent
  NothingIsForgotten
PROPERTIES
  FinishedForGood
