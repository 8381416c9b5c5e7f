\* Every application instance comes to an end, on a network that keeps its promises.
SPECIFICATION SimSpec
CONSTANTS
  h1 = h1
  h2 = h2
  Hosts = {h1}
  NoHost = NoHost
  MaxApps = 1
  NumTasks = 2
  MaxRequests = 5
  SubmitRetries = 1
  UIntMax = 7
  AcceptFirst = TRUE
  PromptTimers = TRUE
  MaxFaults = 1
  MaxLosses = 0
  MaxNet = 1
  MaxTimers = 2
  MaxRestarts = 0
CHECK_DEADLOCK FALSE
INVARIANTS
  CountersMatch
  TwinsAgree
PROPERTIES
  EveryInstanceEnds
