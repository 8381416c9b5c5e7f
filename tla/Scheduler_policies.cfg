SPECIFICATION FairSpec
CONSTANTS
  Policies = {"FSP", "MMP", "DP", "IBP"}
  Deadline <- EarlierAndEarlier
  MaxTasks = 2
  MaxTimers = 2
  MaxFired = 1
  MaxAborts = 1
  MaxFailures = 1
  MaxChanges = 1
INVARIANTS TypeOK OneProcess OwnersAreReminded FatherKnowsQueue
PROPERTIES EndIsFinal EveryTaskEnds
CHECK_DEADLOCK FALSE
CONSTRAINT FewEvents
