SPECIFICATION TimedSpec
CONSTANTS
  MaxSent = 1
  MaxTimers = 2
  MaxTime = 1
  MaxSignals = 1
INVARIANTS TypeOK NoWaitWithMessages TimersAreCovered
PROPERTIES KeepsPromises EverythingComes
CHECK_DEADLOCK FALSE
