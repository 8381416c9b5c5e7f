CONSTANTS
  NumNodes = 2
  InTime <- SlowIn
  OutTime <- FastOut
  NetDelays = {0, 1}
  Waits = {1, 2}
  Lengths = {2}
  Clients <- FirstTwice
  Starts = {0}
  FailAts = {2}
  NumFailing = {1, 2}
  NumFailures = 0
  MaxOp = 1
  MaxTime = 3
  MaxOps = 4
  Sizes = {2, 3, 4, 5, 6}
  Downwards = {TRUE, FALSE}
  Configurations <- RunProperties
  NetworkSize = 2
  Goal = 2
  MemoryEvents = 2
  MaxEvents = 4
  MaxRuns = 3
SPECIFICATION MCSpec
CHECK_DEADLOCK FALSE
INVARIANT BuiltTreeIsSound
PROPERTY TimersAreRight
PROPERTY LinkIsSerial
PROPERTY TasksTakeTheirTime
PROPERTY RunsKeepResults
