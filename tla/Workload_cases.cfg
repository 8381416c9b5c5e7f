\* The five cases; a day has six ticks, and the simulation starts on a Friday.
\* The machine of the sweeper has four megabytes and two places.
SPECIFICATION MCSpec
CONSTANTS
  NumNodes <- NodesOf
  Cases = {"uniform", "poisson", "repeat", "site", "many"}
  NumSearches <- SearchesOf
  Gaps = {1, 2}
  Releases = {0, 2}
  NumTasks = 1
  Batches = {1, 2}
  Pauses = {0, 1}
  Thoughts = {1, 6}
  Day = 6
  Morning = 2
  Night = 4
  Deltas = {0, 1}
  Start = 33
  MaxSimTime = 18
  MaxTroubles = 1
  Numbers <- SmallNumbers
  Memory = 4
  NumProcesses = 2
  Scripts <- SmallScripts
  MayStop = TRUE
  EventNames = {"a", "b"}
  Spans = {2, 5}
  MaxSpans = 3
  ResultRows <- SmallRows
  MaxRows = 3
  NumSamples = 4
  Generators <- SmallGenerators
  Precision = 12
CHECK_DEADLOCK FALSE
INVARIANT WorkIsAccounted
INVARIANT CasesAreRight
INVARIANT StatisticsAreFaithful
PROPERTY RunsEnd
PROPERTY CasesAreTried
