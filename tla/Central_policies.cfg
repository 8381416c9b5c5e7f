CONSTANTS
  Policies = {"blind", "IBP", "MMP", "DP", "FSP"}
  NumNodes = 2
  NumTasks <- TwoOneTwo
  Length <- LongShort
  Due <- ShrinkingDues
  Slownesses = {1, 2}
  Room = 2
SPECIFICATION Spec
CHECK_DEADLOCK FALSE
INVARIANT DecisionsHold
