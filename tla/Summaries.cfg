SPECIFICATION Spec
CONSTANTS
    Cases <- MCCases
    Scale = 60
    ExecNodes <- MCExecNodes
    TaskLengths <- MCTaskLengths
    MaxChanges = 3
    Second = 1
    Grid <- MCGrid
    NewTasks <- MCNewTasks
    Slow = 1
    MaxTasks = 3
    MaxTime = 2
    MinTaskLength = 2
    Peers <- MCPeers
    MaxLength = 13
    NumPieces = 2
INVARIANTS
    SummariesAreSound
    FunctionsPromiseWhatIs
PROPERTY EveryStepIsProgress
