SPECIFICATION LiveSpec
CONSTANTS
    MaxTasks = 2
    TaskShapes <- MCPlain
    Policies <- MCWide
    RetryBound = 1
    CapBound = 2
    ParallelBound = 2
    AgentCosts <- MCCosts
    CostBound = 1
    ExitCodes <- MCExitCodes
    UserOps = {}
    MaxUserStops = 1
    MaxRemovals = 0
PROPERTY SettledEventually
