SPECIFICATION Spec
CONSTANTS
    MaxTasks = 3
    TaskShapes <- MCChain
    Policies <- MCWideNarrow
    RetryBound = 1
    CapBound = 2
    ParallelBound = 2
    AgentCosts <- MCHighCosts
    CostBound = 2
    ExitCodes <- MCExitCodes
    UserOps = {"pause"}
    MaxUserStops = 0
    MaxRemovals = 0
INVARIANTS AttemptsBounded  ParallelLimit
PROPERTIES PausedStartsNothing
