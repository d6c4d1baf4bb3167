SPECIFICATION Spec
CONSTANTS
    MaxTasks = 2
    TaskShapes <- MCReviewed
    Policies <- MCOnePolicy
    RetryBound = 1
    CapBound = 2
    ParallelBound = 1
    AgentCosts <- MCCosts
    CostBound = 1
    ExitCodes <- MCExitCodes
    UserOps = {"cancel", "retry", "run", "stop_all"}
    MaxUserStops = 0
    MaxRemovals = 1
INVARIANTS TypeOK QueueIsReady RunningIsTracked 
PROPERTIES StopAllQuiesces
