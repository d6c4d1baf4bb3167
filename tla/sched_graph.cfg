SPECIFICATION Spec
CONSTANTS
    MaxTasks = 2
    TaskShapes <- MCPlain
    Policies <- MCOnePolicy
    RetryBound = 1
    CapBound = 2
    ParallelBound = 1
    AgentCosts <- MCCosts
    CostBound = 1
    ExitCodes <- MCExitCodes
    UserOps = {"edit", "artifact", "retry", "invalidate"}
    MaxUserStops = 0
    MaxRemovals = 0
INVARIANTS DependencyGate
PROPERTIES HumanBlockHolds
