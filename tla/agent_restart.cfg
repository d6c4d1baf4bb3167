SPECIFICATION Spec
CONSTANTS
    Agents = {"a"}
    Hints = {}
    ExitCodes = {"zero"}
    TAP_CAPACITY = 1
    CHANNEL_CAPACITY = 1
    EVENT_CAPACITY = 1
    MaxRuns = 2
    MaxChunks <- MCTwoRuns
INVARIANTS RestartsAreClean
