SPECIFICATION LiveSpec
CONSTANTS
    Agents = {"a"}
    Hints = {"Working", "NeedsApproval"}
    ExitCodes = {"zero", "error", "none"}
    TAP_CAPACITY = 2
    CHANNEL_CAPACITY = 1
    EVENT_CAPACITY = 1
    MaxRuns = 1
    MaxChunks <- MCOneRun
INVARIANTS TypeOK NoOrphanProcess EventsInOrder VerdictMatchesExit
PROPERTIES StopIsNoFailure ThreadsEnd EveryExitIsHeard
