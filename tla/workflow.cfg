SPECIFICATION WorkflowSpec
CONSTANTS
    MaxSteps = 2
    Proposals <- MCProposals
    Caps = {1, 2}
    MaxRequests = 2
    MaxEdits = 2
    MaxRetries = 1
    MaxRestarts = 1
    MaxTogether = 3
    Tasks = {"t1"}
    RetryClasses = {"AgentCrash"}
    Policies <- MCPolicies
    Cleanups = {"AfterMerge", "AfterReject"}
    MaxCommits = 1
    MaxActs = 1
    Contexts <- MCContexts
    Uses <- MCUses
    TTL = 0
    MaxRecords = 1
    MaxAudit = 3
    MaxTime = 1
    MaxUses = 2
    Cooldown = 1
    Limits = {0, 1}
    MaxVersions = 3
    Handed = {"a", "b", "c"}
    Deps <- MCDeps
    Findings = {11}
    Grades = {3, 5}
    MaxArtifacts = 1
    MaxIds = 1
    MaxReports = 2
    Lines <- MCLines
    ExitCodes = {"zero", "error"}
    ActivityCapacity = 2
    TimelineCapacity = 1
    EVENT_CAPACITY = 1
    MaxLines = 3
    MaxRuns = 2
    MaxToggles = 1
INVARIANTS TypesOK MirrorAgrees DoneIsEarned   
PROPERTIES ImportIsWhole  
CHECK_DEADLOCK FALSE
