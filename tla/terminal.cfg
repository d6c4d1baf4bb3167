SPECIFICATION TerminalSpec
CONSTANTS
    s1 = s1
    Subscribers = {s1}
    Channels = {"task", "activity"}
    CoalescibleOn = {"activity"}
    Filters <- MCFilters
    SUBSCRIBER_QUEUE_CAPACITY = 2
    MAX_CRITICAL_DROPS = 2
    MAX_DROPPED_OUTPUT_BATCHES = 2
    MAX_STALLED_FLUSHES = 2
    MaxEvents = 5
    MinPane = 40
    PaneWindows <- MCPaneWindows
    MaxIds = 4
    MaxWorkspaces = 2
    MaxTabs = 2
    MaxSplits = 3
    MaxActs = 1
    MaxRestarts = 1
    Instances = {"p1"}
    MaxWork = 3
    MaxStarts = 3
    MaxForeign = 2
    Tasks = {"t1"}
    Replans = {"r1"}
    Agents = {"a1"}
    Sizes <- MCSizes
    BLOCK_ROWS = 2
    HotCap = 1
    MAX_RUN = 2
    Limit = 4
    Counts = {1, 2}
    MaxScreenActs = 4
INVARIANTS TypesOK StreamIsExact PanesHold FileIsWhole  
PROPERTIES OnlyLaggardsAreEvicted StreamsImplement WedgedIsEvicted 
CHECK_DEADLOCK FALSE
