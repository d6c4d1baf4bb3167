SPECIFICATION Spec
CONSTANTS
    Sizes <- MCSizes
    BLOCK_ROWS = 2
    HotCap = 1
    MAX_RUN = 2
    Limit = 3
    Counts = {1, 3}
    MaxActs = 3
INVARIANTS FramesAreDrawn
CHECK_DEADLOCK FALSE
