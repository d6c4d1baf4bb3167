SPECIFICATION FairSpec
CONSTANTS
    Tasks = {t1}
    Replans = {}
    Agents = {}
PROPERTIES CommandsFinish
CHECK_DEADLOCK FALSE
