SPECIFICATION SigFairSpec
CONSTANTS
    B = 1
    Num = 2
    MAX_PROCESS_NUM = 2
    Needs <- MCNeeds
    Modes <- MCModes
    MaxDiscard = 0
PROPERTY
    CtrlCPrintsStatistics
CHECK_DEADLOCK FALSE
