SPECIFICATION SigFairSpec
CONSTANTS
    B = 1
    Num = 3
    MAX_PROCESS_NUM = 2
    Needs <- MCNeeds
    Modes <- MCModes
    MaxDiscard = 0
INVARIANTS
    SigTypeOK
    NoOrphanedMutex
    PacketsInOrder
PROPERTY
    CtrlCStopsArrivals
CHECK_DEADLOCK FALSE
