SPECIFICATION FairSpec
CONSTANTS
    p1 = p1
    p2 = p2
    p3 = p3
    Idle = Idle
    InitProc = InitProc
    Threads <- MCThreads
    WaitQueues <- MCThreads
    NoThread = NoThread
    NoQueue = NoQueue
    PROC_MAX_COUNT = 6
INVARIANTS
    TypeOK
    ThreadsPlaced
    FamilyTree
    LivePidsDiffer
    SleepersHaveReason
PROPERTY
    WaitReturns
CHECK_DEADLOCK FALSE
