SPECIFICATION FairSpec
CONSTANTS
    t1 = t1
    t2 = t2
    t3 = t3
    Threads <- MCThreads
    RunOrder <- MCRunOrder
    WaitQueues <- MCQueues
    NoThread = NoThread
    NoQueue = NoQueue
INVARIANT
    EintrMeansNotHeld
CHECK_DEADLOCK FALSE
