SPECIFICATION Spec
CONSTANTS
    t1 = t1
    t2 = t2
    t3 = t3
    v1 = v1
    v2 = v2
    f1 = f1
    i1 = i1
    i2 = i2
    pageoutd = pageoutd
    pageoutd_waitq = pageoutd_waitq
    NULL = NULL
    NoThread = NoThread
    NoQueue = NoQueue
    Threads <- MCThreads
    WaitQueues <- MCQueues
    Vnodes <- MCVnodes
    Frames <- MCFrames
    Inos <- MCInos
    MaxHeld = 2
SYMMETRY Symmetry
INVARIANTS
    OneVnodePerInode
    RefcountExact
    SleepersOnLiveVnode
    AssertionsHold
CHECK_DEADLOCK FALSE
