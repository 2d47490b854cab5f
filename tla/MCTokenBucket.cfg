SPECIFICATION FairSpec
CONSTANTS
    B = 2
    Num = 3
    MAX_PROCESS_NUM = 1
    Needs <- MCNeeds
    Modes <- MCModes
    MaxDiscard = 1
INVARIANTS
    TypeOK
    GuardCountsQ2
    NoLostWakeup
    PacketsInOrder
    PacketsConserved
    TokensConserved
    StatisticsComplete
PROPERTY
    EmulationCompletes
CHECK_DEADLOCK FALSE
