SPECIFICATION FairSpec
CONSTANTS
    FILE_SERVER_COUNT = 3
    CLIENT_COUNT = 2
    Resources <- MCResources
    Topologies <- MCTopologies
    NoServer = NoServer
INVARIANTS
    AnswersAfterRegistration
    ServedByNearest
PROPERTY
    ClientsEnd
CHECK_DEADLOCK FALSE
