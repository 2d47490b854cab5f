SPECIFICATION Spec
CONSTANTS
    GAME_GRID_NUM = 4
    MAX_SEARCH_DEPTH = 4
    MaxPieces = 3
    Boards <- MCBoards
INVARIANTS
    DecisionOptimal
    SidesEqual
CHECK_DEADLOCK FALSE
