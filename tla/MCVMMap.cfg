SPECIFICATION Spec
CONSTANTS
    f1 = f1
    Data = Data
    Nothing = Nothing
    LOW = 2
    HIGH = 7
    PAGE_SIZE = 2
    Objs = {f1}
    Offs = {0, 1}
    Lens = {0, 3, 4}
    p_brk = 5
    MaxAreas = 3
INVARIANTS
    AreasDisjoint
    FindRangeRight
    RemoveExact
PROPERTY
    ImplementsPageMap
CHECK_DEADLOCK FALSE
