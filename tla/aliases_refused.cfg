SPECIFICATION Spec
CONSTANTS
    red = red
    t = t
    C = C
    D = D
    SetTag = SetTag
    Whole = Whole
    Name = {red, t, C, D, SetTag}
    Cells = {1, 2, 3, 4, 5, 6}
    Programs <- AllPrograms
    Documents <- AllDocuments
    RecursionAt = 30
INVARIANTS RefusedOnlyUnproductive
CHECK_DEADLOCK FALSE
