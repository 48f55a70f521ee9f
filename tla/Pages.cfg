SPECIFICATION Spec
CONSTANTS
    Rows <- TwoColumns
    Bounds <- FarBounds
    Sizes = {1, 2}
    MaxWrites = 3
INVARIANTS TypeOK CursorInOrder CursorComplete PaginatorShifts
CHECK_DEADLOCK FALSE
