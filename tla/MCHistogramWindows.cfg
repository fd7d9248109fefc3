CONSTANTS
    Categories = {"c1", "c2"}
    Types = {"m1", "m2"}
    Selections <- SmallSelections
    Settings <- SmallSettings
SPECIFICATION Spec
INVARIANTS
    ListsInOrder
    RowsKept
    HistogramsCount
    SameRanges
CHECK_DEADLOCK FALSE
