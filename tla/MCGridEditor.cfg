CONSTANTS
    Feeder <- MeterFeeder
    ChildTypes = {"house"}
    OwnNames = {own}
    MaxEdits = 3
    Careful = TRUE
SPECIFICATION Spec
INVARIANTS
    DrawingMatchesTree
    LinksFoldWithNodes
    HiddenChildrenShown
    ReferencesResolve
PROPERTIES
    HousesReplaced
CHECK_DEADLOCK FALSE
