SPECIFICATION Spec
CONSTANTS
    Names = {"n1"}
    Height = 2
    Width = 1
    Unit = 2
    Deltas = {1, 3}
    MaxPending = 2
INVARIANTS
    TypeOK
    EveryoneOnTheMap
    StopsWhenReleased
PROPERTIES
    NobodyIsThrownBack
CHECK_DEADLOCK FALSE
