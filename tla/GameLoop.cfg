SPECIFICATION Spec
CONSTANTS
    TickInterval = 4
    HitInterval = 7
    MaxTime = 30
    MaxStep = 5
INVARIANTS
    TypeOK
    NoSecondSkip
    MovesAtMostDouble
PROPERTIES
    HitsKeepTheirDistance
CHECK_DEADLOCK FALSE
