SPECIFICATION FairSpec
CONSTANTS
    n1 = n1
    n2 = n2
    n3 = n3
    at1 = at1
    at2 = at2
    at3 = at3
    None = None
    Names <- TwoNames
    Attended <- OneName
    Addr <- TwoAddr
    StartHealth <- JustTwo
    Strike <- JustTwo
    Defense <- One
    CriticalBuff = 3
    ResurrectHeal <- One
    KitHeal = 1
    Price = 3
    StartMoney = 3
    Interval = 2
    MaxBirths = 3
    MaxBattles = 0
    MaxSays = 2
    MaxHeals = 0
    MaxEscapes = 2
    MaxQueue = 1
INVARIANTS
    HealthIsTold
    BroadcastsInOrder
PROPERTIES
    BroadcastsArrive
CHECK_DEADLOCK FALSE
