SPECIFICATION Spec
CONSTANTS
    n1 = n1
    n2 = n2
    n3 = n3
    at1 = at1
    at2 = at2
    at3 = at3
    None = None
    Names <- TwoNames
    Attended <- Nobody
    Addr <- TwoAddr
    StartHealth <- JustTwo
    Strike <- JustTwo
    Defense <- One
    CriticalBuff = 3
    ResurrectHeal <- One
    KitHeal = 1
    Price = 3
    StartMoney = 2
    Interval = 2
    MaxBirths = 3
    MaxBattles = 1
    MaxSays = 0
    MaxHeals = 1
    MaxEscapes = 2
    MaxQueue = 0
SYMMETRY Symmetry
INVARIANTS
    TypeOK
    HealthIsTold
    OneNormalEnd
    EveryHitHurts
PROPERTIES
    BattlesAreDuels
CHECK_DEADLOCK FALSE
