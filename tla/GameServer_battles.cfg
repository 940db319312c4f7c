SPECIFICATION FairSpec
CONSTANTS
    n1 = n1
    n2 = n2
    n3 = n3
    at1 = at1
    at2 = at2
    at3 = at3
    None = None
    Names <- TwoNames
    Attended <- Nobody
    Addr <- TwoAddr
    StartHealth <- JustTwo
    Strike <- JustThree
    Defense <- One
    CriticalBuff = 0
    ResurrectHeal <- One
    KitHeal = 1
    Price = 3
    StartMoney = 2
    Interval = 2
    MaxBirths = 2
    MaxBattles = 2
    MaxSays = 0
    MaxHeals = 1
    MaxEscapes = 1
    MaxQueue = 0
PROPERTIES
    BattlesAreDuels
    BattleEnds
CHECK_DEADLOCK FALSE
