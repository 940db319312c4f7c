SPECIFICATION FairSpec
CONSTANTS
    StartHealth = 1
    Damage = {1}
    ResurrectHeal = 1
    Kits = 0
    KitHeal = 1
    EscapeRounds = 1
    MaxPending = 2
    MaxBattles = 2
    MaxHeals = 1
PROPERTIES
    LeavesOnlyItsOwnBattle
    BattlingEnds
CHECK_DEADLOCK FALSE
