SPECIFICATION Spec
CONSTANTS
    StartHealth = 4
    Damage = {1}
    ResurrectHeal = 1
    Kits = 0
    KitHeal = 1
    EscapeRounds = 6
    MaxPending = 2
    MaxBattles = 1
    MaxHeals = 0
INVARIANTS
    EscapeAfterTenRounds
CHECK_DEADLOCK FALSE
