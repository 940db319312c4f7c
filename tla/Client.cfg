SPECIFICATION Spec
CONSTANTS
    StartHealth = 1
    Damage = {1}
    ResurrectHeal = 1
    Kits = 1
    KitHeal = 1
    EscapeRounds = 1
    MaxPending = 3
    MaxBattles = 2
    MaxHeals = 0
INVARIANTS
    TypeOK
    EscapeKnowsBattle
    BattlingIsReal
    LoserIsTold
    OneQueryPending
    OnlyQueriesAfterLogout
    NeverTooHealthy
CHECK_DEADLOCK FALSE
