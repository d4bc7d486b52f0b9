\* Three rounds, every classification, two prices: sale, default, resale.
CONSTANTS
    Rounds <- ThreeRounds
    MaxAttempts = 2
    Classes <- AnyClass
    Money <- TwoPrices
    NoRound = NoRound
SPECIFICATION Spec
INVARIANTS
    TypeOK
    OneEffectiveSale
    SaleMeetsReserve
PROPERTIES
    OutcomesKept
    Lifecycle
CHECK_DEADLOCK FALSE
