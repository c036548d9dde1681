SPECIFICATION FairSpec
CONSTANTS
    N = 3
    Script <- RoundAndTurns
    Sequential = TRUE
    Orders = {0, 1}
    NoOrders = 0
    MaxOrders = 1
    Quitters = {2}
INVARIANTS RandomAgrees
PROPERTIES ImplementsBarrier KnownAtRelease BarrierOpens
CHECK_DEADLOCK FALSE
