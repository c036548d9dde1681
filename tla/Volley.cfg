SPECIFICATION Spec
CONSTANTS
    Width = 12
    Height = 9
    Radius = 1
    ShelfSize = 2
    MaxAmount = 4
    MaxDrop = 4
    SmallBlast <- Small
    MediumBlast <- Small
    LargeBlast <- Medium
    NapalmBlast <- Medium
    NapalmLiquid = 3
    FullLife = 6
    ShieldLife = 6
    Recharge = 2
    AbsorbHit = 2
    SapperRate = 2
    TankDrop = 2
    Climb = 1
    Unit = 4
    SubSteps = 1
    Timeout = 8
    Gravity = 2
    BordersExtend = 4
    TunnelMin = 3
    RollerGain = 1
    RollerFall = 1
    MagDist = 4
    MagForce = 2
    MagCost = 1
    NumPlayers = 2
    Rounds <- MCRounds
    Info <- MCInfo
    Orders <- MCOrders
    Draws <- MCDraws
    Tunneling = TRUE
    SpiderArc = 2
    FrogMin = 2
    FrogMax = 6
    Fuel = 1
    Turns = 2
INVARIANTS SettledAtEnd DeathsScored
PROPERTIES BlastShape DirtKept VolleyEnds
