SPECIFICATION Spec
CONSTANTS
    Weapons <- SomeWeapons
    Accessories <- SomeAccessories
    Info <- SomeInfo
    Yield <- SomeYield
    Kinds <- SomeKinds
    Scoring <- SomeScoring
    Hardness <- Uniform
    Efficiency <- Uniform
    MaxItems = 3
    MaxOfWeapon = 3
    InventoryHigh = 2
    MaxBatteries = 2
    NoBudget = FALSE
    ComputersBuy = TRUE
    AiPercent = 80
    InterestRate = 10
    Tunneling = TRUE
    Synchronous = FALSE
    NumRounds = 1
    N = 2
    InitialCash = 40
    DynamicInterest = FALSE
    MaxInterest = 30
    Lottery = TRUE
    PlayerOrder = "winners"
    NormalHardness = 1
    NormalEfficiency = 1
    MaxLife = 8
    BatteryPercent = 50
    AbsorbHit = 2
    SapperRate = 2
    RechargeRate = 2
    Damage = {7}
    Sap = {1}
    MaxEvents = 3
INVARIANTS SelectionInStock
PROPERTIES AutoDefenseHolds ShoppingMakesNoMoney OneCreditPerDeath
CHECK_DEADLOCK FALSE
