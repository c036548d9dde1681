SPECIFICATION FairSpec
CONSTANTS
    N = 2
    Human = {0}
    Sequential = FALSE
    Interleave = TRUE
    CompFast = TRUE
    NumRounds = 2
    MaxLife = 1
    MaxFlight = 1
    MaxFalls = 1
    Slot = {e1, e2}
    MaxFrames = 1
    ExplSteps = 2
    NextIterSteps = 1
    Menu = {"masskill", "graphics"}
PROPERTIES OneWinner TurnCompletes ImplementsBattle
