SPECIFICATION Spec
CONSTANTS
    N = 3
    Human = {0}
    Sequential = TRUE
    Interleave = FALSE
    CompFast = TRUE
    NumRounds = 2
    MaxLife = 1
    MaxFlight = 1
    MaxFalls = 1
    Slot = {e1, e2}
    MaxFrames = 1
    ExplSteps = 2
    NextIterSteps = 1
    Menu = {"pause", "graphics", "resign"}
INVARIANTS SettledOutsideRun NoCasualtyMissed OneBlastAtATime CurplayerValid
PROPERTIES ImplementsBattle
SYMMETRY SlotSymmetry
