SPECIFICATION FairSpec
CONSTANTS
    N = 2
    MaxPlayers = 2
    Kinds = {"old", "leave", "stop", "settings"}
    MaxEvents <- Twice
PROPERTIES GameBegins
CHECK_DEADLOCK FALSE
