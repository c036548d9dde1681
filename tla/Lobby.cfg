SPECIFICATION Spec
CONSTANTS
    N = 3
    MaxPlayers = 3
    Kinds = {"old", "leave", "stop", "settings"}
    MaxEvents <- BeforeThird
INVARIANTS SlotsMatch GameAgrees BeginTogether HostSetsUpEveryone
CHECK_DEADLOCK FALSE
