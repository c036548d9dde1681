SPECIFICATION FairSpec
CONSTANTS
    Magic = 1001
    RetainOld = 1
    BufferSize = 1
    Sizes = {1}
    Capacity = 2
    MaxPackets <- TwoAndOne
    MaxFaults = 1
    Faults = {"malloc", "ENOMEM", "ESEND"}
    Leavers = {"cli", "svr"}
INVARIANTS DamageOnRecord
PROPERTIES CloseIsNoticed PacketsArrive
CHECK_DEADLOCK FALSE
