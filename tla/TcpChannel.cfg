SPECIFICATION Spec
CONSTANTS
    Magic = 1001
    RetainOld = 1
    BufferSize = 1
    Sizes = {1, 2}
    Capacity = 4
    MaxPackets <- ThreeAndOne
    MaxFaults = 1
    Faults = {"malloc", "ENOTCONN", "ERECV", "select"}
    Leavers = {}
INVARIANTS NoFalseAlarm
PROPERTIES ImplementsChannel
CHECK_DEADLOCK FALSE
