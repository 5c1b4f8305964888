SPECIFICATION MCSpec
CONSTANTS
    Host = {"ana"}
    Connected = {"ana"}
    Mover = {"m1"}
    Reassigner = {}
    Event = {"e1", "e2"}
    Prices = {FALSE}
    MaxFaults = 0
    Faults = {"overlap", "apiError"}
INVARIANTS
    TypeOK
    OneEvent
    NoOrphan
PROPERTIES
    CancelledIsCleared
    EventAppearsAfterFaults
