SPECIFICATION Spec
CONSTANTS
    Host = {"ana"}
    Connected = {"ana"}
    Mover = {}
    Reassigner = {}
    Event = {"e1", "e2"}
    Prices = {TRUE}
    MaxFaults = 0
    Faults = {}
INVARIANT
    NoEventUnpaid
