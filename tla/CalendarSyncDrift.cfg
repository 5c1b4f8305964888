SPECIFICATION Spec
CONSTANTS
    Host = {"ana"}
    Connected = {"ana"}
    Mover = {"m1"}
    Reassigner = {}
    Event = {"e1", "e2"}
    Prices = {FALSE}
    MaxFaults = 0
    Faults = {"overlap"}
PROPERTY
    DriftHealed
