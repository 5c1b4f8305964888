SPECIFICATION Spec
CONSTANTS
    Booking = {"p"}
    Faults = {}
PROPERTY
    CancelledIsRefunded
CHECK_DEADLOCK FALSE
