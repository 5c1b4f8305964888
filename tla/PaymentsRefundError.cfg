SPECIFICATION Spec
CONSTANTS
    Booking = {"p"}
    Faults = {"refundError"}
PROPERTY
    RefundNotLost
CHECK_DEADLOCK FALSE
