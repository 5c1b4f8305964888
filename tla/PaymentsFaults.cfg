SPECIFICATION Spec
CONSTANTS
    Booking = {"p", "q"}
    Faults = {"crash", "disconnect", "lostEvents", "refundError", "loadError"}
INVARIANTS
    TypeOK
    BooksMatchStripe
    ConfirmedOnceAndPaid
PROPERTIES
    PaidSlotIsKept
    HoldResolved
CHECK_DEADLOCK FALSE
