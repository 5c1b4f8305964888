SPECIFICATION Spec
CONSTANTS
    b1 = b1
    b2 = b2
    ana = ana
    bo = bo
    cy = cy
    solo = solo
    team = team
    x = x
    y = y
    Booking = {b1, b2}
    Host <- MCHost
    Invitee = {x, y}
    EventType = {solo, team}
    Config <- MCConfig
    SharedCalendar <- MCShared
    Instant = {2, 4}
    Request = {"r1"}
    MaxBookingsPerHour = 1
    Hour = 4
    Horizon = 4
INVARIANTS
    TypeOK
    NoDoubleBooking
    PrimarySeat
    OneCancelWins
    HourlyThrottle
PROPERTIES
    ImplementsAgenda
CHECK_DEADLOCK FALSE
SYMMETRY Symmetry
