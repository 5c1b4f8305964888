SPECIFICATION Spec
CONSTANTS
    b1 = b1
    b2 = b2
    ana = ana
    bo = bo
    cy = cy
    solo = solo
    team = team
    x = x
    y = y
    Booking = {b1, b2}
    Host <- MCHost
    Invitee = {x}
    EventType = {solo, team}
    Config <- MCConfig
    SharedCalendar <- MCShared
    Instant = {1, 2}
    Request = {"r1"}
    MaxBookingsPerHour = 2
    Hour = 2
    Horizon = 4
INVARIANT
    NoDoubleBooking
CHECK_DEADLOCK FALSE
