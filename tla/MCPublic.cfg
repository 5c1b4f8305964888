SPECIFICATION MCSpec
CONSTANTS
    Request = {"r", "s", "t"}
    Body <- MCBody
    Priced = {"same"}
    Faults = {"crash", "disconnect"}
    Pool <- MCPool
    Profiles <- MCProfiles
    Offset <- MCOffset
    Day = 6
    DateFrom = 0
    DateTo = 1
    Clock = 0
    Duration = 2
    SlotInterval = 2
    BufferBefore = 1
    BufferAfter = 0
    MinNotice = 1
    MaxFuture = 4
    RuleInputs <- MCRuleInputs
    HourInputs <- MCHourInputs
    OverrideDates <- MCOverrideDates
    MeetingInputs <- MCMeetingInputs
    ExternalInputs <- MCExternalInputs
    MaxOverrides = 2
INVARIANTS
    TypeOK
    OneBooking
    ToldTheTruth
    PageAgreesWithBooking
PROPERTY
    ReservationEnds
CHECK_DEADLOCK FALSE
