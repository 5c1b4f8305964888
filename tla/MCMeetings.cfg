SPECIFICATION MCSpec
CONSTANTS
    Question = {"q"}
    Option = {"x"}
    Word = {"", "on"}
    Ticks = {"on"}
    Update = {r, s}
    Mover = {"m1", "m2"}
    ByLink = {"m2"}
    Preferences <- MCPreferences
    Troubles = {"crash", "stalls", "mailFails", "tokenFails", "loadFails", "writeFails"}
    MaxTroubles = 1
    Shifter = {"m"}
    Swapper = {"s"}
    MaxClock = 2
    MaxReplies = 2
    MaxSlips = 1
    Egress = {e1, e2}
    Caller = {r, s}
    Faults = {"readFails", "saveFails", "startFails", "stopFails", "showFails", "bucketFails", "crash", "share"}
    MaxFaults = 1
    Take = {r, s}
    MaxFailures = 1
SYMMETRY Symmetry
INVARIANTS
    FormIsSound
    BookerIsKeptInformed
    CalendarsAgree
    RecordingsAreInHand
    NotesMatchRecordings
CHECK_DEADLOCK FALSE
