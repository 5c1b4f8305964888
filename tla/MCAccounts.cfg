SPECIFICATION MCSpec
CONSTANTS
    User = {"ana", "bo"}
    Invite = {"i"}
    Request = {r, s}
    Nobody = "nobody"
    Cookie = {a, b}
    Link = {"l"}
    Visit = {r, s}
    MaxPasswords = 2
    Grant = {a, b}
    TokenRequest = {r, s}
    MaxRefresh = 1
    Type = {r, s}
    Slug = {a, b}
    Admin = "ana"
    Colleague = "bo"
    Hosts <- MCHosts
    Asker = {"p"}
    Visitor = {"v"}
    Casts <- MCCasts
    Provider <- MCProvider
    Calendars <- MCCalendars
    Home <- MCHome
    Bodies <- MCBodies
    MaxCalls = 5
    Process = {r, s}
    Chosen = {2, 3}
    LegacyKey = 2
    RecoveryKey = 4
    FirstRandom = 5
    MaxStarts = 3
    MaxEdits = 1
SYMMETRY Symmetry
INVARIANTS
    TypeOK
    OneOwner
    NotLockedOut
    InviteMakesOne
    SignInIsSound
    LinksHold
    AccountsInOrder
    DataStaysReadable
PROPERTY
    ConnectionsAsGranted
CHECK_DEADLOCK FALSE
