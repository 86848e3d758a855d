\* Verifications and password changes race, one code request at a time; two calls on
\* accounts; the form for two addresses; two tabs with three sessions; one client and socket.
CONSTANTS
    a1 = a1
    a2 = a2
    b1 = b1
    b2 = b2
    x1 = x1
    x2 = x2
    x3 = x3
    campus1 = campus1
    campus2 = campus2
    MaxResends = 2
    MaxAttempts = 1
    MaxChallenges = 3
    Requests = {q1}
    Verifiers = {a1, a2}
    Resets = {b1, b2}
    People = {x1}
    Campuses = {campus1, campus2}
    Approved <- ApprovedAddress
    Calls = {a1, a2}
    MaxCodes = 2
    TicksASecond = 2
    MaxTime = 4
    Nil = Nil
    Universities = {campus1}
    Emails = {a1, a2}
    Cooldown = 2
    MaxTimers = 2
    Blank = Blank
    Pages = {a1, a2}
    Sessions = {x1, x2, x3}
    AccountOf <- SessionAccounts
    MaxSent = 2
    NoToken = NoToken
    Ttl = 3
    Limit = 2
    BlockFor = 3
    Sockets = {x1}
    Window = 3
    MaxEvents = 2
SPECIFICATION SuiteSpec
SYMMETRY Symmetry
INVARIANTS
    SuiteTypeOK
    SecretsAreSpent
    HourlyCapKept
    AccountsAreWhole
    FlowFollowsTheUser
    TabsAgreeWithTheSession
    LimitsHold
\* When all codes have been requested the system rests.
CHECK_DEADLOCK FALSE
