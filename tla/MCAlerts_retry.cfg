\* Clients repeat unanswered requests, one worker retries the job of one device, and two
\* top-ups are started: a charge ends in an alert, its job and every top-up come to an end.
CONSTANTS
    u1 = u1
    i1 = i1
    i2 = i2
    Users = {u1}
    TopupKeys = {k1}
    DebitKeys = {d1, d2}
    Orders = {o1}
    Events = {e1}
    Amounts = {4}
    MinTopup = 3
    AlertPrice = 2
    Topups = {q1}
    Hooks = {h1}
    Debits = {p1}
    Readers = {}
    Items = {i1}
    ItemOwner <- OneOwner
    Requests <- AnyKeyAnyItem
    None = None
    t1 = t1
    t2 = t2
    v1 = v1
    x1 = x1
    w1 = w1
    w2 = w2
    home = home
    away = away
    Tokens = {t1}
    People = {v1}
    TenantOf <- OneUniversity
    Home = home
    Workers = {w1}
    Attempts = 2
    MaxStalled = 1
    BatchSize = 1
    NoOne = NoOne
    Payments = {m1, m2}
    MaxMounts = 2
SPECIFICATION FairSuiteSpec
INVARIANT CooldownRespected
PROPERTIES
    ChargeLeadsToAlert
    FanoutEnds
    TopupEnds
\* Requests, orders and events are finite: when they are used up the system rests.
CHECK_DEADLOCK FALSE
