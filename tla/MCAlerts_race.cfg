\* Two purchases with any keys for any items race each other, the top-up and crashes; two
\* workers send an alert to two devices one at a time; two top-ups on two visits.
CONSTANTS
    u1 = u1
    i1 = i1
    i2 = i2
    Users = {u1}
    TopupKeys = {k1}
    DebitKeys = {d1, d2}
    Orders = {o1}
    Events = {e1}
    Amounts = {4}
    MinTopup = 3
    AlertPrice = 2
    Topups = {q1}
    Hooks = {h1}
    Debits = {p1, p2}
    Readers = {}
    Items = {i1, i2}
    ItemOwner <- OneOwner
    Requests <- AnyKeyAnyItem
    None = None
    t1 = t1
    t2 = t2
    v1 = v1
    x1 = x1
    w1 = w1
    w2 = w2
    home = home
    away = away
    Tokens = {t1, t2}
    People = {v1, x1}
    TenantOf <- Universities
    Home = home
    Workers = {w1, w2}
    Attempts = 2
    MaxStalled = 1
    BatchSize = 1
    NoOne = NoOne
    Payments = {m1, m2}
    MaxMounts = 2
SPECIFICATION SuiteSpec
SYMMETRY Symmetry
INVARIANTS
    SuiteTypeOK
    AlertPaid
    CacheTracksLedger
    OutcomeIsRecorded
    PushesAreJustified
    PanelIsTruthful
PROPERTY ImplementsWallet
\* Requests, orders and events are finite: when they are used up the system rests.
CHECK_DEADLOCK FALSE
