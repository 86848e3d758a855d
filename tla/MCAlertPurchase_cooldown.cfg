\* Two purchases for one item under two keys.
CONSTANTS
    u1 = u1
    i1 = i1
    i2 = i2
    Users = {u1}
    TopupKeys = {t1}
    DebitKeys = {d1, d2}
    Orders = {o1}
    Events = {e1}
    Amounts = {4}
    MinTopup = 3
    AlertPrice = 2
    Topups = {q1}
    Hooks = {h1}
    Debits = {p1, p2}
    Readers = {}
    Items = {i1}
    ItemOwner <- OneOwner
    Requests <- AnyKeyAnyItem
    None = None
SPECIFICATION PurchaseSpec
INVARIANT CooldownRespected
\* Requests, orders and events are finite: when they are used up the system rests.
CHECK_DEADLOCK FALSE
