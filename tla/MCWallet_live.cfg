\* Lost and failed deliveries, racing reconciliation: what happens in the end.
CONSTANTS
    Users = {u1}
    TopupKeys = {t1}
    DebitKeys = {d1}
    Orders = {o1}
    Events = {e1, e2}
    Amounts = {3}
    MinTopup = 3
    AlertPrice = 2
    Topups = {q1}
    Hooks = {h1, h2}
    Debits = {p1}
    Readers = {g1}
    None = None
SPECIFICATION FairSpec
PROPERTIES
    PaymentIsCredited
    CacheConverges
