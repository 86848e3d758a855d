\* Two concurrent deliveries: the doc comment's no-op claim.
CONSTANTS
    Users = {u1}
    TopupKeys = {t1}
    DebitKeys = {d1, d2}
    Orders = {o1}
    Events = {e1, e2}
    Amounts = {2, 3}
    MinTopup = 3
    AlertPrice = 2
    Topups = {q1}
    Hooks = {h1, h2}
    Debits = {p1, p2}
    Readers = {}
    None = None
SPECIFICATION Spec
SYMMETRY Symmetry
PROPERTY DuplicateDeliveryIsNoOp
