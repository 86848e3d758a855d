\* Two users, two of every request: the ledger's promises under every interleaving.
CONSTANTS
    Users = {u1, u2}
    TopupKeys = {t1}
    DebitKeys = {d1, d2}
    Orders = {o1}
    Events = {e1, e2}
    Amounts = {2, 3, 4}
    MinTopup = 3
    AlertPrice = 2
    Topups = {q1, q2}
    Hooks = {h1, h2}
    Debits = {p1, p2}
    Readers = {}
    None = None
SPECIFICATION Spec
SYMMETRY Symmetry
INVARIANTS
    TypeOK
    LedgerNeverNegative
    PaymentHasEntry
PROPERTY ImplementsIdealWallet
