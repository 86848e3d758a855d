\* Two authorities decide three claims on two items at once; two students chat and report;
\* three students rent a listing out in four tabs.
CONSTANTS
    c1 = c1
    c2 = c2
    c3 = c3
    f1 = f1
    f2 = f2
    l1 = l1
    r1 = r1
    r2 = r2
    w1 = w1
    z1 = z1
    z2 = z2
    z3 = z3
    t1 = t1
    t4 = t4
    owner = owner
    renter = renter
    other = other
    Claims = {c1, c2, c3}
    FoundItems = {f1, f2}
    LostItems = {l1}
    FoundOf <- ItemsClaimed
    LostOf <- ItemsLost
    Decisions = {r1, r2}
    None = None
    Chatters = {z1, z2, z3}
    Chats = {w1}
    Participants <- ChatOfTwo
    CampusOf <- Campuses
    Messages = {r1, r2}
    Reports = {y1}
    Nowhere = Nowhere
    Tabs = {t1, z1, z2, t4}
    StudentOf <- TabOwners
    Listings = {g1}
    Bookings = {r1, r2, b3}
    Nobody = Nobody
SPECIFICATION SuiteSpec
SYMMETRY SuiteSymmetry
INVARIANTS
    SuiteTypeOK
    ClaimsAgree
    ChatIsKept
    RentalsAgree
CHECK_DEADLOCK FALSE
