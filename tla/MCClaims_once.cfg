\* A second claim is approved after the first was settled.
CONSTANTS
    c1 = c1
    c2 = c2
    c3 = c3
    f1 = f1
    f2 = f2
    l1 = l1
    Claims = {c1, c2, c3}
    FoundItems = {f1, f2}
    LostItems = {l1}
    FoundOf <- ItemsClaimed
    LostOf <- ItemsLost
    Decisions = {r1, r2}
    None = None
SPECIFICATION Spec
SYMMETRY Symmetry
INVARIANT OneEverApproved
