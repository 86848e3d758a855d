SPECIFICATION Spec
CONSTANTS
    Students = {s1}
    Codes = {c1, c2}
    InitialSeats = 1
    SeatChanges = {}
    MaxAttempts = 1
    Requests = {r1, r2}
    None = None
SYMMETRY Symmetry
PROPERTY StartsFromUpcoming
\* A ride that is over stops.
CHECK_DEADLOCK FALSE
