\* Two students and a driver; two riders in the chat or on the map, one message of history;
\* three rides, one search page of one ride.
CONSTANTS
    o1 = o1
    o2 = o2
    v1 = v1
    w1 = w1
    w2 = w2
    w3 = w3
    driver = driver
    Students = {s1, s2}
    Codes = {c1, c2}
    InitialSeats = 1
    SeatChanges = {2}
    MaxAttempts = 2
    Requests = {r1, r2}
    None = None
    Riders = {s1, s2}
    Driver = driver
    HistorySize = 1
    MaxTalk = 2
    OfferTabs = {o1, o2}
    DriverOf <- SameDriver
    Passengers = {v1, v2}
    Visitor = v1
    RideRows = {w1, w2, w3}
    Routes = {g}
    Departures = {1, 2}
    Seats = {1, 2}
    RidesPerPage = 1
    NoRoute = NoRoute
SPECIFICATION SuiteSpec
SYMMETRY Symmetry
INVARIANTS
    SuiteTypeOK
    EndedRideIsSettled
    BoardingIsVerified
    NotOverbooked
    RoomsServeTheRide
    BoardFollowsTheRides
\* A ride that is over stops.
CHECK_DEADLOCK FALSE
