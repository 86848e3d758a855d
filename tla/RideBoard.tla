------------------------------ MODULE RideBoard ------------------------------
(***************************************************************************)
(* Offering, finding and booking rides: create, search, findById, update   *)
(* and findMine of apps/api/src/rides/rides.service.ts with the pages of   *)
(* apps/web/app/ride-sharing.  Rides has the life of one ride in detail;   *)
(* here its steps are whole, and there are several rides.                  *)
(*                                                                         *)
(* create looks for a similar ride and then inserts, without a lock or a   *)
(* unique index.  search sorts by departure time and takes a page; rides   *)
(* that depart together come in any order, another one at every query.     *)
(***************************************************************************)
EXTENDS Naturals, FiniteSets

CONSTANTS
    OfferTabs,    \* browser tabs with the offer page
    DriverOf,     \* the user of each
    Passengers,   \* users who book
    Visitor,      \* the one of them whose tab has the page of a ride
    RideRows,     \* rows that rides may take
    Routes,       \* pickup and destination
    Departures,   \* departure times
    Seats,        \* numbers of seats a driver may ask for
    RidesPerPage, \* pageSize
    NoRoute

ASSUME RideBoardAssumption ==
    /\ DOMAIN DriverOf = OfferTabs /\ Visitor \in Passengers
    /\ Departures \subseteq Nat \ {0} /\ Seats \subseteq Nat /\ RidesPerPage \in Nat \ {0}
    /\ IsFiniteSet(Passengers) /\ IsFiniteSet(RideRows) /\ NoRoute \notin RideRows

VARIABLES
    board,    \* rows of rides, with their bookings by status
    offer,    \* the offer page of each tab
    walk,     \* somebody's walk through the pages of search results
    detail,   \* the page of one ride, as the visitor's tab has it
    reload    \* whether that tab's query of the ride is invalid

boardVars == <<board, offer, walk, detail, reload>>

-----------------------------------------------------------------------------

Drivers == {DriverOf[t] : t \in OfferTabs}

BoardStatus == {"none", "UPCOMING", "COMPLETED", "CANCELLED"}

\* raced: another request of the same kind was past its check when this one was
\* written.  edited: a driver has updated the ride.  gone: who has left it.
BoardRide == [driver: Drivers \cup {NoRoute}, route: Routes \cup {NoRoute},
              departs: Departures \cup {0}, seats: Nat, status: BoardStatus,
              joined: SUBSET Passengers, travelled: SUBSET Passengers, off: SUBSET Passengers,
              gone: SUBSET Passengers, raced: BOOLEAN, edited: BOOLEAN]

NoRide == [driver |-> NoRoute, route |-> NoRoute, departs |-> 0, seats |-> 0, status |-> "none",
           joined |-> {}, travelled |-> {}, off |-> {},
           gone |-> {}, raced |-> FALSE, edited |-> FALSE]

\* The form's fields are the route, the departure and the seats; 0 is an empty one.
NoOffer == [pc |-> "form", route |-> NoRoute, departs |-> 0, seats |-> 0, raced |-> FALSE]

\* The ride, what the query has of it, and the join mutation, which is on its way
\* ("pending"), then decided ("joined", "refused") and at last answered.
NoDetail == [ride |-> NoRoute, status |-> "none", left |-> 0, join |-> "idle"]

BoardInit ==
    /\ board = [r \in RideRows |-> NoRide]
    /\ offer = [t \in OfferTabs |-> NoOffer]
    /\ walk = [page |-> 0, seen |-> {}, due |-> {}, moved |-> {}]
    /\ detail = NoDetail
    /\ reload = FALSE

Listed == {r \in RideRows : board[r].status # "none"}

-----------------------------------------------------------------------------
(* Offering *)

\* isValid of the offer page: every field filled in, and seats above zero.
OfferIsValid(f) == f.route # NoRoute /\ f.departs # 0 /\ f.seats > 0

FillIn(t, route, departs, seats) ==
    /\ offer[t].pc = "form"
    /\ offer' = [offer EXCEPT ![t].route = route, ![t].departs = departs, ![t].seats = seats]
    /\ offer' # offer
    /\ UNCHANGED <<board, walk, detail, reload>>

\* The rides findFirst looks for.
Similar(driver, f) ==
    {r \in Listed : /\ board[r].status = "UPCOMING"
                    /\ board[r].driver = driver
                    /\ board[r].route = f.route
                    /\ board[r].departs = f.departs}

\* Publish Ride: the button goes off, and no similar ride is found.
CheckOffer(t) ==
    /\ offer[t].pc = "form"
    /\ OfferIsValid(offer[t])
    /\ Similar(DriverOf[t], offer[t]) = {}
    /\ offer' = [offer EXCEPT ![t].pc = "checked"]
    /\ UNCHANGED <<board, walk, detail, reload>>

\* The other tabs that are past the check for the same ride.
Overtakes(t) ==
    {u \in OfferTabs \ {t} : /\ offer[u].pc = "checked"
                             /\ DriverOf[u] = DriverOf[t]
                             /\ offer[u].route = offer[t].route
                             /\ offer[u].departs = offer[t].departs}

\* The insert; on success the tab goes to the driver's rides.  The connection may
\* be lost, then the tab shows an error and its form again.
CreateRide(t, r) ==
    /\ offer[t].pc = "checked"
    /\ board[r] = NoRide
    /\ board' = [board EXCEPT ![r] =
          [NoRide EXCEPT !.driver = DriverOf[t], !.route = offer[t].route,
                         !.departs = offer[t].departs, !.seats = offer[t].seats,
                         !.status = "UPCOMING", !.raced = offer[t].raced]]
    /\ \E kept \in {NoOffer, [offer[t] EXCEPT !.pc = "form", !.raced = FALSE]} :
          offer' = [u \in OfferTabs |->
                       IF u = t THEN kept
                       ELSE IF u \in Overtakes(t) THEN [offer[u] EXCEPT !.raced = TRUE]
                       ELSE offer[u]]
    /\ UNCHANGED <<walk, detail, reload>>

-----------------------------------------------------------------------------
(* The life of a ride: Rides has it in detail *)

\* Every row of a ride counts, also those of bookings that are over.
Rows(b) == b.joined \cup b.travelled \cup b.off

\* Rides that a ride at one place in the order goes past when it moves to another.
PassedBy(from, to) ==
    {s \in Listed : board[s].departs \in (from .. to) \cup (to .. from)}

\* A driver's update of the departure, the route and the seats; no similar ride is
\* looked for.
UpdateRide(r, route, departs, seats) ==
    /\ board[r].status = "UPCOMING"
    /\ seats > 0 /\ seats >= Cardinality(Rows(board[r]))
    /\ board' = [board EXCEPT ![r].route = route, ![r].departs = departs, ![r].seats = seats,
                              ![r].edited = TRUE]
    /\ board' # board
    /\ walk' = IF departs = board[r].departs THEN walk
               ELSE [walk EXCEPT !.moved = @ \cup PassedBy(board[r].departs, departs)]
    /\ UNCHANGED <<offer, detail, reload>>

\* join
MayJoin(b, p) ==
    /\ b.status = "UPCOMING" /\ b.driver # p
    /\ p \notin Rows(b)
    /\ Cardinality(b.joined) < b.seats

JoinRide(r, p) ==
    /\ MayJoin(board[r], p)
    /\ board' = [board EXCEPT ![r].joined = @ \cup {p}]
    /\ UNCHANGED <<offer, walk, detail, reload>>

\* Variant: the booking is marked, not deleted.
Bug_LeaveRide(r, p) ==
    /\ board[r].status = "UPCOMING" /\ p \in board[r].joined
    /\ board' = [board EXCEPT ![r].joined = @ \ {p}, ![r].off = @ \cup {p}, ![r].gone = @ \cup {p}]
    /\ UNCHANGED <<offer, walk, detail, reload>>

\* leave deletes the row.
LeaveRide(r, p) ==
    /\ board[r].status = "UPCOMING" /\ p \in board[r].joined
    /\ board' = [board EXCEPT ![r].joined = @ \ {p}, ![r].gone = @ \cup {p}]
    /\ UNCHANGED <<offer, walk, detail, reload>>

\* completeRide: whoever has boarded has travelled.
CompleteRide(r, boarded) ==
    /\ board[r].status = "UPCOMING"
    /\ boarded \subseteq board[r].joined
    /\ board' = [board EXCEPT ![r].status = "COMPLETED", ![r].joined = {},
                              ![r].travelled = boarded, ![r].off = board[r].joined \ boarded]
    /\ UNCHANGED <<offer, walk, detail, reload>>

\* Variant: bookings of a cancelled ride are left as they are.
Bug_CancelRide(r) ==
    /\ board[r].status = "UPCOMING"
    /\ board' = [board EXCEPT ![r].status = "CANCELLED"]
    /\ UNCHANGED <<offer, walk, detail, reload>>

CancelRide(r) ==
    /\ board[r].status = "UPCOMING"
    /\ board' = [board EXCEPT ![r].status = "CANCELLED", ![r].joined = {}, ![r].off = board[r].joined]
    /\ UNCHANGED <<offer, walk, detail, reload>>

\* enrichRide: seats less the rows that were counted, never below zero.
SeatsLeft(b, counted) ==
    IF Cardinality(counted) > b.seats THEN 0 ELSE b.seats - Cardinality(counted)

\* findMine counts the bookings that are on, search and findById all rows.
SeatsLeftInMine(b) == SeatsLeft(b, b.joined)
SeatsLeftInSearch(b) == SeatsLeft(b, Rows(b))

-----------------------------------------------------------------------------
(* Searching *)

Before(r) == {s \in Listed : board[s].departs < board[r].departs}
Beside(r) == {s \in Listed : board[s].departs = board[r].departs} \ {r}

\* skip and take: the page that a ride with n others before it is on.
PageOf(n, page) == n \div RidesPerPage + 1 = page

\* Pages that the query may return: rides that depart together in any order.
SearchPages(page) ==
    {q \in SUBSET Listed :
        \E order \in [Listed -> 0..Cardinality(Listed)] :
            /\ \A r, s \in Listed : r # s => order[r] # order[s]
            /\ \A r \in Listed :
                  order[r] \in Cardinality(Before(r)) .. Cardinality(Before(r)) + Cardinality(Beside(r))
            /\ q = {r \in Listed : PageOf(order[r], page)}}

Search ==
    \E q \in SearchPages(walk.page + 1) :
        /\ walk.page > 0 => Cardinality(Listed) > walk.page * RidesPerPage
        /\ walk' = [page |-> walk.page + 1, seen |-> walk.seen \cup q,
                    due |-> IF walk.page = 0 THEN Listed ELSE walk.due,
                    moved |-> (IF walk.page = 0 THEN {} ELSE walk.moved)
                              \cup {r \in Listed : Beside(r) # {}}]
        /\ UNCHANGED <<board, offer, detail, reload>>

-----------------------------------------------------------------------------
(* The page of a ride *)

\* useRide: the query is fetched when the page opens and after a booking.
Fetch(r) ==
    /\ r \in Listed
    /\ detail.ride = NoRoute \/ (detail.ride = r /\ reload)
    /\ detail' = [ride |-> r, status |-> board[r].status, left |-> SeatsLeftInSearch(board[r]),
                  join |-> detail.join]
    /\ reload' = FALSE
    /\ UNCHANGED <<board, offer, walk>>

Close ==
    /\ detail # NoDetail
    /\ detail' = NoDetail
    /\ reload' = FALSE
    /\ UNCHANGED <<board, offer, walk>>

JoinPending == detail.join \in {"pending", "joined", "refused"}

\* canJoin and the button.
BookSeatOffered ==
    /\ detail.ride # NoRoute
    /\ detail.status = "UPCOMING" /\ detail.left > 0
    /\ ~JoinPending

BookSeat ==
    /\ BookSeatOffered
    /\ detail' = [detail EXCEPT !.join = "pending"]
    /\ UNCHANGED <<board, offer, walk, reload>>

\* The server decides.
DecideBooking ==
    LET r == detail.ride
        joins == MayJoin(board[r], Visitor)
    IN  /\ detail.join = "pending"
        /\ board' = IF joins THEN [board EXCEPT ![r].joined = @ \cup {Visitor}] ELSE board
        /\ detail' = [detail EXCEPT !.join = IF joins THEN "joined" ELSE "refused"]
        /\ UNCHANGED <<offer, walk, reload>>

\* What the mutation ends in: the answer to a booking may be lost.
JoinOutcomes == IF detail.join = "joined" THEN {"success", "error"} ELSE {"error"}

\* The answer; onSuccess invalidates the query of the ride, and no other.
BookingAnswer ==
    /\ detail.join \in {"joined", "refused"}
    /\ \E outcome \in JoinOutcomes :
          /\ detail' = [detail EXCEPT !.join = outcome]
          /\ reload' = (reload \/ outcome = "success")
    /\ UNCHANGED <<board, offer, walk>>

\* The button's text: no seats before anything else, so that whoever books the
\* last one reads that there is none.
Label ==
    IF ~(detail.status = "UPCOMING" /\ detail.left > 0) THEN "Seats Full"
    ELSE IF JoinPending THEN "Booking..."
    ELSE IF detail.join = "success" THEN "Seat Booked" ELSE "Book Seat"

-----------------------------------------------------------------------------

OfferSteps ==
    \E t \in OfferTabs :
        \/ \E route \in Routes, departs \in Departures, seats \in Seats : FillIn(t, route, departs, seats)
        \/ CheckOffer(t)
        \/ \E r \in RideRows : CreateRide(t, r)

Update ==
    \E r \in Listed, route \in Routes, departs \in Departures, seats \in Seats :
        UpdateRide(r, route, departs, seats)

SeatSteps ==
    \E r \in Listed :
        \/ \E p \in Passengers : JoinRide(r, p) \/ LeaveRide(r, p)
        \/ \E boarded \in SUBSET Passengers : CompleteRide(r, boarded)
        \/ CancelRide(r)

PageSteps ==
    \/ \E r \in RideRows : Fetch(r)
    \/ BookSeat
    \/ DecideBooking
    \/ BookingAnswer
    \/ Close

BoardNext == OfferSteps \/ Update \/ SeatSteps \/ Search \/ PageSteps

BoardSpec == BoardInit /\ [][BoardNext]_boardVars

-----------------------------------------------------------------------------

\* Rows have their types, and a passenger's row of a ride has one status, which is
\* over when the ride is.
BoardTypeOK ==
    /\ board \in [RideRows -> BoardRide]
    /\ \A r \in Listed :
          /\ board[r].travelled \cap (board[r].joined \cup board[r].off) = {}
          /\ board[r].status # "UPCOMING" => board[r].joined = {}
    /\ \A t \in OfferTabs : offer[t].pc \in {"form", "checked"}
    /\ walk.seen \cup walk.due \cup walk.moved \subseteq Listed
    /\ detail.ride \in Listed \cup {NoRoute} /\ detail.left \in Nat /\ reload \in BOOLEAN

\* "A similar ride already exists": a driver has two upcoming rides of the same
\* route and departure only when a request for the second was past its check
\* before the first was written, or when an update made one of them so.
TwinsRacedOrEdited ==
    \A r, s \in Listed :
        /\ r # s
        /\ board[r].status = "UPCOMING" /\ board[s].status = "UPCOMING"
        /\ board[r].driver = board[s].driver
        /\ board[r].route = board[s].route /\ board[r].departs = board[s].departs
        => \E q \in {r, s} : board[q].raced \/ board[q].edited

\* findMine counts the bookings that are on and search counts all rows: for a ride
\* that can still be booked, the driver's list and the search results show the
\* same number of seats.
SeatsShownAgree ==
    \A r \in Listed :
        board[r].status = "UPCOMING" => SeatsLeftInMine(board[r]) = SeatsLeftInSearch(board[r])

\* Whoever asks for one page of search results after the other until all are seen
\* misses a ride of the first page's time only if it departs together with
\* another one, or if an update moved it, or another one past it.
MissedWasMovedOrTied ==
    walk.page > 0 /\ walk.page * RidesPerPage >= Cardinality(Listed)
        => walk.due \ walk.seen \subseteq walk.moved

\* The page says "Seat Booked" to a visitor who has, or has given up, a booking.
SeatBookedIsBooked ==
    Label = "Seat Booked" => Visitor \in Rows(board[detail.ride]) \cup board[detail.ride].gone

\* What the pages show of rides agrees with the rides, but for named races
\* (rides.service.ts and the rides pages).
BoardFollowsTheRides ==
    /\ TwinsRacedOrEdited
    /\ SeatsShownAgree
    /\ MissedWasMovedOrTied
    /\ SeatBookedIsBooked

=============================================================================
