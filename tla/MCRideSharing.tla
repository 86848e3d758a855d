--------------------------- MODULE MCRideSharing ---------------------------
(***************************************************************************)
(* A ride from request to review, its chat and its map, and the pages that *)
(* show rides, for TLC.  Each keeps the bookings it needs in variables of  *)
(* its own, so a behaviour is of one of them: the one in focus moves and   *)
(* the others stay where they start.                                       *)
(***************************************************************************)
EXTENDS MCRides, RideRooms, RideBoard

CONSTANTS o1, o2, v1, w1, w2, w3, driver

VARIABLE focus

\* One driver has the form open in two tabs.
SameDriver == o1 :> driver @@ o2 :> driver

\* The driver of o2 offers nothing and the other rows stay free.
OneRide == offer'[o2] = NoOffer /\ board'[w2] = NoRide /\ board'[w3] = NoRide

SingleSeats ==
    /\ \A r \in RideRows : board'[r].seats <= 1
    /\ \A t \in OfferTabs : offer'[t].seats <= 1

\* Two tabs offer, edit and cancel one-seat rides that nobody joins.
OfferFocus ==
    /\ OfferSteps \/ Update \/ SeatSteps
    /\ SingleSeats
    /\ \A r \in RideRows : board'[r].joined = {}
    /\ board'[w3] = NoRide

\* A visitor walks through the pages of a search while rides come and go.
WalkFocus ==
    /\ OfferSteps \/ Update \/ Search
    /\ SingleSeats
    /\ offer'[o2] = NoOffer

\* A visitor looks at one ride while others take its seats.
PageFocus ==
    /\ OfferSteps \/ Update \/ SeatSteps \/ PageSteps
    /\ board[w1] # NoRide => offer' = offer
    /\ OneRide
    /\ board'[w1].departs < 2

SuiteInit ==
    /\ focus \in {"ride", "chat", "map", "offer", "walk", "page"}
    /\ Init /\ RoomInit /\ BoardInit

SuiteNext ==
    /\ UNCHANGED focus
    /\ \/ focus = "ride" /\ Next /\ UNCHANGED <<roomVars, boardVars>>
       \/ focus = "chat" /\ (BookingSteps \/ ChatSteps) /\ UNCHANGED <<vars, boardVars>>
       \/ focus = "map" /\ (BookingSteps \/ MapSteps) /\ UNCHANGED <<vars, boardVars>>
       \/ focus = "offer" /\ OfferFocus /\ UNCHANGED <<vars, roomVars>>
       \/ focus = "walk" /\ WalkFocus /\ UNCHANGED <<vars, roomVars>>
       \/ focus = "page" /\ PageFocus /\ UNCHANGED <<vars, roomVars>>

SuiteVars == <<focus, vars, roomVars, boardVars>>

SuiteSpec == SuiteInit /\ [][SuiteNext]_SuiteVars

\* Every component keeps its rows, requests and pages in shape, in whatever order
\* the steps of concurrent requests come.
SuiteTypeOK == TypeOK /\ RoomTypeOK /\ BoardTypeOK
=============================================================================
