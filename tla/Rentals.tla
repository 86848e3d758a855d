------------------------------ MODULE Rentals ------------------------------
(***************************************************************************)
(* Clothes rental: apps/api/src/rentals and the pages of                   *)
(* apps/web/app/clothes-rental.                                            *)
(*                                                                         *)
(* Students act through browser tabs, each with its own copy of what the   *)
(* server answered last; a button is there for what the copy says, however *)
(* old it is.  RentalBookingsService.create takes the listing with a       *)
(* conditional update and is one step.  markReturned reads the booking and *)
(* writes two rows without looking again, in a transaction of the default  *)
(* isolation level: two steps.                                             *)
(***************************************************************************)
EXTENDS Naturals, FiniteSets

CONSTANTS
    Tabs,      \* open browser tabs
    StudentOf, \* who is signed in in each tab
    Listings,  \* rows that rentals may take
    Bookings,  \* rows that bookings may take
    Nobody

ASSUME RentalsAssumption ==
    /\ DOMAIN StudentOf = Tabs
    /\ Nobody \notin Tabs \cup Listings \cup Bookings
    /\ \A t \in Tabs : StudentOf[t] # Nobody

VARIABLES
    listing,  \* rows of rentals
    booking,  \* rows of rental_bookings
    shown,    \* what each tab's pages show
    giving,   \* the booking each tab's return has read and not yet written
    hidden,   \* history: listings whose owner switched them off last
    reopened  \* history: listings made available while they were rented,
              \* until they are rented when nobody else has them

rentalVars == <<listing, booking, shown, giving, hidden, reopened>>

-----------------------------------------------------------------------------

RentalStudents == {StudentOf[t] : t \in Tabs}

Listing == [listed: BOOLEAN, available: BOOLEAN, owner: RentalStudents \cup {Nobody}]

\* CANCELLED is never assigned; GONE is a row that went with its listing.
Booking == [status: {"NONE", "ACTIVE", "COMPLETED", "GONE"},
            listing: Listings \cup {Nobody}, renter: RentalStudents \cup {Nobody}]

\* The answers of GET /rentals and GET /rental-bookings/mine a tab still holds.
Shown == [available: SUBSET Listings, unavailable: SUBSET Listings, active: SUBSET Bookings]

NoListing == [listed |-> FALSE, available |-> FALSE, owner |-> Nobody]

NoBooking == [status |-> "NONE", listing |-> Nobody, renter |-> Nobody]

ActiveBookings == {b \in Bookings : booking[b].status = "ACTIVE"}

ActiveOf(l) == {b \in ActiveBookings : booking[b].listing = l}

RentalInit ==
    /\ listing = [l \in Listings |-> NoListing]
    /\ booking = [b \in Bookings |-> NoBooking]
    /\ shown = [t \in Tabs |-> [available |-> {}, unavailable |-> {}, active |-> {}]]
    /\ giving = [t \in Tabs |-> Nobody]
    /\ hidden = {}
    /\ reopened = {}

-----------------------------------------------------------------------------
(* The pages *)

\* GET /rentals: the listings that are available are not told from the others.
FindAll == {l \in Listings : listing[l].listed}

\* GET /rental-bookings/mine
FindMine(student) == {b \in Bookings : booking[b].renter = student /\ booking[b].status # "GONE"}

\* A page that is opened, focused or invalidated asks again, and what it gets
\* replaces what it showed; each listing is shown with a badge for its availability.
Fetch(t) ==
    /\ shown' = [shown EXCEPT ![t] =
          [available |-> {l \in FindAll : listing[l].available},
           unavailable |-> {l \in FindAll : ~listing[l].available},
           active |-> {b \in FindMine(StudentOf[t]) : booking[b].status = "ACTIVE"}]]
    /\ shown' # shown
    /\ UNCHANGED <<listing, booking, giving, hidden, reopened>>

\* The list-item form lets any positive number through.
FormAccepts(price) == price \in {"whole", "fraction"}

\* The server takes whole numbers from one.
DtoAccepts(price) == price = "whole"

\* "Rent Now" on the listing's page.
RentNowOffered(t, l) == l \in shown[t].available

\* "Mark as returned" on My Rentals, disabled while a return is pending.
ReturnOffered(t, b) == b \in shown[t].active /\ giving[t] = Nobody

\* My Listings: the switch sets the opposite of what the page shows, and a
\* listing that is rented is switched like one that was switched off.
SwitchOffered(t, l, on) ==
    /\ listing[l].owner = StudentOf[t]
    /\ l \in IF on THEN shown[t].unavailable ELSE shown[t].available

DeleteOffered(t, l) ==
    /\ listing[l].owner = StudentOf[t]
    /\ l \in shown[t].available \cup shown[t].unavailable

-----------------------------------------------------------------------------
(* RentalsService *)

\* create: a form the server refuses changes nothing and takes no step.
Publish(t, l, price) ==
    /\ FormAccepts(price)
    /\ DtoAccepts(price)
    /\ listing[l] = NoListing
    /\ listing' = [listing EXCEPT ![l] =
                      [listed |-> TRUE, available |-> TRUE, owner |-> StudentOf[t]]]
    /\ UNCHANGED <<booking, shown, giving, hidden, reopened>>

\* update: findOwned looks at owner and university, never at bookings.
Switch(t, l, on) ==
    /\ SwitchOffered(t, l, on)
    /\ listing[l].listed
    /\ listing' = [listing EXCEPT ![l].available = on]
    /\ hidden' = IF on THEN hidden \ {l} ELSE hidden \cup {l}
    /\ reopened' = IF on /\ ActiveOf(l) # {} THEN reopened \cup {l} ELSE reopened
    /\ UNCHANGED <<booking, shown, giving>>

\* remove: the bookings go with the listing, those of a present renter too.
Remove(t, l) ==
    /\ DeleteOffered(t, l)
    /\ listing[l].listed
    /\ listing' = [listing EXCEPT ![l].listed = FALSE, ![l].available = FALSE]
    /\ booking' = [b \in Bookings |->
          IF booking[b].listing = l THEN [booking[b] EXCEPT !.status = "GONE"] ELSE booking[b]]
    /\ UNCHANGED <<shown, giving, hidden, reopened>>

-----------------------------------------------------------------------------
(* RentalBookingsService *)

\* The condition of the updateMany that takes the listing.
Claimable(t, l) == listing[l].listed /\ listing[l].available

\* Variant: the owner may rent what is theirs.
Bug_MayRent(t, l) == TRUE

\* "You cannot rent your own listing".
MayRent(t, l) == listing[l].owner # StudentOf[t]

\* create
Book(t, l, b) ==
    /\ RentNowOffered(t, l)
    /\ MayRent(t, l)
    /\ Claimable(t, l)
    /\ booking[b] = NoBooking
    /\ listing' = [listing EXCEPT ![l].available = FALSE]
    /\ booking' = [booking EXCEPT ![b] =
                      [status |-> "ACTIVE", listing |-> l, renter |-> StudentOf[t]]]
    /\ hidden' = hidden \ {l}
    /\ reopened' = IF ActiveOf(l) = {} THEN reopened \ {l} ELSE reopened
    /\ UNCHANGED <<shown, giving>>

\* markReturned, up to the check that the booking is active.
ReturnRead(t, b) ==
    /\ ReturnOffered(t, b)
    /\ booking[b].renter = StudentOf[t]
    /\ booking[b].status = "ACTIVE"
    /\ giving' = [giving EXCEPT ![t] = b]
    /\ UNCHANGED <<listing, booking, shown, hidden, reopened>>

\* Variant: the listing is not freed.
Bug_Freed(l) == listing[l].available

\* The listing's availability once a booking was returned.
Freed(l) == TRUE

\* The two updates, which name the rows by id only.
ReturnWrite(t) ==
    LET b == giving[t]
        l == booking[b].listing
    IN  /\ giving[t] # Nobody
        /\ booking[b].status # "GONE"
        /\ booking' = [booking EXCEPT ![b].status = "COMPLETED"]
        /\ listing' = [listing EXCEPT ![l].available = Freed(l)]
        /\ giving' = [giving EXCEPT ![t] = Nobody]
        /\ hidden' = hidden \ {l}
        /\ reopened' = IF ActiveOf(l) \ {b} # {} THEN reopened \cup {l} ELSE reopened
        /\ UNCHANGED shown

\* The rows are gone, or the process dies before it commits.
ReturnFails(t) ==
    /\ giving[t] # Nobody
    /\ giving' = [giving EXCEPT ![t] = Nobody]
    /\ UNCHANGED <<listing, booking, shown, hidden, reopened>>

-----------------------------------------------------------------------------

OwnerNext ==
    \E t \in Tabs, l \in Listings :
        \/ \E price \in {"zero", "fraction", "whole"} : Publish(t, l, price)
        \/ \E on \in BOOLEAN : Switch(t, l, on)
        \/ Remove(t, l)

RenterNext ==
    \E t \in Tabs :
        \/ Fetch(t)
        \/ \E l \in Listings, b \in Bookings : Book(t, l, b)
        \/ \E b \in Bookings : ReturnRead(t, b)
        \/ ReturnWrite(t)
        \/ ReturnFails(t)

RentalNext == OwnerNext \/ RenterNext

RentalSpec == RentalInit /\ [][RentalNext]_rentalVars

-----------------------------------------------------------------------------
(* Properties *)

\* Rows keep their shape.
RentalTypeOK ==
    /\ listing \in [Listings -> Listing]
    /\ booking \in [Bookings -> Booking]
    /\ \A b \in ActiveBookings : booking[b].renter # listing[booking[b].listing].owner
    /\ shown \in [Tabs -> Shown]
    /\ giving \in [Tabs -> Bookings \cup {Nobody}]
    /\ hidden \subseteq Listings
    /\ reopened \subseteq Listings

\* Bookings alone never overlap: when two are active for one listing, somebody
\* made it available while it was rented - the owner on My Listings, or the
\* second of two concurrent returns of an earlier booking.
OverlapNeedsReopening ==
    \A b, c \in Bookings :
        /\ booking[b].status = "ACTIVE"
        /\ booking[c].status = "ACTIVE"
        /\ booking[b].listing = booking[c].listing
        => b = c \/ booking[b].listing \in reopened

\* A listing that cannot be rented is rented, or its owner switched it off: no
\* order of bookings, returns and failures leaves it unavailable for good.
UnavailableHasAReason ==
    \A l \in Listings :
        listing[l].listed /\ ~listing[l].available => l \in hidden \/ ActiveOf(l) # {}

\* An active booking is of a listing that is still there, whatever was deleted
\* while a tab showed it or a return was under way.
ActiveBookingHasListing ==
    \A b \in Bookings :
        booking[b].status = "ACTIVE" => listing[booking[b].listing].listed

\* A listing and its bookings agree, but for a listing that was reopened while it was
\* rented (rentals.service.ts, rental-bookings.service.ts).
RentalsAgree ==
    /\ OverlapNeedsReopening
    /\ UnavailableHasAReason
    /\ ActiveBookingHasListing

=============================================================================
