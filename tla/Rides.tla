------------------------------- MODULE Rides -------------------------------
(***************************************************************************)
(* One shared ride of apps/api/src/rides/rides.service.ts: its bookings,   *)
(* boarding by one-time code, the driver's start, complete and cancel, and *)
(* reviews.                                                                *)
(*                                                                         *)
(* join locks the ride row, so it is one action.  Every other handler      *)
(* checks what it read and then writes by id without a condition: two      *)
(* actions, and a request slot remembers what the checks decided.          *)
(* completeRide and cancelRide write in a transaction that first takes the *)
(* ride row; what commits between their statements could as well commit    *)
(* before or after, so the write is one action.                            *)
(***************************************************************************)
EXTENDS Naturals, FiniteSets

CONSTANTS
    Students,     \* students who may book; the driver is not one of them
    Codes,        \* boarding codes
    InitialSeats, \* availableSeats the ride is offered with
    SeatChanges,  \* values an update may set availableSeats to
    MaxAttempts,  \* RIDE_OTP_MAX_ATTEMPTS
    Requests,     \* slots for requests in flight
    None

ASSUME RidesAssumption ==
    /\ InitialSeats \in Nat \ {0}
    /\ SeatChanges \subseteq Nat \ {0}
    /\ MaxAttempts \in Nat \ {0}
    /\ None \notin Students \cup Codes
    /\ IsFiniteSet(Students)
    /\ IsFiniteSet(Requests)

VARIABLES
    ride,      \* the Ride row
    booking,   \* the RidePassenger row of each student, or NoBooking
    reviews,   \* RideReview rows: who wrote it and the passenger it is about
    request    \* requests in flight

vars == <<ride, booking, reviews, request>>

-----------------------------------------------------------------------------

RideStatus == {"UPCOMING", "IN_PROGRESS", "COMPLETED", "CANCELLED"}
BookingStatus == {"JOINED", "BOARDED", "COMPLETED", "CANCELLED"}

Ended == {"COMPLETED", "CANCELLED"}

\* otpExpiresAt is kept as whether it has passed.
Booking == [status: BookingStatus \cup {"NONE"}, otp: Codes \cup {None}, expired: BOOLEAN,
            attempts: Nat, verified: BOOLEAN]

NoBooking == [status |-> "NONE", otp |-> None, expired |-> FALSE, attempts |-> 0, verified |-> FALSE]
NewBooking == [NoBooking EXCEPT !.status = "JOINED"]

Request == [pc: {"idle", "leave", "delete", "update", "otp", "wrong", "board", "start",
                 "complete", "cancel", "review_passenger", "review_driver"},
            student: Students \cup {None}, seats: Nat]

Idle == [pc |-> "idle", student |-> None, seats |-> 0]

Init ==
    /\ ride = [status |-> "UPCOMING", seats |-> InitialSeats]
    /\ booking = [s \in Students |-> NoBooking]
    /\ reviews = {}
    /\ request = [r \in Requests |-> Idle]

\* An idle slot takes a request past its checks.
Accept(r, pc, s, n) ==
    /\ request[r].pc = "idle"
    /\ request' = [request EXCEPT ![r] = [pc |-> pc, student |-> s, seats |-> n]]
    /\ UNCHANGED <<ride, booking, reviews>>

Done(r, pc) ==
    /\ request[r].pc = pc
    /\ request' = [request EXCEPT ![r] = Idle]

Booked == {s \in Students : booking[s].status # "NONE"}

\* Variant: passengers who have boarded no longer count.
Bug_Active(s) == booking[s].status = "JOINED"

Active(s) == booking[s].status \in {"JOINED", "BOARDED"}

-----------------------------------------------------------------------------
(* join and leave *)

\* Variant: the status of the ride is not checked under the lock.
Bug_Join(s) ==
    /\ s \notin Booked
    /\ Cardinality({t \in Students : Active(t)}) < ride.seats
    /\ booking' = [booking EXCEPT ![s] = NewBooking]
    /\ UNCHANGED <<ride, reviews, request>>

Join(s) ==
    /\ ride.status = "UPCOMING"
    /\ s \notin Booked
    /\ Cardinality({t \in Students : Active(t)}) < ride.seats
    /\ booking' = [booking EXCEPT ![s] = NewBooking]
    /\ UNCHANGED <<ride, reviews, request>>

LeaveReadRide(r, s) == ride.status = "UPCOMING" /\ Accept(r, "leave", s, 0)

LeaveReadBooking(r) ==
    /\ request[r].pc = "leave"
    /\ booking[request[r].student].status = "JOINED"
    /\ request' = [request EXCEPT ![r].pc = "delete"]
    /\ UNCHANGED <<ride, booking, reviews>>

\* A row that is gone by now is an error (RequestFail), as in every write by id.
LeaveDelete(r) ==
    /\ Done(r, "delete")
    /\ request[r].student \in Booked
    /\ booking' = [booking EXCEPT ![request[r].student] = NoBooking]
    /\ UNCHANGED <<ride, reviews>>

-----------------------------------------------------------------------------
(* update of availableSeats; the other fields are not modelled *)

UpdateRead(r, n) ==
    /\ ride.status = "UPCOMING"
    /\ n >= Cardinality(Booked)
    /\ Accept(r, "update", None, n)

UpdateWrite(r) ==
    /\ Done(r, "update")
    /\ ride' = [ride EXCEPT !.seats = request[r].seats]
    /\ UNCHANGED <<booking, reviews>>

-----------------------------------------------------------------------------
(* generateOtp and verifyOtp *)

GenerateOtpRead(r) ==
    /\ ride.status \in {"UPCOMING", "IN_PROGRESS"}
    /\ Accept(r, "otp", None, 0)

GenerateOtpWrite(r) ==
    /\ Done(r, "otp")
    /\ \E c \in Codes :
          booking' = [s \in Students |->
              IF booking[s].status = "JOINED" THEN [NewBooking EXCEPT !.otp = c] ELSE booking[s]]
    /\ UNCHANGED <<ride, reviews>>

\* RIDE_OTP_TTL_MINUTES have passed for a booking.
OtpExpires(s) ==
    /\ booking[s].otp # None
    /\ ~booking[s].expired
    /\ booking' = [booking EXCEPT ![s].expired = TRUE]
    /\ UNCHANGED <<ride, reviews, request>>

MayTry(s) == booking[s].attempts < MaxAttempts

VerifyRead(r, s, c) ==
    /\ ride.status \in {"UPCOMING", "IN_PROGRESS"}
    /\ booking[s].status = "JOINED"
    /\ booking[s].otp # None
    /\ ~booking[s].expired
    /\ MayTry(s)
    /\ Accept(r, IF c = booking[s].otp THEN "board" ELSE "wrong", s, 0)

VerifyWrong(r) ==
    /\ Done(r, "wrong")
    /\ request[r].student \in Booked
    /\ booking' = [booking EXCEPT ![request[r].student].attempts = @ + 1]
    /\ UNCHANGED <<ride, reviews>>

VerifyBoard(r) ==
    /\ Done(r, "board")
    /\ request[r].student \in Booked
    /\ booking' = [booking EXCEPT ![request[r].student] =
                      [status |-> "BOARDED", otp |-> None, expired |-> FALSE,
                       attempts |-> 0, verified |-> TRUE]]
    /\ UNCHANGED <<ride, reviews>>

-----------------------------------------------------------------------------
(* startRide, completeRide and cancelRide *)

StartRead(r) == ride.status = "UPCOMING" /\ Accept(r, "start", None, 0)

StartWrite(r) ==
    /\ Done(r, "start")
    /\ ride' = [ride EXCEPT !.status = "IN_PROGRESS"]
    /\ UNCHANGED <<booking, reviews>>

CompleteRead(r) == ride.status = "IN_PROGRESS" /\ Accept(r, "complete", None, 0)

\* Variant: whoever has not boarded travelled as well.
Bug_AtArrival(b) ==
    IF b.status \in {"JOINED", "BOARDED"} THEN [b EXCEPT !.status = "COMPLETED", !.otp = None] ELSE b

\* Who boarded has travelled, who waited has not.
AtArrival(b) ==
    IF b.status = "BOARDED" THEN [b EXCEPT !.status = "COMPLETED", !.otp = None]
    ELSE IF b.status = "JOINED" THEN [b EXCEPT !.status = "CANCELLED", !.otp = None]
    ELSE b

CompleteWrite(r) ==
    /\ Done(r, "complete")
    /\ ride' = [ride EXCEPT !.status = "COMPLETED"]
    /\ booking' = [s \in Students |-> AtArrival(booking[s])]
    /\ UNCHANGED reviews

CancelRead(r) == ride.status \in {"UPCOMING", "IN_PROGRESS"} /\ Accept(r, "cancel", None, 0)

CancelWrite(r) ==
    /\ Done(r, "cancel")
    /\ ride' = [ride EXCEPT !.status = "CANCELLED"]
    /\ booking' = [s \in Students |->
          IF Active(s) THEN [booking[s] EXCEPT !.status = "CANCELLED", !.otp = None] ELSE booking[s]]
    /\ UNCHANGED reviews

-----------------------------------------------------------------------------
(* createReview *)

Travelled(s) == booking[s].status \in {"BOARDED", "COMPLETED"}

\* The driver reviews a passenger, or a passenger the driver.
ReviewRead(r, s) ==
    /\ ride.status = "COMPLETED"
    /\ Travelled(s)
    /\ \E pc \in {"review_passenger", "review_driver"} : Accept(r, pc, s, 0)

ReviewCreate(r) ==
    \E pc \in {"review_passenger", "review_driver"} :
        /\ Done(r, pc)
        /\ <<pc, request[r].student>> \notin reviews
        /\ reviews' = reviews \cup {<<pc, request[r].student>>}
        /\ UNCHANGED <<ride, booking>>

-----------------------------------------------------------------------------

\* A write finds its row gone or taken, an await rejects, or the process dies.
RequestFail(r) ==
    /\ request[r].pc # "idle"
    /\ request' = [request EXCEPT ![r] = Idle]
    /\ UNCHANGED <<ride, booking, reviews>>

PassengerNext ==
    \E s \in Students :
        \/ Join(s)
        \/ OtpExpires(s)
        \/ \E r \in Requests :
              \/ LeaveReadRide(r, s)
              \/ ReviewRead(r, s)
              \/ \E c \in Codes : VerifyRead(r, s, c)

DriverNext ==
    \E r \in Requests :
        \/ \E n \in SeatChanges : UpdateRead(r, n)
        \/ GenerateOtpRead(r)
        \/ StartRead(r)
        \/ CompleteRead(r)
        \/ CancelRead(r)

WriteNext ==
    \E r \in Requests :
        \/ LeaveReadBooking(r)
        \/ LeaveDelete(r)
        \/ UpdateWrite(r)
        \/ GenerateOtpWrite(r)
        \/ VerifyWrong(r)
        \/ VerifyBoard(r)
        \/ StartWrite(r)
        \/ CompleteWrite(r)
        \/ CancelWrite(r)
        \/ ReviewCreate(r)
        \/ RequestFail(r)

Next == PassengerNext \/ DriverNext \/ WriteNext

Spec == Init /\ [][Next]_vars

-----------------------------------------------------------------------------
(* Properties *)

\* Rows have the shape of schema.prisma's models; a booking that does not exist
\* carries nothing, and the wrong guesses counted on one never exceed the limit
\* by more than the requests that were in flight together.
TypeOK ==
    /\ ride \in [status: RideStatus, seats: Nat \ {0}]
    /\ booking \in [Students -> Booking]
    /\ \A s \in Students :
          /\ booking[s].status = "NONE" => booking[s] = NoBooking
          /\ booking[s].attempts < MaxAttempts + Cardinality(Requests)
    /\ reviews \subseteq {"review_passenger", "review_driver"} \X Students
    /\ request \in [Requests -> Request]

\* join never overbooks a ride, whatever else is in flight, as long as the
\* driver only adds seats.
NotOverbooked ==
    Cardinality({s \in Students : booking[s].status \in {"JOINED", "BOARDED"}}) <= ride.seats

\* Nobody is left waiting for a ride that is over: no join slips in behind a
\* completion or cancellation, even one decided on a stale read.
NobodyWaitsForAnEndedRide ==
    ride.status \in Ended => \A s \in Students : booking[s].status # "JOINED"

\* A student is recorded as having travelled only after entering a code the
\* driver generated, through any race of boarding, new codes and arrival.
TravelledWasVerified ==
    \A s \in Students : booking[s].status \in {"BOARDED", "COMPLETED"} => booking[s].verified

\* All waiting passengers that have a code have the same one: the driver shares
\* one code at boarding, whatever order codes, joins and leaves came in.
OneCodeAtBoarding ==
    \A s, t \in Students :
        /\ booking[s].status = "JOINED" /\ booking[s].otp # None
        /\ booking[t].status = "JOINED" /\ booking[t].otp # None
        => booking[s].otp = booking[t].otp

\* Boarding is by a verified code, and those who wait have one code between them
\* (rides.service.ts, the codes and their verification).
BoardingIsVerified ==
    /\ TravelledWasVerified
    /\ OneCodeAtBoarding

\* A review is about a student who verified a code on this ride; the booking
\* may since have been removed by a leave that was decided before boarding.
ReviewsAreOfTravellers ==
    \A v \in reviews : booking[v[2]].verified \/ booking[v[2]].status = "NONE"

\* A ride that is over leaves nobody waiting, and no review about a booking that
\* was not verified (rides.service.ts, complete, cancel and the reviews).
EndedRideIsSettled ==
    /\ NobodyWaitsForAnEndedRide
    /\ ReviewsAreOfTravellers

\* Only an upcoming ride is started.
StartsFromUpcoming ==
    [][ride'.status = "IN_PROGRESS" /\ ride.status # "IN_PROGRESS" => ride.status = "UPCOMING"]_vars

=============================================================================
