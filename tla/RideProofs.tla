----------------------------- MODULE RideProofs -----------------------------
(***************************************************************************)
(* Rides, their rooms and the pages that list them, for any number of      *)
(* students, requests, messages and rides.                                 *)
(*                                                                         *)
(* A ride that has ended keeps nobody waiting because what a request in    *)
(* flight remembers of the ride is checked again by what it writes. That   *)
(* nothing falls between the history of a chat and its room holds because  *)
(* a socket is in the room before its history is read: RoomReaches says    *)
(* what the room alone gives, from the moment of joining, and SendHistory  *)
(* adds what was there before. A walk through the list misses nothing      *)
(* because whoever has not been seen has a page of earlier rides before it *)
(* for every page that was read.                                           *)
(***************************************************************************)
EXTENDS MCRideSharing, FiniteSetTheorems, TLAPS

-----------------------------------------------------------------------------
(* One ride, its bookings and the requests in flight *)

Reviewing == {"review_passenger", "review_driver"}

\* Wrong guesses at a student's code that are about to be counted.
Guessing(s) == {r \in Requests : request[r].pc = "wrong" /\ request[r].student = s}

RideShape ==
    /\ ride \in [status: RideStatus, seats: Nat \ {0}]
    /\ booking \in [Students -> Booking]
    /\ reviews \subseteq Reviewing \X Students
    /\ request \in [Requests -> Request]

\* A request in flight remembers whose it is; a review is of somebody who travelled.
RequestsInv ==
    \A r \in Requests :
        /\ request[r].pc \in {"leave", "delete", "wrong", "board"} \cup Reviewing =>
              request[r].student \in Students
        /\ request[r].pc \in Reviewing =>
              /\ ride.status # "UPCOMING"
              /\ \/ booking[request[r].student].verified
                 \/ booking[request[r].student].status = "NONE"
        /\ request[r].pc = "update" => request[r].seats \in SeatChanges

\* Where the status of a booking stands between joining and travelling.
BookingsInv ==
    \A s \in Students :
        /\ booking[s].status = "NONE" => booking[s] = NoBooking
        /\ booking[s].status = "JOINED" => ~booking[s].verified
        /\ ride.status = "UPCOMING" => booking[s].status \in {"NONE", "JOINED", "BOARDED"}

\* The ride of a review has been upcoming for the last time.
PastInv == reviews # {} => ride.status # "UPCOMING"

RidesInv ==
    /\ RideShape
    /\ RequestsInv
    /\ BookingsInv
    /\ PastInv
    /\ NobodyWaitsForAnEndedRide
    /\ TravelledWasVerified
    /\ OneCodeAtBoarding
    /\ ReviewsAreOfTravellers

\* The slot of a request that was accepted, or is over.
LEMMA RideSlot ==
    ASSUME RidesInv, NEW r \in Requests, NEW e \in Request, request' = [request EXCEPT ![r] = e]
    PROVE  /\ request' \in [Requests -> Request] /\ request'[r] = e
           /\ \A q \in Requests : q # r => request'[q] = request[q]
  BY DEF RidesInv, RideShape

\* The slot that is free.
LEMMA IdleIsRequest == Idle \in Request /\ Idle.pc = "idle"
  BY DEF Idle, Request

\* The initial states have the invariant.
LEMMA RidesInitInv == Init => RidesInv
<1> SUFFICES ASSUME Init PROVE RidesInv
  OBVIOUS
<1>1. RideShape
  BY RidesAssumption DEF Init, RideShape, RideStatus, Booking, NoBooking, Request, Idle
<1>2. RequestsInv /\ BookingsInv
  BY DEF Init, RequestsInv, BookingsInv, Idle, NoBooking, Reviewing
<1>3. PastInv /\ NobodyWaitsForAnEndedRide /\ TravelledWasVerified /\ OneCodeAtBoarding /\ ReviewsAreOfTravellers
  BY DEF Init, PastInv, NobodyWaitsForAnEndedRide, TravelledWasVerified, OneCodeAtBoarding,
     ReviewsAreOfTravellers, NoBooking, Ended
<1>. QED
  BY <1>1, <1>2, <1>3 DEF RidesInv

\* A step of one request that writes no row and leaves the request as it may be.
LEMMA SlotInv ==
    ASSUME RidesInv, NEW r \in Requests, NEW e \in Request, request' = [request EXCEPT ![r] = e],
           UNCHANGED <<ride, booking, reviews>>,
           e.pc \in {"leave", "delete", "wrong", "board"} \cup Reviewing => e.student \in Students,
           e.pc \in Reviewing => /\ ride.status # "UPCOMING"
                                 /\ booking[e.student].verified,
           e.pc = "update" => e.seats \in SeatChanges
    PROVE  RidesInv'
<1>1. /\ request' \in [Requests -> Request] /\ request'[r] = e
      /\ \A q \in Requests : q # r => request'[q] = request[q]
  BY RideSlot
<1>2. RideShape'
  BY <1>1 DEF RidesInv, RideShape
<1>3. RequestsInv'
  BY <1>1 DEF RidesInv, RequestsInv
<1>4. BookingsInv' /\ PastInv' /\ NobodyWaitsForAnEndedRide' /\ TravelledWasVerified'
  BY DEF RidesInv, BookingsInv, PastInv, NobodyWaitsForAnEndedRide, TravelledWasVerified
<1>5. OneCodeAtBoarding' /\ ReviewsAreOfTravellers'
  BY DEF RidesInv, OneCodeAtBoarding, ReviewsAreOfTravellers
<1>. QED
  BY <1>2, <1>3, <1>4, <1>5 DEF RidesInv

\* Every check that is passed leaves a request in flight that is as it may be.
LEMMA ReadsInv ==
    ASSUME RidesInv, NEW r \in Requests,
           \/ \E s \in Students : LeaveReadRide(r, s) \/ ReviewRead(r, s) \/ \E c \in Codes : VerifyRead(r, s, c)
           \/ \E n \in SeatChanges : UpdateRead(r, n)
           \/ GenerateOtpRead(r) \/ StartRead(r) \/ CompleteRead(r) \/ CancelRead(r)
           \/ LeaveReadBooking(r) \/ RequestFail(r)
    PROVE  RidesInv'
<1>1. ASSUME NEW pc \in {"leave", "wrong", "board"}, NEW s \in Students, Accept(r, pc, s, 0)
      PROVE  RidesInv'
  <2> DEFINE e == [pc |-> pc, student |-> s, seats |-> 0]
  <2>1. e \in Request /\ e.pc \in {"leave", "wrong", "board"} /\ e.student \in Students
    BY DEF Request
  <2>2. request' = [request EXCEPT ![r] = e] /\ UNCHANGED <<ride, booking, reviews>>
    BY <1>1 DEF Accept
  <2> HIDE DEF e
  <2>. QED
    BY <2>1, <2>2, SlotInv DEF Reviewing
<1>2. ASSUME NEW pc \in Reviewing, NEW s \in Students, Accept(r, pc, s, 0),
             ride.status # "UPCOMING", booking[s].verified
      PROVE  RidesInv'
  <2> DEFINE e == [pc |-> pc, student |-> s, seats |-> 0]
  <2>1. e \in Request /\ e.pc \in Reviewing /\ e.student = s
    BY DEF Request, Reviewing
  <2>2. request' = [request EXCEPT ![r] = e] /\ UNCHANGED <<ride, booking, reviews>>
    BY <1>2 DEF Accept
  <2> HIDE DEF e
  <2>. QED
    BY <1>2, <2>1, <2>2, SlotInv DEF Reviewing
<1>3. ASSUME NEW n \in SeatChanges, Accept(r, "update", None, n)
      PROVE  RidesInv'
  <2> DEFINE e == [pc |-> "update", student |-> None, seats |-> n]
  <2>1. e \in Request /\ e.pc = "update" /\ e.seats = n
    BY RidesAssumption DEF Request
  <2>2. request' = [request EXCEPT ![r] = e] /\ UNCHANGED <<ride, booking, reviews>>
    BY <1>3 DEF Accept
  <2> HIDE DEF e
  <2>. QED
    BY <2>1, <2>2, SlotInv DEF Reviewing
<1>4. ASSUME NEW pc \in {"otp", "start", "complete", "cancel"}, Accept(r, pc, None, 0)
      PROVE  RidesInv'
  <2> DEFINE e == [pc |-> pc, student |-> None, seats |-> 0]
  <2>1. e \in Request /\ e.pc \in {"otp", "start", "complete", "cancel"}
    BY DEF Request
  <2>2. request' = [request EXCEPT ![r] = e] /\ UNCHANGED <<ride, booking, reviews>>
    BY <1>4 DEF Accept
  <2> HIDE DEF e
  <2>. QED
    BY <2>1, <2>2, SlotInv DEF Reviewing
<1>5. ASSUME NEW s \in Students, LeaveReadRide(r, s) \/ \E c \in Codes : VerifyRead(r, s, c)
      PROVE  RidesInv'
  BY <1>1, <1>5 DEF LeaveReadRide, VerifyRead
<1>6. ASSUME NEW s \in Students, ReviewRead(r, s)
      PROVE  RidesInv'
  <2>1. ride.status # "UPCOMING" /\ booking[s].verified
    BY <1>6 DEF ReviewRead, Travelled, RidesInv, TravelledWasVerified
  <2>. QED
    BY <1>2, <1>6, <2>1 DEF ReviewRead, Reviewing
<1>7. CASE \E n \in SeatChanges : UpdateRead(r, n)
  BY <1>3, <1>7 DEF UpdateRead
<1>8. CASE GenerateOtpRead(r) \/ StartRead(r) \/ CompleteRead(r) \/ CancelRead(r)
  BY <1>4, <1>8 DEF GenerateOtpRead, StartRead, CompleteRead, CancelRead
<1>9. CASE LeaveReadBooking(r)
  <2> DEFINE e == [request[r] EXCEPT !.pc = "delete"]
  <2>1. request[r] \in Request /\ request[r].student \in Students
    BY <1>9 DEF LeaveReadBooking, RidesInv, RideShape, RequestsInv
  <2>2. e \in Request /\ e.pc = "delete" /\ e.student \in Students
    BY <2>1 DEF Request
  <2>3. request' = [request EXCEPT ![r] = e] /\ UNCHANGED <<ride, booking, reviews>>
    BY <1>9 DEF LeaveReadBooking
  <2> HIDE DEF e
  <2>. QED
    BY <2>2, <2>3, SlotInv DEF Reviewing
<1>10. CASE RequestFail(r)
  BY <1>10, SlotInv, IdleIsRequest DEF RequestFail, Reviewing
<1>. QED
  BY <1>5, <1>6, <1>7, <1>8, <1>9, <1>10

-----------------------------------------------------------------------------
(* Writes: every booking stays as it may be *)

\* What a write may make of a booking and of the ride.
MayBecome(s) ==
    /\ (ride.status # "UPCOMING" /\ (booking[s].verified \/ booking[s].status = "NONE")) =>
          booking'[s].verified \/ booking'[s].status = "NONE"
    /\ booking'[s].status = "NONE" => booking'[s] = NoBooking
    /\ booking'[s].status = "JOINED" => ~booking'[s].verified
    /\ ride'.status = "UPCOMING" => booking'[s].status \in {"NONE", "JOINED", "BOARDED"}
    /\ ride'.status \in Ended => booking'[s].status # "JOINED"
    /\ booking'[s].status \in {"BOARDED", "COMPLETED"} => booking'[s].verified

\* A write that treats every booking so keeps the invariant.
LEMMA WriteInv ==
    ASSUME RidesInv,
           request' \in [Requests -> Request], \A q \in Requests : request'[q] \in {request[q], Idle},
           ride' \in [status: RideStatus, seats: Nat \ {0}],
           ride.status # "UPCOMING" => ride'.status # "UPCOMING",
           booking' \in [Students -> Booking], reviews' = reviews,
           \A s \in Students : MayBecome(s), OneCodeAtBoarding'
    PROVE  RidesInv'
<1>1. RideShape'
  BY DEF RidesInv, RideShape
<1>2. RequestsInv'
  <2> SUFFICES ASSUME NEW q \in Requests, request'[q] # Idle
               PROVE  /\ request'[q].pc \in {"leave", "delete", "wrong", "board"} \cup Reviewing =>
                            request'[q].student \in Students
                      /\ request'[q].pc \in Reviewing =>
                            /\ ride'.status # "UPCOMING"
                            /\ \/ booking'[request'[q].student].verified
                               \/ booking'[request'[q].student].status = "NONE"
                      /\ request'[q].pc = "update" => request'[q].seats \in SeatChanges
    BY DEF RequestsInv, Idle, Reviewing
  <2>1. request'[q] = request[q]
    OBVIOUS
  <2>2. request[q].pc \in Reviewing =>
           request[q].student \in Students /\ MayBecome(request[q].student)
    BY DEF RidesInv, RequestsInv
  <2>. QED
    BY <2>1, <2>2 DEF RidesInv, RequestsInv, MayBecome
<1>3. BookingsInv' /\ NobodyWaitsForAnEndedRide' /\ TravelledWasVerified'
  BY DEF BookingsInv, NobodyWaitsForAnEndedRide, TravelledWasVerified, MayBecome
<1>4. PastInv'
  BY DEF RidesInv, PastInv
<1>5. ReviewsAreOfTravellers'
  <2> SUFFICES ASSUME NEW v \in reviews
               PROVE  booking'[v[2]].verified \/ booking'[v[2]].status = "NONE"
    BY DEF ReviewsAreOfTravellers
  <2>1. ride.status # "UPCOMING" /\ v[2] \in Students
    BY DEF RidesInv, RideShape, PastInv
  <2>2. booking[v[2]].verified \/ booking[v[2]].status = "NONE"
    BY DEF RidesInv, ReviewsAreOfTravellers
  <2>. QED
    BY <2>1, <2>2 DEF MayBecome
<1>. QED
  BY <1>1, <1>2, <1>3, <1>4, <1>5 DEF RidesInv

\* What the invariant says of a student who is not touched.
LEMMA Untouched ==
    ASSUME RidesInv, NEW s \in Students, booking'[s] = booking[s],
           ride'.status \in {ride.status, "IN_PROGRESS"}
    PROVE  MayBecome(s)
  BY DEF RidesInv, BookingsInv, NobodyWaitsForAnEndedRide, TravelledWasVerified, MayBecome, Ended

\* A request whose write is done.
LEMMA DoneSlot ==
    ASSUME RidesInv, NEW r \in Requests, NEW pc, Done(r, pc)
    PROVE  /\ request' \in [Requests -> Request] /\ request'[r] = Idle
           /\ \A q \in Requests : request'[q] \in {request[q], Idle}
           /\ request[r] \in Request /\ request[r].pc = pc
<1>1. request' = [request EXCEPT ![r] = Idle] /\ request[r].pc = pc
  BY DEF Done
<1>. QED
  BY <1>1, RideSlot, IdleIsRequest DEF RidesInv, RideShape

\* A write to the booking of one student.
LEMMA OneBookingInv ==
    ASSUME RidesInv, NEW s \in Students, NEW b \in Booking, booking' = [booking EXCEPT ![s] = b],
           request' \in [Requests -> Request], \A q \in Requests : request'[q] \in {request[q], Idle},
           UNCHANGED <<ride, reviews>>,
           MayBecome(s),
           b.status = "JOINED" => b.otp = None \/ (booking[s].status = "JOINED" /\ b.otp = booking[s].otp)
    PROVE  RidesInv'
<1>1. /\ booking' \in [Students -> Booking] /\ booking'[s] = b
      /\ \A t \in Students : t # s => booking'[t] = booking[t]
  BY DEF RidesInv, RideShape
<1>2. \A t \in Students : MayBecome(t)
  BY <1>1, Untouched
<1>3. OneCodeAtBoarding'
  <2>1. \A t \in Students : booking'[t].status = "JOINED" /\ booking'[t].otp # None =>
           booking[t].status = "JOINED" /\ booking[t].otp = booking'[t].otp
    BY <1>1
  <2>. QED
    BY <2>1 DEF RidesInv, OneCodeAtBoarding
<1>4. ride' \in [status: RideStatus, seats: Nat \ {0}]
  BY DEF RidesInv, RideShape
<1>. QED
  BY <1>1, <1>2, <1>3, <1>4, WriteInv

\* A booking is created under the lock on the ride row.
LEMMA JoinRequestInv ==
    ASSUME RidesInv, NEW s \in Students, Join(s)
    PROVE  RidesInv'
<1>1. NewBooking \in Booking /\ NewBooking.status = "JOINED" /\ NewBooking.otp = None /\ ~NewBooking.verified
  BY DEF NewBooking, NoBooking, Booking, BookingStatus
<1>2. ride.status = "UPCOMING" /\ booking' = [booking EXCEPT ![s] = NewBooking]
  BY DEF Join
<1>3. booking'[s] = NewBooking
  BY <1>2 DEF RidesInv, RideShape
<1>4. UNCHANGED <<ride, reviews, request>>
  BY DEF Join
<1>5. MayBecome(s)
  BY <1>1, <1>2, <1>3, <1>4 DEF MayBecome, Ended
<1>6. request' \in [Requests -> Request] /\ \A q \in Requests : request'[q] \in {request[q], Idle}
  BY <1>4 DEF RidesInv, RideShape
<1>. QED
  BY <1>1, <1>2, <1>4, <1>5, <1>6, OneBookingInv

\* A code gets too old.
LEMMA ExpireInv ==
    ASSUME RidesInv, NEW s \in Students, OtpExpires(s)
    PROVE  RidesInv'
<1> DEFINE b == [booking[s] EXCEPT !.expired = TRUE]
<1>1. booking[s] \in Booking
  BY DEF RidesInv, RideShape
<1>2. /\ b \in Booking
      /\ b.status = booking[s].status /\ b.otp = booking[s].otp /\ b.verified = booking[s].verified
  BY <1>1 DEF Booking
<1>3. booking' = [booking EXCEPT ![s] = b] /\ UNCHANGED <<ride, reviews, request>>
  BY DEF OtpExpires
<1>4. booking'[s] = b /\ booking[s].status # "NONE"
  BY <1>3 DEF RidesInv, RideShape, BookingsInv, OtpExpires, NoBooking
<1> HIDE DEF b
<1>5. MayBecome(s)
  BY <1>2, <1>3, <1>4 DEF RidesInv, BookingsInv, NobodyWaitsForAnEndedRide, TravelledWasVerified, MayBecome
<1>6. request' \in [Requests -> Request] /\ \A q \in Requests : request'[q] \in {request[q], Idle}
  BY <1>3 DEF RidesInv, RideShape
<1>. QED
  BY <1>2, <1>3, <1>5, <1>6, OneBookingInv

\* The booking of a leave is deleted, whatever it has become.
LEMMA LeaveInv ==
    ASSUME RidesInv, NEW r \in Requests, LeaveDelete(r)
    PROVE  RidesInv'
<1> DEFINE s == request[r].student
<1>1. /\ request' \in [Requests -> Request] /\ request[r].pc = "delete"
      /\ \A q \in Requests : request'[q] \in {request[q], Idle}
  BY DoneSlot DEF LeaveDelete
<1>2. s \in Students
  BY <1>1 DEF RidesInv, RequestsInv
<1>3. booking' = [booking EXCEPT ![s] = NoBooking] /\ UNCHANGED <<ride, reviews>>
  BY DEF LeaveDelete
<1> HIDE DEF s
<1>4. NoBooking \in Booking /\ NoBooking.status = "NONE"
  BY DEF NoBooking, Booking
<1>5. MayBecome(s)
  BY <1>2, <1>3, <1>4 DEF RidesInv, RideShape, MayBecome
<1>. QED
  BY <1>1, <1>2, <1>3, <1>4, <1>5, OneBookingInv

\* A wrong guess is counted on a booking that is still there.
LEMMA WrongInv ==
    ASSUME RidesInv, NEW r \in Requests, VerifyWrong(r)
    PROVE  RidesInv'
<1> DEFINE s == request[r].student
           b == [booking[s] EXCEPT !.attempts = @ + 1]
<1>1. /\ request' \in [Requests -> Request] /\ request[r].pc = "wrong"
      /\ \A q \in Requests : request'[q] \in {request[q], Idle}
  BY DoneSlot DEF VerifyWrong
<1>2. s \in Students /\ booking[s] \in Booking
  BY <1>1 DEF RidesInv, RideShape, RequestsInv
<1>3. booking' = [booking EXCEPT ![s] = b] /\ UNCHANGED <<ride, reviews>> /\ booking[s].status # "NONE"
  BY DEF VerifyWrong, Booked
<1> HIDE DEF s
<1>4. /\ b \in Booking
      /\ b.status = booking[s].status /\ b.otp = booking[s].otp /\ b.verified = booking[s].verified
  BY <1>2 DEF Booking
<1>5. booking'[s] = b
  BY <1>2, <1>3 DEF RidesInv, RideShape
<1> HIDE DEF b
<1>6. MayBecome(s)
  BY <1>2, <1>3, <1>4, <1>5
     DEF RidesInv, BookingsInv, NobodyWaitsForAnEndedRide, TravelledWasVerified, MayBecome
<1>. QED
  BY <1>1, <1>2, <1>3, <1>4, <1>6, OneBookingInv

\* A right guess boards, even when the ride has ended since.
LEMMA BoardPassengerInv ==
    ASSUME RidesInv, NEW r \in Requests, VerifyBoard(r)
    PROVE  RidesInv'
<1> DEFINE s == request[r].student
           b == [status |-> "BOARDED", otp |-> None, expired |-> FALSE, attempts |-> 0, verified |-> TRUE]
<1>1. /\ request' \in [Requests -> Request] /\ request[r].pc = "board"
      /\ \A q \in Requests : request'[q] \in {request[q], Idle}
  BY DoneSlot DEF VerifyBoard
<1>2. s \in Students
  BY <1>1 DEF RidesInv, RideShape, RequestsInv
<1>3. booking' = [booking EXCEPT ![s] = b] /\ UNCHANGED <<ride, reviews>>
  BY DEF VerifyBoard
<1> HIDE DEF s
<1>4. b \in Booking /\ b.status = "BOARDED" /\ b.verified
  BY DEF Booking, BookingStatus
<1>5. booking'[s] = b
  BY <1>2, <1>3 DEF RidesInv, RideShape
<1> HIDE DEF b
<1>6. MayBecome(s)
  BY <1>4, <1>5 DEF MayBecome
<1>. QED
  BY <1>1, <1>2, <1>3, <1>4, <1>6, OneBookingInv

\* The seats are set to what was read as enough.
LEMMA UpdateInv ==
    ASSUME RidesInv, NEW r \in Requests, UpdateWrite(r)
    PROVE  RidesInv'
<1>1. /\ request' \in [Requests -> Request] /\ request[r].pc = "update"
      /\ \A q \in Requests : request'[q] \in {request[q], Idle}
  BY DoneSlot DEF UpdateWrite
<1>2. request[r].seats \in Nat \ {0}
  BY <1>1, RidesAssumption DEF RidesInv, RequestsInv
<1>3. ride' = [ride EXCEPT !.seats = request[r].seats] /\ UNCHANGED <<booking, reviews>>
  BY DEF UpdateWrite
<1>4. ride' \in [status: RideStatus, seats: Nat \ {0}] /\ ride'.status = ride.status
  BY <1>2, <1>3 DEF RidesInv, RideShape
<1>5. \A s \in Students : MayBecome(s)
  BY <1>3, <1>4, Untouched
<1>6. OneCodeAtBoarding' /\ booking' \in [Students -> Booking]
  BY <1>3 DEF RidesInv, RideShape, OneCodeAtBoarding
<1>. QED
  BY <1>1, <1>3, <1>4, <1>5, <1>6, WriteInv

\* The ride is started, even when it has ended since: nobody waits for it then.
LEMMA StartInv ==
    ASSUME RidesInv, NEW r \in Requests, StartWrite(r)
    PROVE  RidesInv'
<1>1. /\ request' \in [Requests -> Request]
      /\ \A q \in Requests : request'[q] \in {request[q], Idle}
  BY DoneSlot DEF StartWrite
<1>2. ride' = [ride EXCEPT !.status = "IN_PROGRESS"] /\ UNCHANGED <<booking, reviews>>
  BY DEF StartWrite
<1>3. ride' \in [status: RideStatus, seats: Nat \ {0}] /\ ride'.status = "IN_PROGRESS"
  BY <1>2 DEF RidesInv, RideShape, RideStatus
<1>4. \A s \in Students : MayBecome(s)
  BY <1>2, <1>3, Untouched
<1>5. OneCodeAtBoarding' /\ booking' \in [Students -> Booking]
  BY <1>2 DEF RidesInv, RideShape, OneCodeAtBoarding
<1>. QED
  BY <1>1, <1>2, <1>3, <1>4, <1>5, WriteInv

\* Everyone who waits gets the new code.
LEMMA GenerateInv ==
    ASSUME RidesInv, NEW r \in Requests, GenerateOtpWrite(r)
    PROVE  RidesInv'
<1>1. /\ request' \in [Requests -> Request]
      /\ \A q \in Requests : request'[q] \in {request[q], Idle}
  BY DoneSlot DEF GenerateOtpWrite
<1>2. PICK c \in Codes :
         booking' = [s \in Students |->
             IF booking[s].status = "JOINED" THEN [NewBooking EXCEPT !.otp = c] ELSE booking[s]]
  BY DEF GenerateOtpWrite
<1> DEFINE b == [NewBooking EXCEPT !.otp = c]
<1>3. b \in Booking /\ b.status = "JOINED" /\ ~b.verified /\ b.otp = c
  BY DEF Booking, BookingStatus, NewBooking, NoBooking
<1>4. UNCHANGED <<ride, reviews>>
  BY DEF GenerateOtpWrite
<1> HIDE DEF b
<1>5. \A s \in Students : booking'[s] = IF booking[s].status = "JOINED" THEN b ELSE booking[s]
  BY <1>2 DEF b
<1>6. booking' \in [Students -> Booking]
  BY <1>2, <1>3 DEF RidesInv, RideShape, b
<1>7. \A s \in Students : MayBecome(s)
  BY <1>3, <1>4, <1>5
     DEF RidesInv, BookingsInv, NobodyWaitsForAnEndedRide, TravelledWasVerified, MayBecome
<1>8. OneCodeAtBoarding'
  BY <1>3, <1>5 DEF OneCodeAtBoarding
<1>9. ride' \in [status: RideStatus, seats: Nat \ {0}]
  BY <1>4 DEF RidesInv, RideShape
<1>. QED
  BY <1>1, <1>4, <1>6, <1>7, <1>8, <1>9, WriteInv

\* Arrival settles every booking.
LEMMA CompleteInv ==
    ASSUME RidesInv, NEW r \in Requests, CompleteWrite(r)
    PROVE  RidesInv'
<1>1. /\ request' \in [Requests -> Request]
      /\ \A q \in Requests : request'[q] \in {request[q], Idle}
  BY DoneSlot DEF CompleteWrite
<1>2. /\ ride' = [ride EXCEPT !.status = "COMPLETED"] /\ UNCHANGED reviews
      /\ booking' = [s \in Students |-> AtArrival(booking[s])]
  BY DEF CompleteWrite
<1>3. ASSUME NEW b \in Booking
      PROVE  /\ AtArrival(b) \in Booking /\ AtArrival(b).verified = b.verified
             /\ AtArrival(b).status # "JOINED" /\ AtArrival(b).status # "BOARDED"
             /\ AtArrival(b).status = "COMPLETED" => b.status \in {"BOARDED", "COMPLETED"}
             /\ AtArrival(b).status = "NONE" <=> b.status = "NONE"
             /\ b.status = "NONE" => AtArrival(b) = b
  BY DEF AtArrival, Booking, BookingStatus
<1>4. \A s \in Students : booking[s] \in Booking /\ booking'[s] = AtArrival(booking[s])
  BY <1>2 DEF RidesInv, RideShape
<1>5. ride' \in [status: RideStatus, seats: Nat \ {0}] /\ ride'.status = "COMPLETED"
  BY <1>2 DEF RidesInv, RideShape, RideStatus
<1>6. booking' \in [Students -> Booking]
  BY <1>2, <1>3, <1>4
<1>7. \A s \in Students : MayBecome(s)
  BY <1>3, <1>4, <1>5 DEF RidesInv, BookingsInv, TravelledWasVerified, MayBecome
<1>8. OneCodeAtBoarding'
  BY <1>3, <1>4 DEF OneCodeAtBoarding
<1>. QED
  BY <1>1, <1>2, <1>5, <1>6, <1>7, <1>8, WriteInv

\* A cancellation cancels every booking that was still to travel.
LEMMA CancelInv ==
    ASSUME RidesInv, NEW r \in Requests, CancelWrite(r)
    PROVE  RidesInv'
<1>1. /\ request' \in [Requests -> Request]
      /\ \A q \in Requests : request'[q] \in {request[q], Idle}
  BY DoneSlot DEF CancelWrite
<1> DEFINE B(b) == IF b.status \in {"JOINED", "BOARDED"}
                   THEN [b EXCEPT !.status = "CANCELLED", !.otp = None] ELSE b
<1>2. /\ ride' = [ride EXCEPT !.status = "CANCELLED"] /\ UNCHANGED reviews
      /\ booking' = [s \in Students |-> B(booking[s])]
  BY DEF CancelWrite, Active
<1>3. ASSUME NEW b \in Booking
      PROVE  /\ B(b) \in Booking /\ B(b).verified = b.verified
             /\ B(b).status # "JOINED" /\ B(b).status # "BOARDED"
             /\ B(b).status = "COMPLETED" => b.status = "COMPLETED"
             /\ B(b).status = "NONE" <=> b.status = "NONE"
             /\ b.status = "NONE" => B(b) = b
  BY DEF Booking, BookingStatus
<1> HIDE DEF B
<1>4. \A s \in Students : booking[s] \in Booking /\ booking'[s] = B(booking[s])
  BY <1>2 DEF RidesInv, RideShape
<1>5. ride' \in [status: RideStatus, seats: Nat \ {0}] /\ ride'.status = "CANCELLED"
  BY <1>2 DEF RidesInv, RideShape, RideStatus
<1>6. booking' \in [Students -> Booking]
  BY <1>2, <1>3, <1>4
<1>7. \A s \in Students : MayBecome(s)
  BY <1>3, <1>4, <1>5 DEF RidesInv, BookingsInv, TravelledWasVerified, MayBecome
<1>8. OneCodeAtBoarding'
  BY <1>3, <1>4 DEF OneCodeAtBoarding
<1>. QED
  BY <1>1, <1>2, <1>5, <1>6, <1>7, <1>8, WriteInv

\* A review is written of somebody whose journey was read as made.
LEMMA ReviewInv ==
    ASSUME RidesInv, NEW r \in Requests, ReviewCreate(r)
    PROVE  RidesInv'
<1>1. PICK pc \in Reviewing :
         Done(r, pc) /\ reviews' = reviews \cup {<<pc, request[r].student>>} /\ UNCHANGED <<ride, booking>>
  BY DEF ReviewCreate, Reviewing
<1>2. /\ request' \in [Requests -> Request] /\ request[r].pc = pc
      /\ \A q \in Requests : request'[q] \in {request[q], Idle}
  BY <1>1, DoneSlot
<1>3. /\ request[r].student \in Students
      /\ ride.status # "UPCOMING"
      /\ booking[request[r].student].verified \/ booking[request[r].student].status = "NONE"
  BY <1>2 DEF RidesInv, RequestsInv
<1>4. RideShape' /\ PastInv' /\ ReviewsAreOfTravellers'
  BY <1>1, <1>2, <1>3 DEF RidesInv, RideShape, PastInv, ReviewsAreOfTravellers
<1>5. RequestsInv'
  <2> SUFFICES ASSUME NEW q \in Requests, request'[q] = request[q]
               PROVE  /\ request[q].pc \in {"leave", "delete", "wrong", "board"} \cup Reviewing =>
                            request[q].student \in Students
                      /\ request[q].pc \in Reviewing =>
                            /\ ride.status # "UPCOMING"
                            /\ \/ booking[request[q].student].verified
                               \/ booking[request[q].student].status = "NONE"
                      /\ request[q].pc = "update" => request[q].seats \in SeatChanges
    BY <1>1, <1>2 DEF RequestsInv, Idle, Reviewing
  <2>. QED
    BY DEF RidesInv, RequestsInv
<1>6. BookingsInv' /\ NobodyWaitsForAnEndedRide' /\ TravelledWasVerified' /\ OneCodeAtBoarding'
  BY <1>1 DEF RidesInv, BookingsInv, NobodyWaitsForAnEndedRide, TravelledWasVerified, OneCodeAtBoarding
<1>. QED
  BY <1>4, <1>5, <1>6 DEF RidesInv

\* Every step keeps the invariant.
LEMMA RidesStepInv == RidesInv /\ [Next]_vars => RidesInv'
<1> SUFFICES ASSUME RidesInv, [Next]_vars PROVE RidesInv'
  OBVIOUS
<1>1. CASE UNCHANGED vars
  BY <1>1 DEF vars, RidesInv, RideShape, RequestsInv, BookingsInv, PastInv, NobodyWaitsForAnEndedRide,
     TravelledWasVerified, OneCodeAtBoarding, ReviewsAreOfTravellers
<1>2. CASE PassengerNext
  BY <1>2, JoinRequestInv, ExpireInv, ReadsInv DEF PassengerNext
<1>3. CASE DriverNext
  BY <1>3, ReadsInv DEF DriverNext
<1>4. CASE WriteNext
  BY <1>4, ReadsInv, LeaveInv, UpdateInv, GenerateInv, WrongInv, BoardPassengerInv, StartInv, CompleteInv,
     CancelInv, ReviewInv DEF WriteNext
<1>. QED
  BY <1>1, <1>2, <1>3, <1>4 DEF Next

\* The invariant holds of every behaviour of the service.
THEOREM RidesInvariant == Spec => []RidesInv
  BY RidesInitInv, RidesStepInv, PTL DEF Spec

\* A ride that is over leaves nobody waiting, and its reviews are of students who
\* entered the driver's code (rides.service.ts, complete, cancel and the reviews).
THEOREM RideIsSettled == Spec => []EndedRideIsSettled
<1>1. RidesInv => EndedRideIsSettled
  BY DEF RidesInv, EndedRideIsSettled
<1>. QED
  BY <1>1, RidesInvariant, PTL

\* Nobody is recorded as having travelled without having verified a code, and those who
\* wait have one code between them, for any number of students and requests in flight.
THEOREM BoardingVerified == Spec => []BoardingIsVerified
<1>1. RidesInv => BoardingIsVerified
  BY DEF RidesInv, BoardingIsVerified
<1>. QED
  BY <1>1, RidesInvariant, PTL

-----------------------------------------------------------------------------
(* Wrong guesses *)

\* Guesses already counted, and those that are about to be.
AttemptsInv ==
    \A s \in Students :
        booking[s].attempts + Cardinality(Guessing(s)) < MaxAttempts + Cardinality(Requests)

\* There are never more guesses in flight than requests.
LEMMA GuessingIsFinite ==
    ASSUME NEW s
    PROVE  /\ IsFiniteSet(Guessing(s)) /\ Cardinality(Guessing(s)) \in Nat
           /\ Cardinality(Requests) \in Nat /\ Cardinality(Guessing(s)) <= Cardinality(Requests)
<1>1. IsFiniteSet(Requests) /\ Guessing(s) \subseteq Requests
  BY RidesAssumption DEF Guessing
<1>. QED
  BY <1>1, FS_Subset, FS_CardinalityType

\* A step that adds no guess and counts none keeps the bound.
LEMMA AttemptsKept ==
    ASSUME RidesInv, RidesInv', AttemptsInv,
           \A s \in Students : booking'[s].attempts <= booking[s].attempts,
           \A s \in Students : Guessing(s)' \subseteq Guessing(s)
    PROVE  AttemptsInv'
<1> SUFFICES ASSUME NEW s \in Students
             PROVE  booking'[s].attempts + Cardinality(Guessing(s)') < MaxAttempts + Cardinality(Requests)
  BY DEF AttemptsInv
<1>1. IsFiniteSet(Guessing(s)) /\ Cardinality(Guessing(s)) \in Nat /\ Cardinality(Requests) \in Nat
  BY GuessingIsFinite
<1>2. Cardinality(Guessing(s)') \in Nat /\ Cardinality(Guessing(s)') <= Cardinality(Guessing(s))
  BY <1>1, FS_Subset, FS_CardinalityType
<1>3. booking[s].attempts \in Nat /\ booking'[s].attempts \in Nat /\ MaxAttempts \in Nat
  BY RidesAssumption DEF RidesInv, RideShape, Booking
<1>4. booking'[s].attempts <= booking[s].attempts
  OBVIOUS
<1>5. booking[s].attempts + Cardinality(Guessing(s)) < MaxAttempts + Cardinality(Requests)
  BY DEF AttemptsInv
<1>. QED
  BY <1>1, <1>2, <1>3, <1>4, <1>5

\* Finishing a request, or one that is no guess, adds no guess.
LEMMA NoGuessAdded ==
    ASSUME RidesInv, \A q \in Requests : request'[q] = request[q] \/ request'[q].pc # "wrong"
    PROVE  \A s \in Students : Guessing(s)' \subseteq Guessing(s)
  BY DEF Guessing

\* A request that is accepted is a guess only while the student may still try.
LEMMA AttemptsAccept ==
    ASSUME RidesInv, RidesInv', AttemptsInv, NEW r \in Requests,
           NEW pc, NEW s \in Students \cup {None}, NEW n \in Nat, Accept(r, pc, s, n),
           pc \in {"leave", "update", "otp", "wrong", "board", "start", "complete", "cancel"} \cup Reviewing,
           pc = "wrong" => s \in Students /\ MayTry(s)
    PROVE  AttemptsInv'
<1> DEFINE e == [pc |-> pc, student |-> s, seats |-> n]
<1>1. e \in Request /\ e.pc = pc /\ e.student = s
  BY DEF Request, Reviewing
<1>2. request' = [request EXCEPT ![r] = e] /\ UNCHANGED <<ride, booking, reviews>>
  BY DEF Accept
<1> HIDE DEF e
<1>3. request'[r] = e /\ \A q \in Requests : q # r => request'[q] = request[q]
  BY <1>1, <1>2, RideSlot
<1>4. CASE pc # "wrong"
  <2>1. \A t \in Students : Guessing(t)' \subseteq Guessing(t)
    BY <1>1, <1>3, <1>4, NoGuessAdded
  <2>2. \A t \in Students : booking'[t].attempts <= booking[t].attempts
    BY <1>2 DEF RidesInv, RideShape, Booking
  <2>. QED
    BY <2>1, <2>2, AttemptsKept
<1>5. CASE pc = "wrong"
  <2> SUFFICES ASSUME NEW t \in Students
               PROVE  booking[t].attempts + Cardinality(Guessing(t)') < MaxAttempts + Cardinality(Requests)
    BY <1>2 DEF AttemptsInv
  <2>1. booking[t].attempts \in Nat /\ MaxAttempts \in Nat
    BY RidesAssumption DEF RidesInv, RideShape, Booking
  <2>2. CASE t = s
    <3>1. Guessing(t)' \subseteq Requests /\ IsFiniteSet(Requests)
      BY RidesAssumption DEF Guessing
    <3>2. Cardinality(Guessing(t)') \in Nat /\ Cardinality(Requests) \in Nat
          /\ Cardinality(Guessing(t)') <= Cardinality(Requests)
      BY <3>1, FS_Subset, FS_CardinalityType
    <3>3. booking[t].attempts < MaxAttempts
      BY <1>5, <2>2 DEF MayTry
    <3>. QED
      BY <2>1, <3>2, <3>3
  <2>3. CASE t # s
    <3>1. Guessing(t)' = Guessing(t)
      BY <1>1, <1>3, <2>3, <1>2 DEF Guessing, Accept
    <3>. QED
      BY <3>1 DEF AttemptsInv
  <2>. QED
    BY <2>2, <2>3
<1>. QED
  BY <1>4, <1>5

\* Counting a guess takes it out of flight.
LEMMA AttemptsWrong ==
    ASSUME RidesInv, RidesInv', AttemptsInv, NEW r \in Requests, VerifyWrong(r)
    PROVE  AttemptsInv'
<1>1. /\ request'[r] = Idle /\ request[r].pc = "wrong"
      /\ \A q \in Requests : request'[q] \in {request[q], Idle}
  BY DoneSlot DEF VerifyWrong
<1>2. \A q \in Requests : q # r => request'[q] = request[q]
  BY DEF VerifyWrong, Done, RidesInv, RideShape
<1>3. PICK s \in Students : s = request[r].student
  BY <1>1 DEF RidesInv, RequestsInv
<1>4. booking[s] \in Booking /\ booking' = [booking EXCEPT ![s] = [booking[s] EXCEPT !.attempts = @ + 1]]
  BY <1>3 DEF VerifyWrong, RidesInv, RideShape
<1>5. /\ booking'[s].attempts = booking[s].attempts + 1
      /\ \A t \in Students : t # s => booking'[t] = booking[t]
  <2>1. booking'[s] = [booking[s] EXCEPT !.attempts = @ + 1] /\ \A t \in Students : t # s => booking'[t] = booking[t]
    BY <1>3, <1>4 DEF RidesInv, RideShape
  <2>. QED
    BY <1>4, <2>1 DEF Booking
<1>6. r \in Guessing(s) /\ Guessing(s)' = Guessing(s) \ {r}
  BY <1>1, <1>2, <1>3, IdleIsRequest DEF Guessing
<1> SUFFICES ASSUME NEW t \in Students
             PROVE  booking'[t].attempts + Cardinality(Guessing(t)') < MaxAttempts + Cardinality(Requests)
  BY DEF AttemptsInv
<1>7. booking[t].attempts \in Nat /\ booking'[t].attempts \in Nat /\ MaxAttempts \in Nat
  BY RidesAssumption DEF RidesInv, RideShape, Booking
<1>8. booking[t].attempts + Cardinality(Guessing(t)) < MaxAttempts + Cardinality(Requests)
  BY DEF AttemptsInv
<1>9. CASE t = s
  <2>1. Cardinality(Guessing(t)) \in Nat /\ Cardinality(Guessing(t)') = Cardinality(Guessing(t)) - 1
    BY <1>6, <1>9, GuessingIsFinite, FS_RemoveElement
  <2>. QED
    BY <1>5, <1>7, <1>8, <1>9, <2>1, GuessingIsFinite
<1>10. CASE t # s
  <2>1. Guessing(t)' = Guessing(t)
    BY <1>1, <1>2, <1>3, <1>10, IdleIsRequest DEF Guessing
  <2>. QED
    BY <1>5, <1>8, <1>10, <2>1
<1>. QED
  BY <1>9, <1>10

\* Every step keeps the bound on wrong guesses.
LEMMA AttemptsStep ==
    ASSUME RidesInv, RidesInv', AttemptsInv, [Next]_vars
    PROVE  AttemptsInv'
<1>1. \A s \in Students : booking[s] \in Booking
  BY DEF RidesInv, RideShape
<1>2. ASSUME \A q \in Requests : request'[q] = request[q] \/ request'[q] = Idle,
             \A s \in Students : booking'[s] = booking[s] \/ booking'[s].attempts = 0
                                 \/ booking'[s].attempts = booking[s].attempts
      PROVE  AttemptsInv'
  <2>1. \A s \in Students : booking'[s].attempts <= booking[s].attempts
    BY <1>1, <1>2 DEF Booking
  <2>2. \A s \in Students : Guessing(s)' \subseteq Guessing(s)
    BY <1>2, NoGuessAdded, IdleIsRequest
  <2>. QED
    BY <2>1, <2>2, AttemptsKept
<1>3. CASE UNCHANGED vars
  BY <1>2, <1>3 DEF vars
<1>4. ASSUME NEW s \in Students, Join(s) PROVE AttemptsInv'
  BY <1>2, <1>4 DEF Join, NewBooking, NoBooking, RidesInv, RideShape
<1>5. ASSUME NEW s \in Students, OtpExpires(s) PROVE AttemptsInv'
  <2>1. booking' = [booking EXCEPT ![s] = [booking[s] EXCEPT !.expired = TRUE]] /\ request' = request
    BY <1>5 DEF OtpExpires
  <2>2. [booking[s] EXCEPT !.expired = TRUE].attempts = booking[s].attempts
    BY <1>1 DEF Booking
  <2>3. \A t \in Students : booking'[t] = IF t = s THEN [booking[s] EXCEPT !.expired = TRUE] ELSE booking[t]
    BY <2>1 DEF RidesInv, RideShape
  <2>. QED
    BY <1>2, <2>1, <2>2, <2>3
<1>6. ASSUME NEW r \in Requests, NEW s \in Students,
             LeaveReadRide(r, s) \/ ReviewRead(r, s) \/ \E c \in Codes : VerifyRead(r, s, c)
      PROVE  AttemptsInv'
  BY <1>6, AttemptsAccept DEF LeaveReadRide, ReviewRead, VerifyRead, Reviewing
<1>7. ASSUME NEW r \in Requests, NEW n \in SeatChanges, UpdateRead(r, n) PROVE AttemptsInv'
  <2>1. n \in Nat
    BY RidesAssumption
  <2>. QED
    BY <1>7, <2>1, AttemptsAccept DEF UpdateRead
<1>8. ASSUME NEW r \in Requests, GenerateOtpRead(r) \/ StartRead(r) \/ CompleteRead(r) \/ CancelRead(r)
      PROVE  AttemptsInv'
  BY <1>8, AttemptsAccept DEF GenerateOtpRead, StartRead, CompleteRead, CancelRead
<1>9. ASSUME NEW r \in Requests, LeaveReadBooking(r) PROVE AttemptsInv'
  <2>1. request' = [request EXCEPT ![r] = [request[r] EXCEPT !.pc = "delete"]] /\ booking' = booking
    BY <1>9 DEF LeaveReadBooking
  <2>2. request[r] \in Request
    BY DEF RidesInv, RideShape
  <2>3. [request[r] EXCEPT !.pc = "delete"] \in Request /\ [request[r] EXCEPT !.pc = "delete"].pc = "delete"
    BY <2>2 DEF Request
  <2>4. \A q \in Requests : request'[q] = request[q] \/ request'[q].pc # "wrong"
    BY <2>1, <2>3 DEF RidesInv, RideShape
  <2>5. \A s \in Students : booking'[s].attempts <= booking[s].attempts
    BY <1>1, <2>1 DEF Booking
  <2>. QED
    BY <2>4, <2>5, NoGuessAdded, AttemptsKept
<1>10. ASSUME NEW r \in Requests,
              LeaveDelete(r) \/ UpdateWrite(r) \/ VerifyBoard(r) \/ StartWrite(r) \/ RequestFail(r)
       PROVE  AttemptsInv'
  <2>1. \A q \in Requests : request'[q] = request[q] \/ request'[q] = Idle
    BY <1>10 DEF LeaveDelete, UpdateWrite, VerifyBoard, StartWrite, RequestFail, Done, RidesInv, RideShape
  <2>2. \A s \in Students : booking'[s] = booking[s] \/ booking'[s].attempts = 0
    BY <1>10 DEF LeaveDelete, UpdateWrite, VerifyBoard, StartWrite, RequestFail, NoBooking, RidesInv, RideShape
  <2>. QED
    BY <1>2, <2>1, <2>2
<1>11. ASSUME NEW r \in Requests, GenerateOtpWrite(r) \/ CompleteWrite(r) \/ CancelWrite(r) \/ ReviewCreate(r)
       PROVE  AttemptsInv'
  <2>1. \A q \in Requests : request'[q] = request[q] \/ request'[q] = Idle
    BY <1>11 DEF GenerateOtpWrite, CompleteWrite, CancelWrite, ReviewCreate, Done, RidesInv, RideShape
  <2>2. ASSUME NEW c PROVE [NewBooking EXCEPT !.otp = c].attempts = 0
    BY DEF NewBooking, NoBooking
  <2>3. CASE GenerateOtpWrite(r)
    <3>1. \A s \in Students : booking'[s] = booking[s] \/ booking'[s].attempts = 0
      BY <2>2, <2>3 DEF GenerateOtpWrite
    <3>. QED
      BY <1>2, <2>1, <3>1
  <2>4. CASE CompleteWrite(r) \/ CancelWrite(r)
    <3> DEFINE B(b) == [b EXCEPT !.status = "CANCELLED", !.otp = None]
    <3>1. ASSUME NEW b \in Booking PROVE AtArrival(b).attempts = b.attempts /\ B(b).attempts = b.attempts
      BY DEF AtArrival, Booking
    <3>2. \A s \in Students :
             booking'[s] = AtArrival(booking[s]) \/ booking'[s] = B(booking[s]) \/ booking'[s] = booking[s]
      BY <2>4 DEF CompleteWrite, CancelWrite
    <3> HIDE DEF B
    <3>3. \A s \in Students : booking'[s].attempts = booking[s].attempts
      BY <1>1, <3>1, <3>2
    <3>. QED
      BY <1>2, <2>1, <3>3
  <2>5. CASE ReviewCreate(r)
    BY <1>2, <2>1, <2>5 DEF ReviewCreate
  <2>. QED
    BY <1>11, <2>3, <2>4, <2>5
<1>. QED
  BY <1>3, <1>4, <1>5, <1>6, <1>7, <1>8, <1>9, <1>10, <1>11, AttemptsWrong
     DEF Next, PassengerNext, DriverNext, WriteNext

\* The rows keep their shape, and the guesses counted on a booking never exceed the
\* limit by more than the requests in flight together (rides.service.ts, verifyOtp).
THEOREM RidesTypes == Spec => []TypeOK
<1>1. Init => AttemptsInv
  <2> SUFFICES ASSUME Init, NEW s \in Students
               PROVE  booking[s].attempts + Cardinality(Guessing(s)) < MaxAttempts + Cardinality(Requests)
    BY DEF AttemptsInv
  <2>1. booking[s].attempts = 0
    BY DEF Init, NoBooking
  <2>. QED
    BY <2>1, GuessingIsFinite, RidesAssumption
<1>2. RidesInv /\ AttemptsInv => TypeOK
  <2> SUFFICES ASSUME RidesInv, AttemptsInv PROVE TypeOK
    OBVIOUS
  <2>1. \A s \in Students : booking[s].attempts < MaxAttempts + Cardinality(Requests)
    <3> TAKE s \in Students
    <3>1. booking[s].attempts \in Nat /\ MaxAttempts \in Nat
      BY RidesAssumption DEF RidesInv, RideShape, Booking
    <3>. QED
      BY <3>1, GuessingIsFinite DEF AttemptsInv
  <2>. QED
    BY <2>1 DEF RidesInv, RideShape, BookingsInv, Reviewing, TypeOK
<1>. QED
  BY <1>1, <1>2, AttemptsStep, RidesInvariant, PTL DEF Spec

-----------------------------------------------------------------------------
(* Seats *)

\* The driver only adds seats.
SeatsOnlyGrow == [][ride'.seats >= ride.seats]_vars

SeatsInv == Cardinality(Booked) <= ride.seats

\* A join takes a seat that is free, and nothing else takes one.
LEMMA SeatsStep ==
    ASSUME RidesInv, RidesInv', SeatsInv, [Next]_vars, [ride'.seats >= ride.seats]_vars
    PROVE  SeatsInv'
<1>1. IsFiniteSet(Booked) /\ Cardinality(Booked) \in Nat /\ ride.seats \in Nat /\ ride'.seats \in Nat
  <2>1. Booked \subseteq Students /\ IsFiniteSet(Students)
    BY RidesAssumption DEF Booked
  <2>. QED
    BY <2>1, FS_Subset, FS_CardinalityType DEF RidesInv, RideShape
<1>2. ASSUME NEW s \in Students, Join(s) PROVE SeatsInv'
  <2>1. {t \in Students : Active(t)} = Booked
    BY <1>2 DEF Join, RidesInv, BookingsInv, Booked, Active
  <2>2. Cardinality(Booked) < ride.seats /\ s \notin Booked /\ ride' = ride
    BY <1>2, <2>1 DEF Join
  <2>3. Booked' = Booked \cup {s}
    BY <1>2 DEF Join, Booked, NewBooking, NoBooking, RidesInv, RideShape
  <2>4. Cardinality(Booked') = Cardinality(Booked) + 1
    BY <1>1, <2>2, <2>3, FS_AddElement
  <2>. QED
    BY <1>1, <2>2, <2>4 DEF SeatsInv
<1>3. ASSUME \A s \in Students : booking'[s].status = "NONE" \/ booking[s].status # "NONE"
      PROVE  SeatsInv'
  <2>1. Booked' \subseteq Booked
    BY <1>3 DEF Booked
  <2>2. Cardinality(Booked') \in Nat /\ Cardinality(Booked') <= Cardinality(Booked)
    BY <1>1, <2>1, FS_Subset, FS_CardinalityType
  <2>3. ride'.seats >= ride.seats
    BY <1>1 DEF vars
  <2>. QED
    BY <1>1, <2>2, <2>3 DEF SeatsInv
<1>4. \A s \in Students : booking[s] \in Booking
  BY DEF RidesInv, RideShape
<1>5. ASSUME UNCHANGED booking PROVE SeatsInv'
  BY <1>3, <1>5
<1>6. ASSUME NEW s \in Students, OtpExpires(s) PROVE SeatsInv'
  <2>1. booking[s].status # "NONE"
    BY <1>6 DEF OtpExpires, RidesInv, BookingsInv, NoBooking
  <2>2. \A t \in Students : t # s => booking'[t] = booking[t]
    BY <1>6 DEF OtpExpires, RidesInv, RideShape
  <2>. QED
    BY <1>3, <2>1, <2>2
<1>7. ASSUME NEW r \in Requests, LeaveDelete(r) \/ VerifyWrong(r) \/ VerifyBoard(r) PROVE SeatsInv'
  <2>1. request[r].student \in Booked /\ \A t \in Students : t # request[r].student => booking'[t] = booking[t]
    BY <1>7 DEF LeaveDelete, VerifyWrong, VerifyBoard, RidesInv, RideShape
  <2>. QED
    BY <1>3, <2>1 DEF Booked
<1>8. ASSUME NEW r \in Requests, GenerateOtpWrite(r) \/ CompleteWrite(r) \/ CancelWrite(r) PROVE SeatsInv'
  BY <1>3, <1>8 DEF GenerateOtpWrite, CompleteWrite, CancelWrite, AtArrival, Active
<1>. QED
  BY <1>2, <1>5, <1>6, <1>7, <1>8 DEF Next, PassengerNext, DriverNext, WriteNext, vars,
     LeaveReadRide, ReviewRead, VerifyRead, UpdateRead, GenerateOtpRead, StartRead, CompleteRead, CancelRead,
     Accept, LeaveReadBooking, UpdateWrite, StartWrite, ReviewCreate, RequestFail

\* While the driver only adds seats no ride is overbooked, for any number of
\* students who join, leave and board at once (rides.service.ts, join under the
\* lock on the ride row).
THEOREM RideIsNotOverbooked == Spec /\ SeatsOnlyGrow => []NotOverbooked
<1>1. Init => SeatsInv
  <2> SUFFICES ASSUME Init PROVE SeatsInv
    OBVIOUS
  <2>1. Booked = {} /\ ride.seats = InitialSeats
    BY DEF Init, Booked, NoBooking
  <2>. QED
    BY <2>1, FS_EmptySet, RidesAssumption DEF SeatsInv
<1>2. RidesInv /\ SeatsInv => NotOverbooked
  <2> SUFFICES ASSUME RidesInv, SeatsInv PROVE NotOverbooked
    OBVIOUS
  <2> DEFINE A == {s \in Students : booking[s].status \in {"JOINED", "BOARDED"}}
  <2>1. A \subseteq Booked /\ Booked \subseteq Students /\ IsFiniteSet(Students)
    BY RidesAssumption DEF Booked
  <2>2. /\ Cardinality(A) <= Cardinality(Booked)
        /\ Cardinality(A) \in Nat /\ Cardinality(Booked) \in Nat
    BY <2>1, FS_Subset, FS_CardinalityType
  <2>3. ride.seats \in Nat
    BY DEF RidesInv, RideShape
  <2>. QED
    BY <2>2, <2>3 DEF SeatsInv, NotOverbooked
<1>. QED
  BY <1>1, <1>2, SeatsStep, RidesInvariant, PTL DEF Spec, SeatsOnlyGrow

-----------------------------------------------------------------------------
(* The rooms of a ride *)

\* Users of the ride, present or past.
OfTheRide == everIn \cup {Driver}

\* Functions and sequences have their domains.
RoomShape ==
    /\ booked \subseteq everIn /\ everIn \subseteq Riders
    /\ chat \in Seq(RoomUsers)
    /\ joining \in [RoomUsers -> {"out", "allowed", "in", "told"}]
    /\ sending \subseteq 1..Len(chat)
    /\ inbox \in [RoomUsers -> SUBSET (1..Len(chat))]
    /\ since \in [RoomUsers -> 0..Len(chat)]
    /\ onMap \subseteq RoomUsers /\ sharing \in BOOLEAN

\* Who is being let into a room, is there or was sent something is of the ride.
LetIn ==
    /\ \A u \in RoomUsers : joining[u] # "out" \/ inbox[u] # {} => u \in OfTheRide
    /\ onMap \cup seenAt \subseteq OfTheRide
    /\ \A m \in 1..Len(chat) : chat[m] \in OfTheRide

\* Whoever is in the room has every message since, or will be sent it.
RoomReaches ==
    \A u \in RoomUsers : joining[u] \in {"in", "told"} =>
        \A m \in 1..Len(chat) : m > since[u] => m \in inbox[u] \cup sending

RoomInv == RoomShape /\ LetIn /\ RoomReaches /\ NoGapAfterHistory

\* No room is open yet.
LEMMA RoomInitInv == RoomInit => RoomInv
<1> SUFFICES ASSUME RoomInit PROVE RoomInv
  OBVIOUS
<1>1. Len(chat) = 0
  BY DEF RoomInit
<1>2. RoomShape
  <2>1. chat \in Seq(RoomUsers) /\ 0 \in 0..Len(chat)
    BY <1>1 DEF RoomInit
  <2>2. since \in [RoomUsers -> 0..Len(chat)] /\ inbox \in [RoomUsers -> SUBSET (1..Len(chat))]
    BY <2>1 DEF RoomInit
  <2>. QED
    BY <2>1, <2>2 DEF RoomInit, RoomShape
<1>3. LetIn /\ RoomReaches /\ NoGapAfterHistory
  BY <1>1 DEF RoomInit, LetIn, RoomReaches, NoGapAfterHistory
<1>. QED
  BY <1>2, <1>3 DEF RoomInv

-----------------------------------------------------------------------------
(* Chat *)

\* A socket that is let in, joins or ends.
LEMMA JoinRoomInv ==
    ASSUME RoomInv, NEW u \in RoomUsers, AskToJoin(u) \/ JoinChat(u) \/ DropChat(u)
    PROVE  RoomInv'
<1>1. RoomShape'
  <2>1. Len(chat) \in 0..Len(chat) /\ 0 \in 0..Len(chat)
    BY DEF RoomInv, RoomShape
  <2>2. since' \in [RoomUsers -> 0..Len(chat)]
    BY <2>1 DEF RoomInv, RoomShape, AskToJoin, JoinChat, DropChat
  <2>3. inbox' \in [RoomUsers -> SUBSET (1..Len(chat))]
    BY DEF RoomInv, RoomShape, AskToJoin, JoinChat, DropChat
  <2>. QED
    BY <2>2, <2>3 DEF RoomInv, RoomShape, AskToJoin, JoinChat, DropChat
<1>2. LetIn'
  BY DEF RoomInv, RoomShape, LetIn, OfTheRide, AssertRideParticipant, AskToJoin, JoinChat, DropChat
<1>3. RoomReaches'
  BY DEF RoomInv, RoomShape, RoomReaches, AskToJoin, JoinChat, DropChat
<1>4. NoGapAfterHistory'
  BY DEF RoomInv, RoomShape, NoGapAfterHistory, AskToJoin, JoinChat, DropChat
<1>. QED
  BY <1>1, <1>2, <1>3, <1>4 DEF RoomInv

\* The history is the oldest messages; the room has had the ones since.
LEMMA HistoryInv ==
    ASSUME RoomInv, NEW u \in RoomUsers, SendHistory(u)
    PROVE  RoomInv'
<1>1. /\ Len(chat) \in Nat /\ HistorySize \in Nat
      /\ History \subseteq 1..Len(chat)
      /\ \A m \in 1..Len(chat) : m <= HistorySize => m \in History
  BY RideRoomsAssumption DEF RoomInv, RoomShape, History
<1>2. /\ inbox' = [inbox EXCEPT ![u] = @ \cup History]
      /\ joining[u] = "in" /\ joining' = [joining EXCEPT ![u] = "told"]
      /\ UNCHANGED <<booked, chat, sending, onMap, sharing, seenAt, everIn, since>>
  BY DEF SendHistory
<1>3. RoomShape'
  BY <1>1, <1>2 DEF RoomInv, RoomShape
<1>4. LetIn'
  BY <1>2 DEF RoomInv, RoomShape, LetIn, OfTheRide
<1>5. RoomReaches'
  BY <1>2 DEF RoomInv, RoomShape, RoomReaches
<1>6. NoGapAfterHistory'
  <2>1. SUFFICES ASSUME NEW v \in RoomUsers, joining'[v] = "told", NEW m \in 1..Len(chat)
                 PROVE  m \in inbox'[v] \cup sending \/ m \in HistorySize + 1 .. since[v]
    BY <1>2 DEF NoGapAfterHistory
  <2>2. CASE v = u
    <3>1. inbox'[u] = inbox[u] \cup History
      BY <1>2 DEF RoomInv, RoomShape
    <3>2. m > since[u] => m \in inbox[u] \cup sending
      BY <1>2 DEF RoomInv, RoomReaches
    <3>3. since[u] \in Nat /\ m \in Nat
      BY <1>1 DEF RoomInv, RoomShape
    <3>4. m <= HistorySize => m \in inbox'[u]
      BY <1>1, <3>1
    <3>. QED
      BY <1>1, <2>2, <3>1, <3>2, <3>3, <3>4
  <2>3. CASE v # u
    BY <1>2, <2>1, <2>3 DEF RoomInv, RoomShape, NoGapAfterHistory
  <2>. QED
    BY <2>2, <2>3
<1>. QED
  BY <1>3, <1>4, <1>5, <1>6 DEF RoomInv

\* A message that is stored is to be sent.
LEMMA StoreInv ==
    ASSUME RoomInv, NEW u \in RoomUsers, StoreMessage(u)
    PROVE  RoomInv'
<1>1. /\ chat' = Append(chat, u) /\ chat' \in Seq(RoomUsers)
      /\ Len(chat) \in Nat /\ Len(chat') = Len(chat) + 1
      /\ chat'[Len(chat) + 1] = u
      /\ \A m \in 1..Len(chat) : chat'[m] = chat[m]
  BY DEF RoomInv, RoomShape, StoreMessage
<1>2. /\ sending' = sending \cup {Len(chat) + 1}
      /\ UNCHANGED <<booked, joining, inbox, onMap, sharing, seenAt, everIn, since>>
      /\ u \in booked \cup {Driver}
  BY DEF StoreMessage, AssertRideParticipant
<1>3. \A m \in 1..Len(chat') : m \in 1..Len(chat) \/ m = Len(chat) + 1
  BY <1>1
<1>4. RoomShape'
  <2>1. 1..Len(chat) \subseteq 1..Len(chat') /\ 0..Len(chat) \subseteq 0..Len(chat')
    BY <1>1
  <2>2. inbox' \in [RoomUsers -> SUBSET (1..Len(chat'))]
    BY <1>2, <2>1 DEF RoomInv, RoomShape
  <2>3. since' \in [RoomUsers -> 0..Len(chat')]
    BY <1>2, <2>1 DEF RoomInv, RoomShape
  <2>4. Len(chat) + 1 \in 1..Len(chat')
    BY <1>1
  <2>5. sending' \subseteq 1..Len(chat')
    BY <1>2, <2>1, <2>4 DEF RoomInv, RoomShape
  <2>. QED
    BY <1>1, <1>2, <2>2, <2>3, <2>5 DEF RoomInv, RoomShape
<1>5. LetIn'
  BY <1>1, <1>2, <1>3 DEF RoomInv, RoomShape, LetIn, OfTheRide
<1>6. RoomReaches'
  BY <1>1, <1>2, <1>3 DEF RoomInv, RoomReaches
<1>7. NoGapAfterHistory'
  BY <1>1, <1>2, <1>3 DEF RoomInv, NoGapAfterHistory
<1>. QED
  BY <1>4, <1>5, <1>6, <1>7 DEF RoomInv

\* A message that was to be sent is with everybody in the room.
LEMMA EmitInv ==
    ASSUME RoomInv, NEW m \in 1..MaxTalk, EmitMessage(m)
    PROVE  RoomInv'
<1>1. /\ m \in 1..Len(chat) /\ sending' = sending \ {m}
      /\ inbox' \in [RoomUsers -> SUBSET (1..Len(chat))]
      /\ \A u \in RoomUsers :
            /\ joining[u] \in {"in", "told"} => inbox'[u] = inbox[u] \cup {m}
            /\ joining[u] \notin {"in", "told"} => inbox'[u] = inbox[u]
      /\ UNCHANGED <<booked, chat, joining, onMap, sharing, seenAt, everIn, since>>
  BY DEF RoomInv, RoomShape, EmitMessage, InChat
<1>2. RoomShape'
  BY <1>1 DEF RoomInv, RoomShape
<1>3. LetIn'
  BY <1>1 DEF RoomInv, LetIn, OfTheRide
<1>4. RoomReaches'
  BY <1>1 DEF RoomInv, RoomReaches
<1>5. NoGapAfterHistory'
  BY <1>1 DEF RoomInv, NoGapAfterHistory
<1>. QED
  BY <1>2, <1>3, <1>4, <1>5 DEF RoomInv

-----------------------------------------------------------------------------
(* Locations and bookings *)

\* A location socket is let in with a booking, like a chat socket.
LEMMA MapInv ==
    ASSUME RoomInv, MapSteps
    PROVE  RoomInv'
<1>1. UNCHANGED <<booked, chat, joining, sending, inbox, everIn, since>>
  BY DEF MapSteps, JoinMap, DropMap, ShareLocation, EmitLocation
<1>2. /\ onMap' \subseteq RoomUsers /\ sharing' \in BOOLEAN
      /\ onMap' \cup seenAt' \subseteq OfTheRide
  BY DEF RoomInv, RoomShape, LetIn, OfTheRide, GetAuthorizedRide, MapSteps, JoinMap, DropMap, ShareLocation,
     EmitLocation
<1>3. RoomShape'
  BY <1>1, <1>2 DEF RoomInv, RoomShape
<1>4. LetIn'
  BY <1>1, <1>2 DEF RoomInv, LetIn, OfTheRide
<1>5. RoomReaches' /\ NoGapAfterHistory'
  BY <1>1 DEF RoomInv, RoomReaches, NoGapAfterHistory
<1>. QED
  BY <1>3, <1>4, <1>5 DEF RoomInv

\* Riders who had a booking only become more.
LEMMA BookingInv ==
    ASSUME RoomInv, NEW u \in Riders, RoomBook(u) \/ RoomUnbook(u)
    PROVE  RoomInv'
<1>1. /\ UNCHANGED <<chat, joining, sending, inbox, onMap, sharing, seenAt, since>>
      /\ booked' \subseteq everIn' /\ everIn \subseteq everIn' /\ everIn' \subseteq Riders
  BY DEF RoomInv, RoomShape, RoomBook, RoomUnbook
<1>2. RoomShape'
  BY <1>1 DEF RoomInv, RoomShape
<1>3. LetIn'
  BY <1>1 DEF RoomInv, LetIn, OfTheRide
<1>4. RoomReaches' /\ NoGapAfterHistory'
  BY <1>1 DEF RoomInv, RoomReaches, NoGapAfterHistory
<1>. QED
  BY <1>2, <1>3, <1>4 DEF RoomInv

-----------------------------------------------------------------------------

\* The invariant holds in every state.
THEOREM RoomInvariant == RoomSpec => []RoomInv
<1>1. ASSUME RoomInv, [RoomNext]_roomVars PROVE RoomInv'
  <2>1. CASE ChatSteps
    BY <1>1, <2>1, JoinRoomInv, HistoryInv, StoreInv, EmitInv DEF ChatSteps
  <2>2. CASE MapSteps
    BY <1>1, <2>2, MapInv
  <2>3. CASE BookingSteps
    BY <1>1, <2>3, BookingInv DEF BookingSteps
  <2>4. CASE UNCHANGED roomVars
    BY <1>1, <2>4 DEF roomVars, RoomInv, RoomShape, LetIn, OfTheRide, RoomReaches, NoGapAfterHistory
  <2>. QED
    BY <1>1, <2>1, <2>2, <2>3, <2>4 DEF RoomNext
<1>. QED
  BY RoomInitInv, <1>1, PTL DEF RoomSpec

\* A socket that has had its history misses nothing that the history reaches, and
\* only the ride's users write, read and see where the driver is.
THEOREM RoomsAlwaysServeTheRide == RoomSpec => []RoomsServeTheRide
<1>1. RoomInv => RoomsServeTheRide
  BY DEF RoomInv, LetIn, OfTheRide, RoomsServeTheRide, ChatIsOfTheRide, LocationIsForTheRide
<1>. QED
  BY <1>1, RoomInvariant, PTL

\* Rows, rooms and views keep their shape.
THEOREM RoomsTypeOK == RoomSpec => []RoomTypeOK
<1>1. RoomInv => RoomTypeOK
  BY DEF RoomInv, RoomShape, RoomTypeOK
<1>. QED
  BY <1>1, RoomInvariant, PTL

-----------------------------------------------------------------------------
(* Several rides and the pages that show them *)

OfferRow == [pc: {"form", "checked"}, route: Routes \cup {NoRoute}, departs: Departures \cup {0},
             seats: Nat, raced: BOOLEAN]

OffersInv == offer \in [OfferTabs -> OfferRow]

\* A ride that can still be booked has only bookings that are on.
UpcomingInv ==
    \A r \in Listed : board[r].status = "UPCOMING" => board[r].travelled = {} /\ board[r].off = {}

\* A similar ride that was not there at the check came while the offer was past it, or was
\* made similar by an update.
SimilarInv ==
    \A t \in OfferTabs :
        offer[t].pc = "checked" /\ ~offer[t].raced =>
            \A r \in Similar(DriverOf[t], offer[t]) : board[r].edited

\* Whoever has not been seen is still to come, or was moved or tied.
WalkInv ==
    /\ walk \in [page: Nat, seen: SUBSET RideRows, due: SUBSET RideRows, moved: SUBSET RideRows]
    /\ \A r \in walk.due : r \in walk.seen \/ r \in walk.moved \/ walk.page * RidesPerPage <= Cardinality(Before(r))

JoinStates == {"idle", "pending", "joined", "refused", "success", "error"}

\* The page that books is that of a ride, and whoever was told of a booking has had one.
DetailInv ==
    /\ detail \in [ride: Listed \cup {NoRoute}, status: BoardStatus, left: Nat, join: JoinStates]
    /\ detail.join # "idle" => detail.ride \in Listed
    /\ detail.join \in {"joined", "success"} =>
          Visitor \in Rows(board[detail.ride]) \cup board[detail.ride].gone

BoardInv ==
    /\ BoardTypeOK /\ OffersInv /\ UpcomingInv /\ SimilarInv /\ WalkInv /\ DetailInv
    /\ TwinsRacedOrEdited

-----------------------------------------------------------------------------

\* Passengers are finitely many.
LEMMA PassengersAreCounted ==
    ASSUME NEW P \in SUBSET Passengers
    PROVE  Cardinality(P) \in Nat
BY RideBoardAssumption, FS_Subset, FS_CardinalityType

\* So are rides.
LEMMA RidesAreCounted ==
    ASSUME NEW R \in SUBSET RideRows
    PROVE  IsFiniteSet(R) /\ Cardinality(R) \in Nat
BY RideBoardAssumption, FS_Subset, FS_CardinalityType

\* The seats left of a ride are a number.
LEMMA SeatsLeftIsNatural ==
    ASSUME NEW b \in BoardRide, NEW P \in SUBSET Passengers
    PROVE  SeatsLeft(b, P) \in Nat
BY PassengersAreCounted DEF SeatsLeft, BoardRide

\* Departures are numbers.
LEMMA DepartsAreNatural ==
    ASSUME BoardInv, NEW r \in Listed
    PROVE  board[r].departs \in Nat
<1>1. board[r] \in BoardRide
  BY DEF BoardInv, BoardTypeOK, Listed
<1>2. board[r].departs \in Departures \cup {0}
  BY <1>1 DEF BoardRide
<1>3. \A d \in Departures : d \in Nat
  BY RideBoardAssumption
<1>. QED
  BY <1>2, <1>3

\* The invariant is what the pages promise.
LEMMA BoardIsTrue == BoardInv => BoardFollowsTheRides
<1> SUFFICES ASSUME BoardInv PROVE BoardFollowsTheRides
  OBVIOUS
<1>1. SeatsShownAgree
  BY DEF BoardInv, UpcomingInv, SeatsShownAgree, SeatsLeftInMine, SeatsLeftInSearch, Rows
<1>2. SeatBookedIsBooked
  BY DEF BoardInv, DetailInv, SeatBookedIsBooked, Label
<1>3. MissedWasMovedOrTied
  <2> SUFFICES ASSUME walk.page * RidesPerPage >= Cardinality(Listed),
                      NEW r \in walk.due, r \notin walk.seen, r \notin walk.moved
               PROVE  FALSE
    BY DEF MissedWasMovedOrTied
  <2>1. r \in Listed /\ walk.page * RidesPerPage <= Cardinality(Before(r))
    BY DEF BoardInv, WalkInv, BoardTypeOK
  <2>2. IsFiniteSet(Listed) /\ Cardinality(Listed) \in Nat /\ Cardinality(Before(r)) \in Nat
    <3>1. Listed \in SUBSET RideRows /\ Before(r) \in SUBSET RideRows
      BY DEF Listed, Before
    <3>. QED
      BY <3>1, RidesAreCounted
  <2>3. board[r].departs \in Nat
    BY <2>1, DepartsAreNatural
  <2>4. Before(r) \subseteq Listed \ {r}
    BY <2>3 DEF Before
  <2>5. IsFiniteSet(Listed \ {r}) /\ Cardinality(Listed \ {r}) = Cardinality(Listed) - 1
    BY <2>1, <2>2, FS_RemoveElement
  <2>6. Cardinality(Before(r)) <= Cardinality(Listed) - 1
    BY <2>4, <2>5, FS_Subset
  <2>7. walk.page * RidesPerPage \in Nat
    BY RideBoardAssumption DEF BoardInv, WalkInv
  <2>. QED
    BY <2>1, <2>2, <2>6, <2>7
<1>. QED
  BY <1>1, <1>2, <1>3 DEF BoardFollowsTheRides, BoardInv

\* The initial states have the invariant.
LEMMA BoardInitInv == BoardInit => BoardInv
<1> SUFFICES ASSUME BoardInit PROVE BoardInv
  OBVIOUS
<1>1. Listed = {}
  BY DEF BoardInit, Listed, NoRide
<1>2. NoRide \in BoardRide /\ NoOffer \in OfferRow
  BY DEF NoRide, BoardRide, BoardStatus, NoOffer, OfferRow
<1>3. BoardTypeOK /\ OffersInv
  BY <1>1, <1>2 DEF BoardInit, BoardTypeOK, OffersInv, NoOffer, NoDetail
<1>4. UpcomingInv /\ SimilarInv /\ TwinsRacedOrEdited
  BY <1>1 DEF BoardInit, UpcomingInv, SimilarInv, TwinsRacedOrEdited, NoOffer
<1>5. DetailInv /\ WalkInv
  BY DEF BoardInit, DetailInv, WalkInv, NoDetail, BoardStatus, JoinStates
<1>. QED
  BY <1>3, <1>4, <1>5 DEF BoardInv

\* FillIn keeps the invariant.
LEMMA FillInInv ==
    ASSUME BoardInv, NEW t \in OfferTabs, NEW route \in Routes, NEW departs \in Departures, NEW seats \in Seats,
           FillIn(t, route, departs, seats)
    PROVE  BoardInv'
<1> DEFINE row == [offer[t] EXCEPT !.route = route, !.departs = departs, !.seats = seats]
<1> USE DEF BoardInv
<1>1. offer[t] \in OfferRow /\ offer[t].pc = "form" /\ UNCHANGED <<board, walk, detail, reload>>
  BY DEF FillIn, OffersInv
<1>2. offer' = [offer EXCEPT ![t] = row]
  BY <1>1 DEF FillIn, OffersInv, OfferRow
<1>3. row \in OfferRow /\ row.pc = "form"
  BY <1>1, RideBoardAssumption DEF OfferRow
<1> HIDE DEF row
<1>4. /\ offer' \in [OfferTabs -> OfferRow] /\ offer'[t] = row
      /\ \A u \in OfferTabs : u # t => offer'[u] = offer[u]
  BY <1>2, <1>3 DEF OffersInv
<1>5. BoardTypeOK' /\ OffersInv'
  BY <1>1, <1>4 DEF BoardTypeOK, OffersInv, OfferRow, Listed
<1>6. SimilarInv'
  BY <1>1, <1>3, <1>4 DEF SimilarInv, Similar, Listed
<1>7. UpcomingInv' /\ DetailInv' /\ TwinsRacedOrEdited'
  BY <1>1 DEF UpcomingInv, DetailInv, TwinsRacedOrEdited, Listed, Rows
<1>8. WalkInv'
  BY <1>1 DEF WalkInv, Listed, Before
<1>. QED
  BY <1>5, <1>6, <1>7, <1>8

\* CheckOffer keeps the invariant.
LEMMA CheckOfferInv ==
    ASSUME BoardInv, NEW t \in OfferTabs, CheckOffer(t)
    PROVE  BoardInv'
<1> DEFINE row == [offer[t] EXCEPT !.pc = "checked"]
<1> USE DEF BoardInv
<1>1. /\ offer[t] \in OfferRow /\ Similar(DriverOf[t], offer[t]) = {}
      /\ UNCHANGED <<board, walk, detail, reload>>
  BY DEF CheckOffer, OffersInv
<1>2. offer' = [offer EXCEPT ![t] = row]
  BY <1>1 DEF CheckOffer, OffersInv, OfferRow
<1>3. row \in OfferRow /\ row.route = offer[t].route /\ row.departs = offer[t].departs
  BY <1>1 DEF OfferRow
<1> HIDE DEF row
<1>4. /\ offer' \in [OfferTabs -> OfferRow] /\ offer'[t] = row
      /\ \A u \in OfferTabs : u # t => offer'[u] = offer[u]
  BY <1>2, <1>3 DEF OffersInv
<1>5. BoardTypeOK' /\ OffersInv'
  BY <1>1, <1>4 DEF BoardTypeOK, OffersInv, OfferRow, Listed
<1>6. SimilarInv'
  <2> SUFFICES ASSUME NEW u \in OfferTabs, offer'[u].pc = "checked", ~offer'[u].raced,
                      NEW s \in Listed, board[s].status = "UPCOMING", board[s].driver = DriverOf[u],
                      board[s].route = offer'[u].route, board[s].departs = offer'[u].departs
               PROVE  board[s].edited
    BY <1>1 DEF SimilarInv, Similar, Listed
  <2>1. CASE u = t
    <3>1. s \in Similar(DriverOf[t], offer[t])
      BY <1>3, <1>4, <2>1 DEF Similar
    <3>. QED
      BY <1>1, <3>1
  <2>2. CASE u # t
    <3>1. offer'[u] = offer[u]
      BY <1>4, <2>2
    <3>2. s \in Similar(DriverOf[u], offer[u])
      BY <3>1 DEF Similar
    <3>. QED
      BY <3>1, <3>2 DEF SimilarInv
  <2>. QED
    BY <2>1, <2>2
<1>7. UpcomingInv' /\ DetailInv' /\ TwinsRacedOrEdited'
  BY <1>1 DEF UpcomingInv, DetailInv, TwinsRacedOrEdited, Listed, Rows
<1>8. WalkInv'
  BY <1>1 DEF WalkInv, Listed, Before
<1>. QED
  BY <1>5, <1>6, <1>7, <1>8

\* A new ride: those who checked before it know of it, and it goes past nobody.
LEMMA CreateRideInv ==
    ASSUME BoardInv, NEW t \in OfferTabs, NEW r \in RideRows, CreateRide(t, r)
    PROVE  BoardInv'
<1> DEFINE new == [NoRide EXCEPT !.driver = DriverOf[t], !.route = offer[t].route,
                                 !.departs = offer[t].departs, !.seats = offer[t].seats,
                                 !.status = "UPCOMING", !.raced = offer[t].raced]
<1> USE DEF BoardInv
<1>1. /\ offer[t] \in OfferRow /\ offer[t].pc = "checked" /\ board[r] = NoRide
      /\ board' = [board EXCEPT ![r] = new] /\ UNCHANGED <<walk, detail, reload>>
  BY DEF CreateRide, OffersInv
<1>2. /\ new \in BoardRide /\ new.driver = DriverOf[t] /\ new.route = offer[t].route
      /\ new.departs = offer[t].departs /\ new.status = "UPCOMING" /\ new.raced = offer[t].raced
      /\ new.joined = {} /\ new.travelled = {} /\ new.off = {}
  BY <1>1 DEF NoRide, BoardRide, BoardStatus, OfferRow, Drivers
<1> HIDE DEF new
<1>3. /\ board' \in [RideRows -> BoardRide] /\ board'[r] = new
      /\ \A s \in RideRows : s # r => board'[s] = board[s]
  BY <1>1, <1>2 DEF BoardTypeOK
<1>4. Listed' = Listed \cup {r} /\ r \notin Listed
  BY <1>1, <1>2, <1>3 DEF Listed, NoRide
<1>5. PICK kept \in {NoOffer, [offer[t] EXCEPT !.pc = "form", !.raced = FALSE]} :
         offer' = [u \in OfferTabs |->
                      IF u = t THEN kept
                      ELSE IF u \in Overtakes(t) THEN [offer[u] EXCEPT !.raced = TRUE]
                      ELSE offer[u]]
  BY DEF CreateRide
<1>6. kept \in OfferRow /\ kept.pc = "form"
  <2>1. CASE kept = NoOffer
    BY <2>1 DEF NoOffer, OfferRow
  <2>2. CASE kept = [offer[t] EXCEPT !.pc = "form", !.raced = FALSE]
    BY <1>1, <2>2 DEF OfferRow
  <2>. QED
    BY <2>1, <2>2
<1>7. ASSUME NEW u \in OfferTabs
      PROVE  /\ offer'[u] \in OfferRow
             /\ u = t => offer'[u].pc = "form"
             /\ u # t => /\ offer'[u].pc = offer[u].pc /\ offer'[u].route = offer[u].route
                         /\ offer'[u].departs = offer[u].departs
                         /\ ~offer'[u].raced => ~offer[u].raced /\ u \notin Overtakes(t)
  <2>1. offer[u] \in OfferRow
    BY DEF OffersInv
  <2>2. CASE u # t /\ u \in Overtakes(t)
    <3>1. offer'[u] = [offer[u] EXCEPT !.raced = TRUE]
      BY <1>5, <2>2
    <3>. QED
      BY <2>1, <2>2, <3>1 DEF OfferRow
  <2>3. CASE ~(u # t /\ u \in Overtakes(t))
    BY <1>5, <1>6, <2>1, <2>3
  <2>. QED
    BY <2>2, <2>3
<1>8. OffersInv'
  BY <1>5, <1>7 DEF OffersInv
<1>9. BoardTypeOK'
  BY <1>1, <1>2, <1>3, <1>4, <1>7 DEF BoardTypeOK, OfferRow, Listed
<1>10. UpcomingInv'
  BY <1>2, <1>3, <1>4 DEF UpcomingInv, Listed
<1>11. SimilarInv'
  <2> SUFFICES ASSUME NEW u \in OfferTabs, offer'[u].pc = "checked", ~offer'[u].raced,
                      NEW s \in Listed', board'[s].status = "UPCOMING", board'[s].driver = DriverOf[u],
                      board'[s].route = offer'[u].route, board'[s].departs = offer'[u].departs
               PROVE  board'[s].edited
    BY DEF SimilarInv, Similar
  <2>1. /\ u # t /\ offer[u].pc = "checked" /\ ~offer[u].raced /\ u \notin Overtakes(t)
        /\ offer'[u].route = offer[u].route /\ offer'[u].departs = offer[u].departs
    BY <1>7
  <2>2. CASE s = r
    <3>1. u \in Overtakes(t)
      BY <1>2, <1>3, <2>1, <2>2 DEF Overtakes
    <3>. QED
      BY <2>1, <3>1
  <2>3. CASE s # r
    <3>1. s \in Similar(DriverOf[u], offer[u]) /\ board'[s] = board[s]
      BY <1>3, <1>4, <2>1, <2>3 DEF Similar, Listed
    <3>. QED
      BY <2>1, <3>1 DEF SimilarInv
  <2>. QED
    BY <2>2, <2>3
<1>12. TwinsRacedOrEdited'
  <2>1. ASSUME NEW s \in Listed, board[s].status = "UPCOMING", board[s].driver = new.driver,
               board[s].route = new.route, board[s].departs = new.departs
        PROVE  new.raced \/ board[s].edited
    <3>1. s \in Similar(DriverOf[t], offer[t])
      BY <1>2, <2>1 DEF Similar
    <3>. QED
      BY <1>1, <1>2, <3>1 DEF SimilarInv
  <2>. QED
    BY <1>3, <1>4, <2>1 DEF TwinsRacedOrEdited, Listed
<1>13. WalkInv'
  <2> SUFFICES ASSUME NEW s \in walk.due, s \notin walk.seen, s \notin walk.moved
               PROVE  walk.page * RidesPerPage <= Cardinality(Before(s)')
    BY <1>1 DEF WalkInv
  <2>1. s \in Listed /\ s # r /\ board'[s] = board[s]
    BY <1>3, <1>4 DEF BoardTypeOK, Listed
  <2>2. Before(s) \subseteq Before(s)'
    BY <1>3, <1>4, <2>1 DEF Before, Listed
  <2>3. IsFiniteSet(Before(s)') /\ Cardinality(Before(s)') \in Nat /\ Cardinality(Before(s)) \in Nat
    <3>1. Before(s)' \in SUBSET RideRows /\ Before(s) \in SUBSET RideRows
      BY DEF Before, Listed
    <3>. QED
      BY <3>1, RidesAreCounted
  <2>4. Cardinality(Before(s)) <= Cardinality(Before(s)')
    BY <2>2, <2>3, FS_Subset
  <2>5. walk.page * RidesPerPage <= Cardinality(Before(s)) /\ walk.page * RidesPerPage \in Nat
    BY RideBoardAssumption DEF WalkInv
  <2>. QED
    BY <2>3, <2>4, <2>5
<1>14. DetailInv'
  BY <1>1, <1>3, <1>4 DEF DetailInv, Listed, Rows
<1>. QED
  BY <1>8, <1>9, <1>10, <1>11, <1>12, <1>13, <1>14

\* What a step that books, leaves or ends a ride keeps: where and when it goes, who drives it,
\* and that whoever has had a booking still has or has given it up.
LEMMA SeatsChange ==
    ASSUME BoardInv, NEW r \in Listed, NEW b \in BoardRide, board' = [board EXCEPT ![r] = b],
           b.driver = board[r].driver, b.route = board[r].route, b.departs = board[r].departs,
           b.raced = board[r].raced, b.edited = board[r].edited,
           b.status \in {"UPCOMING", "COMPLETED", "CANCELLED"},
           b.status = "UPCOMING" => /\ board[r].status = "UPCOMING"
                                    /\ b.travelled = {} /\ b.off = {},
           b.status # "UPCOMING" => b.joined = {},
           b.travelled \cap (b.joined \cup b.off) = {},
           Rows(board[r]) \cup board[r].gone \subseteq Rows(b) \cup b.gone,
           UNCHANGED <<offer, walk>>
    PROVE  /\ board' \in [RideRows -> BoardRide] /\ board'[r] = b
           /\ \A s \in RideRows : s # r => board'[s] = board[s]
           /\ Listed' = Listed
           /\ \A s \in Listed : board'[s].travelled \cap (board'[s].joined \cup board'[s].off) = {}
           /\ \A s \in Listed : board'[s].status # "UPCOMING" => board'[s].joined = {}
           /\ OffersInv' /\ UpcomingInv' /\ SimilarInv' /\ WalkInv' /\ TwinsRacedOrEdited'
           /\ \A s \in RideRows : Rows(board[s]) \cup board[s].gone \subseteq Rows(board'[s]) \cup board'[s].gone
<1> USE DEF BoardInv
<1>1. r \in RideRows /\ board[r].status # "none"
  BY DEF Listed
<1>2. /\ board' \in [RideRows -> BoardRide] /\ board'[r] = b
      /\ \A s \in RideRows : s # r => board'[s] = board[s]
  BY <1>1 DEF BoardTypeOK
<1>3. Listed' = Listed
  BY <1>1, <1>2 DEF Listed
<1>4. \A s \in Listed : /\ s \in RideRows /\ board'[s].driver = board[s].driver
                        /\ board'[s].route = board[s].route /\ board'[s].departs = board[s].departs
                        /\ board'[s].raced = board[s].raced /\ board'[s].edited = board[s].edited
                        /\ board'[s].status = "UPCOMING" => board[s].status = "UPCOMING"
  BY <1>2 DEF Listed
<1>5. /\ \A s \in Listed : board'[s].travelled \cap (board'[s].joined \cup board'[s].off) = {}
      /\ \A s \in Listed : board'[s].status # "UPCOMING" => board'[s].joined = {}
  BY <1>2, <1>4 DEF BoardTypeOK
<1>6. OffersInv' /\ UpcomingInv'
  BY <1>2, <1>3, <1>4 DEF OffersInv, UpcomingInv
<1>7. SimilarInv'
  <2> SUFFICES ASSUME NEW u \in OfferTabs, offer[u].pc = "checked", ~offer[u].raced,
                      NEW s \in Listed, board'[s].status = "UPCOMING", board'[s].driver = DriverOf[u],
                      board'[s].route = offer[u].route, board'[s].departs = offer[u].departs
               PROVE  board'[s].edited
    BY <1>3 DEF SimilarInv, Similar
  <2>1. s \in Similar(DriverOf[u], offer[u])
    BY <1>4 DEF Similar
  <2>. QED
    BY <1>4, <2>1 DEF SimilarInv
<1>8. TwinsRacedOrEdited'
  BY <1>3, <1>4 DEF TwinsRacedOrEdited
<1>9. WalkInv'
  <2>1. \A s \in Listed : Before(s)' = Before(s)
    BY <1>3, <1>4 DEF Before
  <2>2. walk.due \subseteq Listed
    BY DEF BoardTypeOK
  <2>. QED
    BY <2>1, <2>2 DEF WalkInv
<1>10. \A s \in RideRows : Rows(board[s]) \cup board[s].gone \subseteq Rows(board'[s]) \cup board'[s].gone
  BY <1>2
<1>. QED
  BY <1>2, <1>3, <1>5, <1>6, <1>7, <1>8, <1>9, <1>10

\* A booking that comes, goes or ends, on a ride that stays what it is.
LEMMA SeatStepInv ==
    ASSUME BoardInv, NEW r \in Listed, NEW b \in BoardRide, board' = [board EXCEPT ![r] = b],
           b.driver = board[r].driver, b.route = board[r].route, b.departs = board[r].departs,
           b.raced = board[r].raced, b.edited = board[r].edited,
           b.status \in {"UPCOMING", "COMPLETED", "CANCELLED"},
           b.status = "UPCOMING" => /\ board[r].status = "UPCOMING"
                                    /\ b.travelled = {} /\ b.off = {},
           b.status # "UPCOMING" => b.joined = {},
           b.travelled \cap (b.joined \cup b.off) = {},
           Rows(board[r]) \cup board[r].gone \subseteq Rows(b) \cup b.gone,
           UNCHANGED <<offer, walk, detail, reload>>
    PROVE  BoardInv'
<1>1. /\ board' \in [RideRows -> BoardRide] /\ Listed' = Listed
      /\ \A s \in Listed : board'[s].travelled \cap (board'[s].joined \cup board'[s].off) = {}
      /\ \A s \in Listed : board'[s].status # "UPCOMING" => board'[s].joined = {}
      /\ OffersInv' /\ UpcomingInv' /\ SimilarInv' /\ WalkInv' /\ TwinsRacedOrEdited'
      /\ \A s \in RideRows : Rows(board[s]) \cup board[s].gone \subseteq Rows(board'[s]) \cup board'[s].gone
  BY SeatsChange
<1>2. BoardTypeOK'
  BY <1>1 DEF BoardInv, BoardTypeOK
<1>3. DetailInv'
  BY <1>1 DEF BoardInv, DetailInv, Listed
<1>. QED
  BY <1>1, <1>2, <1>3 DEF BoardInv

\* JoinRide keeps the invariant.
LEMMA JoinRideInv ==
    ASSUME BoardInv, NEW r \in Listed, NEW p \in Passengers, JoinRide(r, p)
    PROVE  BoardInv'
<1> DEFINE b == [board[r] EXCEPT !.joined = @ \cup {p}]
<1>1. board[r] \in BoardRide /\ r \in RideRows /\ board[r].status = "UPCOMING"
  BY DEF BoardInv, BoardTypeOK, Listed, JoinRide, MayJoin
<1>2. board[r].travelled = {} /\ board[r].off = {}
  BY <1>1 DEF BoardInv, UpcomingInv
<1>3. board' = [board EXCEPT ![r] = b] /\ UNCHANGED <<offer, walk, detail, reload>>
  BY <1>1 DEF JoinRide, BoardInv, BoardTypeOK, BoardRide
<1>4. /\ b \in BoardRide /\ b.driver = board[r].driver /\ b.route = board[r].route /\ b.departs = board[r].departs
      /\ b.raced = board[r].raced /\ b.edited = board[r].edited /\ b.status = board[r].status
      /\ b.joined = board[r].joined \cup {p} /\ b.travelled = board[r].travelled /\ b.off = board[r].off
      /\ b.gone = board[r].gone
  BY <1>1 DEF BoardRide
<1> HIDE DEF b
<1>5. Rows(board[r]) \cup board[r].gone \subseteq Rows(b) \cup b.gone
  BY <1>4 DEF Rows
<1>. QED
  BY <1>1, <1>2, <1>3, <1>4, <1>5, SeatStepInv

\* LeaveRide keeps the invariant.
LEMMA LeaveRideInv ==
    ASSUME BoardInv, NEW r \in Listed, NEW p \in Passengers, LeaveRide(r, p)
    PROVE  BoardInv'
<1> DEFINE b == [board[r] EXCEPT !.joined = @ \ {p}, !.gone = @ \cup {p}]
<1>1. board[r] \in BoardRide /\ r \in RideRows /\ board[r].status = "UPCOMING"
  BY DEF BoardInv, BoardTypeOK, Listed, LeaveRide
<1>2. board[r].travelled = {} /\ board[r].off = {}
  BY <1>1 DEF BoardInv, UpcomingInv
<1>3. board' = [board EXCEPT ![r] = b] /\ UNCHANGED <<offer, walk, detail, reload>>
  BY <1>1 DEF LeaveRide, BoardInv, BoardTypeOK, BoardRide
<1>4. /\ b \in BoardRide /\ b.driver = board[r].driver /\ b.route = board[r].route /\ b.departs = board[r].departs
      /\ b.raced = board[r].raced /\ b.edited = board[r].edited /\ b.status = board[r].status
      /\ b.joined = board[r].joined \ {p} /\ b.travelled = board[r].travelled /\ b.off = board[r].off
      /\ b.gone = board[r].gone \cup {p}
  BY <1>1 DEF BoardRide
<1> HIDE DEF b
<1>5. Rows(board[r]) \cup board[r].gone \subseteq Rows(b) \cup b.gone
  BY <1>4 DEF Rows
<1>. QED
  BY <1>1, <1>2, <1>3, <1>4, <1>5, SeatStepInv

\* CompleteRide keeps the invariant.
LEMMA CompleteRideInv ==
    ASSUME BoardInv, NEW r \in Listed, NEW boarded \in SUBSET Passengers, CompleteRide(r, boarded)
    PROVE  BoardInv'
<1> DEFINE b == [board[r] EXCEPT !.status = "COMPLETED", !.joined = {},
                                 !.travelled = boarded, !.off = board[r].joined \ boarded]
<1>1. board[r] \in BoardRide /\ r \in RideRows /\ board[r].status = "UPCOMING" /\ boarded \subseteq board[r].joined
  BY DEF BoardInv, BoardTypeOK, Listed, CompleteRide
<1>2. board[r].travelled = {} /\ board[r].off = {}
  BY <1>1 DEF BoardInv, UpcomingInv
<1>3. board' = [board EXCEPT ![r] = b] /\ UNCHANGED <<offer, walk, detail, reload>>
  BY <1>1 DEF CompleteRide, BoardInv, BoardTypeOK, BoardRide
<1>4. /\ b \in BoardRide /\ b.driver = board[r].driver /\ b.route = board[r].route /\ b.departs = board[r].departs
      /\ b.raced = board[r].raced /\ b.edited = board[r].edited /\ b.status = "COMPLETED"
      /\ b.joined = {} /\ b.travelled = boarded /\ b.off = board[r].joined \ boarded
      /\ b.gone = board[r].gone
  BY <1>1 DEF BoardRide, BoardStatus
<1> HIDE DEF b
<1>5. Rows(board[r]) \cup board[r].gone \subseteq Rows(b) \cup b.gone
  BY <1>2, <1>4 DEF Rows
<1>. QED
  BY <1>1, <1>2, <1>3, <1>4, <1>5, SeatStepInv

\* CancelRide keeps the invariant.
LEMMA CancelRideInv ==
    ASSUME BoardInv, NEW r \in Listed, CancelRide(r)
    PROVE  BoardInv'
<1> DEFINE b == [board[r] EXCEPT !.status = "CANCELLED", !.joined = {}, !.off = board[r].joined]
<1>1. board[r] \in BoardRide /\ r \in RideRows /\ board[r].status = "UPCOMING"
  BY DEF BoardInv, BoardTypeOK, Listed, CancelRide
<1>2. board[r].travelled = {} /\ board[r].off = {}
  BY <1>1 DEF BoardInv, UpcomingInv
<1>3. board' = [board EXCEPT ![r] = b] /\ UNCHANGED <<offer, walk, detail, reload>>
  BY <1>1 DEF CancelRide, BoardInv, BoardTypeOK, BoardRide
<1>4. /\ b \in BoardRide /\ b.driver = board[r].driver /\ b.route = board[r].route /\ b.departs = board[r].departs
      /\ b.raced = board[r].raced /\ b.edited = board[r].edited /\ b.status = "CANCELLED"
      /\ b.joined = {} /\ b.travelled = board[r].travelled /\ b.off = board[r].joined
      /\ b.gone = board[r].gone
  BY <1>1 DEF BoardRide, BoardStatus
<1> HIDE DEF b
<1>5. Rows(board[r]) \cup board[r].gone \subseteq Rows(b) \cup b.gone
  BY <1>2, <1>4 DEF Rows
<1>. QED
  BY <1>1, <1>2, <1>3, <1>4, <1>5, SeatStepInv

\* A driver's update: it makes the ride edited, and whoever it goes past is moved.
LEMMA UpdateRideInv ==
    ASSUME BoardInv, NEW r \in Listed, NEW route \in Routes, NEW departs \in Departures, NEW seats \in Seats,
           UpdateRide(r, route, departs, seats)
    PROVE  BoardInv'
<1> DEFINE b == [board[r] EXCEPT !.route = route, !.departs = departs, !.seats = seats, !.edited = TRUE]
<1> USE DEF BoardInv
<1>1. board[r] \in BoardRide /\ r \in RideRows /\ board[r].status = "UPCOMING"
  BY DEF BoardTypeOK, Listed, UpdateRide
<1>2. /\ board' = [board EXCEPT ![r] = b] /\ UNCHANGED <<offer, detail, reload>>
      /\ walk' = IF departs = board[r].departs THEN walk
                 ELSE [walk EXCEPT !.moved = @ \cup PassedBy(board[r].departs, departs)]
  BY <1>1 DEF UpdateRide, BoardTypeOK, BoardRide
<1>3. /\ b \in BoardRide /\ b.driver = board[r].driver /\ b.departs = departs /\ b.edited
      /\ b.status = board[r].status
      /\ b.joined = board[r].joined /\ b.travelled = board[r].travelled /\ b.off = board[r].off
      /\ b.gone = board[r].gone
  BY <1>1, RideBoardAssumption DEF BoardRide
<1> HIDE DEF b
<1>4. /\ board' \in [RideRows -> BoardRide] /\ board'[r] = b
      /\ \A s \in RideRows : s # r => board'[s] = board[s]
  BY <1>1, <1>2, <1>3 DEF BoardTypeOK
<1>5. Listed' = Listed
  BY <1>1, <1>3, <1>4 DEF Listed
<1>6. \A s \in Listed : /\ s \in RideRows /\ board'[s].status = board[s].status
                        /\ board'[s].joined = board[s].joined /\ board'[s].travelled = board[s].travelled
                        /\ board'[s].off = board[s].off /\ board'[s].gone = board[s].gone
  BY <1>3, <1>4 DEF Listed
<1>7. /\ walk'.page = walk.page /\ walk'.seen = walk.seen /\ walk'.due = walk.due
      /\ walk.moved \subseteq walk'.moved /\ walk'.moved \subseteq walk.moved \cup Listed
      /\ departs # board[r].departs => PassedBy(board[r].departs, departs) \subseteq walk'.moved
  BY <1>2 DEF PassedBy, WalkInv
<1>8. BoardTypeOK'
  BY <1>2, <1>4, <1>5, <1>6, <1>7 DEF BoardTypeOK
<1>9. OffersInv' /\ UpcomingInv' /\ DetailInv'
  BY <1>2, <1>5, <1>6 DEF OffersInv, UpcomingInv, DetailInv, Rows
<1>10. SimilarInv'
  <2> SUFFICES ASSUME NEW u \in OfferTabs, offer[u].pc = "checked", ~offer[u].raced,
                      NEW s \in Listed, board'[s].status = "UPCOMING", board'[s].driver = DriverOf[u],
                      board'[s].route = offer[u].route, board'[s].departs = offer[u].departs
               PROVE  board'[s].edited
    BY <1>2, <1>5 DEF SimilarInv, Similar
  <2>1. CASE s = r
    BY <1>3, <1>4, <2>1
  <2>2. CASE s # r
    <3>1. board'[s] = board[s] /\ s \in Similar(DriverOf[u], offer[u])
      BY <1>4, <2>2 DEF Similar, Listed
    <3>. QED
      BY <3>1 DEF SimilarInv
  <2>. QED
    BY <2>1, <2>2
<1>11. TwinsRacedOrEdited'
  <2> SUFFICES ASSUME NEW s \in Listed, NEW q \in Listed, s # q,
                      board'[s].status = "UPCOMING", board'[q].status = "UPCOMING",
                      board'[s].driver = board'[q].driver, board'[s].route = board'[q].route,
                      board'[s].departs = board'[q].departs
               PROVE  \E x \in {s, q} : board'[x].raced \/ board'[x].edited
    BY <1>5 DEF TwinsRacedOrEdited
  <2>1. CASE s = r \/ q = r
    BY <1>3, <1>4, <2>1
  <2>2. CASE s # r /\ q # r
    <3>1. board'[s] = board[s] /\ board'[q] = board[q]
      BY <1>4, <2>2 DEF Listed
    <3>. QED
      BY <3>1 DEF TwinsRacedOrEdited
  <2>. QED
    BY <2>1, <2>2
<1>12. WalkInv'
  <2> SUFFICES ASSUME NEW s \in walk.due, s \notin walk.seen, s \notin walk'.moved
               PROVE  walk.page * RidesPerPage <= Cardinality(Before(s)')
    <3>1. walk' \in [page: Nat, seen: SUBSET RideRows, due: SUBSET RideRows, moved: SUBSET RideRows]
      <4>1. Listed \subseteq RideRows
        BY DEF Listed
      <4>. QED
        BY <1>2, <4>1 DEF PassedBy, WalkInv
    <3>. QED
      BY <1>7, <3>1 DEF WalkInv
  <2>1. s \in Listed /\ walk.page * RidesPerPage <= Cardinality(Before(s))
    <3>1. s \notin walk.moved
      BY <1>7
    <3>. QED
      BY <3>1 DEF WalkInv, BoardTypeOK
  <2>2. CASE departs = board[r].departs
    <3>1. \A q \in Listed : board'[q].departs = board[q].departs
      BY <1>3, <1>4, <2>2 DEF Listed
    <3>2. Before(s)' = Before(s)
      BY <1>5, <2>1, <3>1 DEF Before
    <3>. QED
      BY <2>1, <3>2
  <2>3. CASE departs # board[r].departs
    <3>1. board[s].departs \notin (board[r].departs .. departs) \cup (departs .. board[r].departs)
      BY <1>7, <2>1, <2>3 DEF PassedBy
    <3>2. \A q \in Listed : board[q].departs \in Nat
      BY DepartsAreNatural
    <3>3. departs \in Nat /\ board[r].departs \in Nat /\ board[s].departs \in Nat
      BY <2>1, <3>2, RideBoardAssumption
    <3>4. s # r
      BY <3>1, <3>3
    <3>5. board'[s] = board[s]
      BY <1>4, <2>1, <3>4 DEF Listed
    <3>6. departs < board[s].departs <=> board[r].departs < board[s].departs
      BY <3>1, <3>3
    <3>7. Before(s)' = Before(s)
      <4>1. ASSUME NEW q \in Listed
            PROVE  board'[q].departs < board'[s].departs <=> board[q].departs < board[s].departs
        BY <1>3, <1>4, <3>5, <3>6 DEF Listed
      <4>. QED
        BY <1>5, <4>1 DEF Before
    <3>. QED
      BY <2>1, <3>7
  <2>. QED
    BY <2>2, <2>3
<1>. QED
  BY <1>8, <1>9, <1>10, <1>11, <1>12

\* The page of the ride that so many others come before.
LEMMA PageIsReached ==
    ASSUME NEW n \in Nat, NEW p \in Nat, p * RidesPerPage <= n, n < (p + 1) * RidesPerPage
    PROVE  PageOf(n, p + 1)
<1>1. RidesPerPage \in Nat \ {0}
  BY RideBoardAssumption
<1>2. n \div RidesPerPage = p
  BY <1>1
<1>. QED
  BY <1>2 DEF PageOf

\* The next page has every ride that so many come before and that departs alone.
LEMMA SearchInv ==
    ASSUME BoardInv, Search
    PROVE  BoardInv'
<1> USE DEF BoardInv
<1>1. PICK q \in SearchPages(walk.page + 1) :
         walk' = [page |-> walk.page + 1, seen |-> walk.seen \cup q,
                  due |-> IF walk.page = 0 THEN Listed ELSE walk.due,
                  moved |-> (IF walk.page = 0 THEN {} ELSE walk.moved) \cup {r \in Listed : Beside(r) # {}}]
  BY DEF Search
<1>2. UNCHANGED <<board, offer, detail, reload>>
  BY DEF Search
<1>3. q \subseteq Listed
  BY DEF SearchPages
<1>4. PICK order \in [Listed -> 0..Cardinality(Listed)] :
         /\ \A r \in Listed :
               order[r] \in Cardinality(Before(r)) .. Cardinality(Before(r)) + Cardinality(Beside(r))
         /\ q = {r \in Listed : PageOf(order[r], walk.page + 1)}
  BY DEF SearchPages
<1>5. /\ Listed \subseteq RideRows /\ walk.page \in Nat /\ RidesPerPage \in Nat
      /\ walk.seen \cup walk.due \cup walk.moved \subseteq Listed
  BY RideBoardAssumption DEF WalkInv, BoardTypeOK, Listed
<1>6. walk' \in [page: Nat, seen: SUBSET RideRows, due: SUBSET RideRows, moved: SUBSET RideRows]
  BY <1>1, <1>3, <1>5
<1>7. BoardTypeOK'
  BY <1>1, <1>2, <1>3, <1>5 DEF BoardTypeOK, Listed
<1>8. OffersInv' /\ UpcomingInv' /\ SimilarInv' /\ DetailInv' /\ TwinsRacedOrEdited'
  BY <1>2 DEF OffersInv, UpcomingInv, SimilarInv, Similar, DetailInv, TwinsRacedOrEdited, Listed, Rows
<1>9. WalkInv'
  <2> SUFFICES ASSUME NEW r \in walk'.due, r \notin walk'.seen, r \notin walk'.moved
               PROVE  (walk.page + 1) * RidesPerPage <= Cardinality(Before(r))
    BY <1>1, <1>2, <1>6 DEF WalkInv, Before, Listed
  <2>1. r \in Listed /\ r \notin q /\ r \notin walk.seen /\ Beside(r) = {}
    BY <1>1, <1>5
  <2>2. walk.page * RidesPerPage <= Cardinality(Before(r)) /\ Cardinality(Before(r)) \in Nat
    <3>1. Before(r) \in SUBSET RideRows
      BY <1>5 DEF Before
    <3>2. Cardinality(Before(r)) \in Nat
      BY <3>1, RidesAreCounted
    <3>3. CASE walk.page = 0
      BY <1>5, <3>2, <3>3
    <3>4. CASE walk.page # 0
      BY <1>1, <2>1, <3>2, <3>4 DEF WalkInv
    <3>. QED
      BY <3>3, <3>4
  <2>3. order[r] = Cardinality(Before(r))
    <3>1. Cardinality(Beside(r)) = 0
      BY <2>1, FS_EmptySet
    <3>2. order[r] \in Cardinality(Before(r)) .. Cardinality(Before(r)) + Cardinality(Beside(r))
      BY <1>4, <2>1
    <3>. QED
      BY <2>2, <3>1, <3>2
  <2>4. ~PageOf(Cardinality(Before(r)), walk.page + 1)
    BY <1>4, <2>1, <2>3
  <2>5. (walk.page + 1) * RidesPerPage \in Nat
    BY <1>5
  <2>6. ~(Cardinality(Before(r)) < (walk.page + 1) * RidesPerPage)
    BY <1>5, <2>2, <2>4, PageIsReached
  <2>. QED
    BY <2>2, <2>5, <2>6
<1>. QED
  BY <1>7, <1>8, <1>9

\* Steps of the page of a ride that leave the rides alone.
LEMMA PageStepInv ==
    ASSUME BoardInv, UNCHANGED <<board, offer, walk>>,
           detail' \in [ride: Listed \cup {NoRoute}, status: BoardStatus, left: Nat, join: JoinStates],
           reload' \in BOOLEAN,
           detail'.join # "idle" => detail'.ride \in Listed,
           detail'.join \in {"joined", "success"} =>
              detail'.ride = detail.ride /\ detail.join \in {"joined", "success"}
    PROVE  BoardInv'
<1> USE DEF BoardInv
<1>1. BoardTypeOK' /\ OffersInv'
  BY DEF BoardTypeOK, OffersInv, Listed
<1>2. UpcomingInv' /\ SimilarInv' /\ TwinsRacedOrEdited'
  BY DEF UpcomingInv, SimilarInv, Similar, TwinsRacedOrEdited, Listed
<1>3. WalkInv'
  BY DEF WalkInv, Before, Listed
<1>4. DetailInv'
  BY DEF DetailInv, Listed, Rows
<1>. QED
  BY <1>1, <1>2, <1>3, <1>4

\* Fetch keeps the invariant.
LEMMA FetchInv ==
    ASSUME BoardInv, NEW r \in RideRows, Fetch(r)
    PROVE  BoardInv'
<1>1. /\ r \in Listed /\ UNCHANGED <<board, offer, walk>> /\ reload' = FALSE
      /\ detail.ride = NoRoute \/ detail.ride = r
      /\ detail' = [ride |-> r, status |-> board[r].status, left |-> SeatsLeftInSearch(board[r]), join |-> detail.join]
  BY DEF Fetch
<1>2. board[r] \in BoardRide
  BY DEF BoardInv, BoardTypeOK
<1>3. Rows(board[r]) \in SUBSET Passengers
  BY <1>2 DEF Rows, BoardRide
<1>4. SeatsLeftInSearch(board[r]) \in Nat
  BY <1>2, <1>3, SeatsLeftIsNatural DEF SeatsLeftInSearch
<1>5. /\ detail \in [ride: Listed \cup {NoRoute}, status: BoardStatus, left: Nat, join: JoinStates]
      /\ board[r].status \in BoardStatus /\ detail.join \in JoinStates
  BY <1>2 DEF BoardInv, DetailInv, BoardRide
<1>6. detail' \in [ride: Listed \cup {NoRoute}, status: BoardStatus, left: Nat, join: JoinStates]
  BY <1>1, <1>4, <1>5
<1>7. detail'.ride = r /\ detail'.join = detail.join
  BY <1>1
<1>8. detail.join # "idle" => detail.ride = r
  BY <1>1, RideBoardAssumption DEF BoardInv, DetailInv, Listed
<1>. QED
  BY <1>1, <1>6, <1>7, <1>8, PageStepInv

\* Close keeps the invariant.
LEMMA CloseInv ==
    ASSUME BoardInv, Close
    PROVE  BoardInv'
<1>1. UNCHANGED <<board, offer, walk>> /\ detail' = NoDetail /\ reload' = FALSE
  BY DEF Close
<1>2. /\ NoDetail \in [ride: Listed \cup {NoRoute}, status: BoardStatus, left: Nat, join: JoinStates]
      /\ NoDetail.join = "idle"
  BY DEF NoDetail, BoardStatus, JoinStates
<1>. QED
  BY <1>1, <1>2, PageStepInv

\* BookSeat keeps the invariant.
LEMMA BookSeatInv ==
    ASSUME BoardInv, BookSeat
    PROVE  BoardInv'
<1>1. /\ UNCHANGED <<board, offer, walk, reload>> /\ detail' = [detail EXCEPT !.join = "pending"]
      /\ detail.ride # NoRoute
  BY DEF BookSeat, BookSeatOffered
<1>2. detail \in [ride: Listed \cup {NoRoute}, status: BoardStatus, left: Nat, join: JoinStates] /\ reload \in BOOLEAN
  BY DEF BoardInv, BoardTypeOK, DetailInv
<1>3. /\ detail'.ride = detail.ride /\ detail'.join = "pending"
      /\ detail' \in [ride: Listed \cup {NoRoute}, status: BoardStatus, left: Nat, join: JoinStates]
  BY <1>1, <1>2 DEF JoinStates
<1>4. detail.ride \in Listed
  BY <1>1, <1>2
<1>. QED
  BY <1>1, <1>2, <1>3, <1>4, PageStepInv

\* The server's decision: the booking is there when the page is told of it.
LEMMA DecideBookingInv ==
    ASSUME BoardInv, DecideBooking
    PROVE  BoardInv'
<1> DEFINE r == detail.ride
<1>1. detail \in [ride: Listed \cup {NoRoute}, status: BoardStatus, left: Nat, join: JoinStates] /\ reload \in BOOLEAN
  BY DEF BoardInv, BoardTypeOK, DetailInv
<1>2. r \in Listed /\ UNCHANGED <<offer, walk, reload>>
  BY DEF BoardInv, DetailInv, DecideBooking
<1>3. CASE MayJoin(board[r], Visitor)
  <2> DEFINE b == [board[r] EXCEPT !.joined = @ \cup {Visitor}]
  <2>1. board[r] \in BoardRide /\ r \in RideRows /\ board[r].status = "UPCOMING" /\ Visitor \in Passengers
    BY <1>2, <1>3, RideBoardAssumption DEF BoardInv, BoardTypeOK, Listed, MayJoin
  <2>2. board[r].travelled = {} /\ board[r].off = {}
    BY <1>2, <2>1 DEF BoardInv, UpcomingInv
  <2>3. board' = [board EXCEPT ![r] = b] /\ detail' = [detail EXCEPT !.join = "joined"]
    BY <1>3, <2>1 DEF DecideBooking, BoardInv, BoardTypeOK, BoardRide
  <2>4. /\ b \in BoardRide /\ b.driver = board[r].driver /\ b.route = board[r].route /\ b.departs = board[r].departs
        /\ b.raced = board[r].raced /\ b.edited = board[r].edited /\ b.status = board[r].status
        /\ b.joined = board[r].joined \cup {Visitor} /\ b.travelled = board[r].travelled /\ b.off = board[r].off
        /\ b.gone = board[r].gone
    BY <2>1 DEF BoardRide
  <2> HIDE DEF b
  <2>5. Rows(board[r]) \cup board[r].gone \subseteq Rows(b) \cup b.gone /\ Visitor \in Rows(b)
    BY <2>4 DEF Rows
  <2>6. /\ board' \in [RideRows -> BoardRide] /\ board'[r] = b /\ Listed' = Listed
        /\ \A s \in Listed : board'[s].travelled \cap (board'[s].joined \cup board'[s].off) = {}
        /\ \A s \in Listed : board'[s].status # "UPCOMING" => board'[s].joined = {}
        /\ OffersInv' /\ UpcomingInv' /\ SimilarInv' /\ WalkInv' /\ TwinsRacedOrEdited'
    BY <1>2, <2>1, <2>2, <2>3, <2>4, <2>5, SeatsChange
  <2>7. detail' \in [ride: Listed \cup {NoRoute}, status: BoardStatus, left: Nat, join: JoinStates] /\ detail'.ride = r
    BY <1>1, <2>3 DEF JoinStates
  <2> HIDE DEF r
  <2>8. BoardTypeOK' /\ DetailInv'
    BY <1>1, <1>2, <2>5, <2>6, <2>7 DEF BoardInv, BoardTypeOK, DetailInv
  <2>. QED
    BY <2>6, <2>8 DEF BoardInv
<1>4. CASE ~MayJoin(board[r], Visitor)
  <2>1. UNCHANGED board /\ detail' = [detail EXCEPT !.join = "refused"]
    BY <1>4 DEF DecideBooking
  <2>2. /\ detail'.ride = r /\ detail'.join = "refused"
        /\ detail' \in [ride: Listed \cup {NoRoute}, status: BoardStatus, left: Nat, join: JoinStates]
    BY <1>1, <2>1 DEF JoinStates
  <2>. QED
    BY <1>1, <1>2, <2>1, <2>2, PageStepInv
<1>. QED
  BY <1>3, <1>4

\* BookingAnswer keeps the invariant.
LEMMA BookingAnswerInv ==
    ASSUME BoardInv, BookingAnswer
    PROVE  BoardInv'
<1>1. detail \in [ride: Listed \cup {NoRoute}, status: BoardStatus, left: Nat, join: JoinStates] /\ reload \in BOOLEAN
  BY DEF BoardInv, BoardTypeOK, DetailInv
<1>2. PICK outcome \in JoinOutcomes : /\ detail' = [detail EXCEPT !.join = outcome]
                                      /\ reload' = (reload \/ outcome = "success")
  BY DEF BookingAnswer
<1>3. UNCHANGED <<board, offer, walk>> /\ detail.join \in {"joined", "refused"}
  BY DEF BookingAnswer
<1>4. detail.ride \in Listed
  BY <1>3 DEF BoardInv, DetailInv
<1>5. outcome \in {"success", "error"} /\ (outcome = "success" => detail.join = "joined")
  BY DEF JoinOutcomes
<1>6. /\ detail'.ride = detail.ride /\ detail'.join = outcome /\ reload' \in BOOLEAN
      /\ detail' \in [ride: Listed \cup {NoRoute}, status: BoardStatus, left: Nat, join: JoinStates]
  BY <1>1, <1>2, <1>5 DEF JoinStates
<1>. QED
  BY <1>1, <1>3, <1>4, <1>5, <1>6, PageStepInv

\* Rides, offers, the walk and the page of a ride together.
THEOREM BoardInvariant == BoardSpec => []BoardInv
<1>1. BoardInit => BoardInv
  BY BoardInitInv
<1>2. BoardInv /\ [BoardNext]_boardVars => BoardInv'
  <2> SUFFICES ASSUME BoardInv, [BoardNext]_boardVars PROVE BoardInv'
    OBVIOUS
  <2>1. CASE OfferSteps
    BY <2>1, FillInInv, CheckOfferInv, CreateRideInv DEF OfferSteps
  <2>2. CASE Update
    BY <2>2, UpdateRideInv DEF Update
  <2>3. CASE SeatSteps
    BY <2>3, JoinRideInv, LeaveRideInv, CompleteRideInv, CancelRideInv DEF SeatSteps
  <2>4. CASE Search
    BY <2>4, SearchInv
  <2>5. CASE PageSteps
    BY <2>5, FetchInv, CloseInv, BookSeatInv, DecideBookingInv, BookingAnswerInv DEF PageSteps
  <2>6. CASE UNCHANGED boardVars
    <3>1. UNCHANGED <<board, offer, walk, detail, reload>>
      BY <2>6 DEF boardVars
    <3>. QED
      BY <3>1, PageStepInv DEF BoardInv, BoardTypeOK, DetailInv
  <2>. QED
    BY <2>1, <2>2, <2>3, <2>4, <2>5, <2>6 DEF BoardNext
<1>. QED
  BY <1>1, <1>2, PTL DEF BoardSpec

\* Offers, bookings, the walk through the list and the page of a ride follow the rides of the
\* database as far as they were read (rides.service.ts, app/ride-sharing).
THEOREM BoardIsFollowed == BoardSpec => []BoardFollowsTheRides
BY BoardInvariant, BoardIsTrue, PTL

\* Rows, offers, walks and the page of a ride keep their shape (rides.service.ts, app/ride-sharing).
THEOREM BoardTypes == BoardSpec => []BoardTypeOK
BY BoardInvariant, PTL DEF BoardInv

-----------------------------------------------------------------------------
(* The suite, MCRideSharing *)

\* However the suite interleaves its components, each does only what it does alone: what is proved of
\* a component holds in the suite.
THEOREM SuiteIsOfItsComponents == SuiteSpec => Spec /\ RoomSpec /\ BoardSpec
<1>1. SuiteInit => Init /\ RoomInit /\ BoardInit
  BY DEF SuiteInit
<1>2. ASSUME [SuiteNext]_SuiteVars
      PROVE  /\ [Next]_vars
             /\ [RoomNext]_roomVars
             /\ [BoardNext]_boardVars
  <2>1. CASE SuiteNext
    BY <2>1 DEF SuiteNext, RoomNext, BoardNext, OfferFocus, WalkFocus, PageFocus
  <2>2. CASE UNCHANGED SuiteVars
    BY <2>2 DEF SuiteVars
  <2>. QED
    BY <1>2, <2>1, <2>2
<1>. QED
  BY <1>1, <1>2, PTL DEF SuiteSpec, Spec, RoomSpec, BoardSpec

\* Every component of the suite keeps its shape.
THEOREM SuiteTypes == SuiteSpec => []SuiteTypeOK
  BY SuiteIsOfItsComponents, RidesTypes, RoomsTypeOK, BoardTypes, PTL DEF SuiteTypeOK

=============================================================================
