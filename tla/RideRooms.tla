------------------------------ MODULE RideRooms ------------------------------
(***************************************************************************)
(* The sockets of a ride: its chat (apps/api/src/rides/chat) and the       *)
(* driver's location (apps/api/src/rides/gateway).                         *)
(*                                                                         *)
(* Both gateways ask the database, at every event, whether the sender      *)
(* drives the ride or has a booking, and both put sockets in a room that   *)
(* nothing but the socket's end takes them out of.  Joining the chat reads *)
(* the stored messages after it has joined.                                *)
(***************************************************************************)
EXTENDS Naturals, Sequences, FiniteSets

CONSTANTS
    Riders,      \* users of the university other than the driver
    Driver,
    HistorySize, \* the messages joinChat sends: take in its query
    MaxTalk      \* bound on the messages ever stored

ASSUME RideRoomsAssumption ==
    /\ Driver \notin Riders
    /\ HistorySize \in Nat /\ MaxTalk \in Nat

VARIABLES
    booked,    \* riders whose booking is JOINED or BOARDED
    chat,      \* rows of ride_messages in the order of createdAt: their senders
    joining,   \* joinChat of each socket: "out", "allowed", "in", "told"
    sending,   \* per user: the rows stored for it and not yet sent to the room
    inbox,     \* the messages each chat socket was sent
    onMap,     \* users whose location socket is in the room
    sharing,   \* a location past its checks
    seenAt,    \* users whose location socket was sent a location
    everIn,    \* history: riders that ever had a booking
    since      \* history: the messages there were when each socket joined

roomVars == <<booked, chat, joining, sending, inbox, onMap, sharing, seenAt, everIn, since>>

-----------------------------------------------------------------------------

RoomUsers == Riders \cup {Driver}

RoomInit ==
    /\ booked = {}
    /\ chat = <<>>
    /\ joining = [u \in RoomUsers |-> "out"]
    /\ sending = {}
    /\ inbox = [u \in RoomUsers |-> {}]
    /\ onMap = {}
    /\ sharing = FALSE
    /\ seenAt = {}
    /\ everIn = {}
    /\ since = [u \in RoomUsers |-> 0]

\* assertRideParticipant
AssertRideParticipant(u) == u = Driver \/ u \in booked

\* getAuthorizedRide
GetAuthorizedRide(u) == u = Driver \/ u \in booked

\* Rides: a booking is made, or ends.
RoomBook(u) ==
    /\ u \in Riders \ booked
    /\ booked' = booked \cup {u}
    /\ everIn' = everIn \cup {u}
    /\ UNCHANGED <<chat, joining, sending, inbox, onMap, sharing, seenAt, since>>

RoomUnbook(u) ==
    /\ u \in booked
    /\ booked' = booked \ {u}
    /\ UNCHANGED <<chat, joining, sending, inbox, onMap, sharing, seenAt, everIn, since>>

-----------------------------------------------------------------------------
(* Chat *)

AskToJoin(u) ==
    /\ joining[u] = "out"
    /\ AssertRideParticipant(u)
    /\ joining' = [joining EXCEPT ![u] = "allowed"]
    /\ UNCHANGED <<booked, chat, sending, inbox, onMap, sharing, seenAt, everIn, since>>

\* client.join, whatever became of the booking meanwhile.
JoinChat(u) ==
    /\ joining[u] = "allowed"
    /\ joining' = [joining EXCEPT ![u] = "in"]
    /\ since' = [since EXCEPT ![u] = Len(chat)]
    /\ UNCHANGED <<booked, chat, sending, inbox, onMap, sharing, seenAt, everIn>>

\* orderBy createdAt asc, take HistorySize: the oldest messages.
History == 1..(IF Len(chat) < HistorySize THEN Len(chat) ELSE HistorySize)

SendHistory(u) ==
    /\ joining[u] = "in"
    /\ inbox' = [inbox EXCEPT ![u] = @ \cup History]
    /\ joining' = [joining EXCEPT ![u] = "told"]
    /\ UNCHANGED <<booked, chat, sending, onMap, sharing, seenAt, everIn, since>>

\* sendMessage; the sender need not have joined.
StoreMessage(u) ==
    /\ AssertRideParticipant(u)
    /\ Len(chat) < MaxTalk
    /\ chat' = Append(chat, u)
    /\ sending' = sending \cup {Len(chat) + 1}
    /\ UNCHANGED <<booked, joining, inbox, onMap, sharing, seenAt, everIn, since>>

\* Variant: only sockets that have had their history.
Bug_InChat(u) == joining[u] = "told"

\* The room of the chat.
InChat(u) == joining[u] \in {"in", "told"}

\* The room as it is by now.
EmitMessage(m) ==
    /\ m \in sending
    /\ sending' = sending \ {m}
    /\ inbox' = [u \in RoomUsers |-> IF InChat(u) THEN inbox[u] \cup {m} ELSE inbox[u]]
    /\ UNCHANGED <<booked, chat, joining, onMap, sharing, seenAt, everIn, since>>

\* The connection ends; the next one starts with an empty view.
DropChat(u) ==
    /\ joining[u] # "out"
    /\ joining' = [joining EXCEPT ![u] = "out"]
    /\ inbox' = [inbox EXCEPT ![u] = {}]
    /\ since' = [since EXCEPT ![u] = 0]
    /\ UNCHANGED <<booked, chat, sending, onMap, sharing, seenAt, everIn>>

-----------------------------------------------------------------------------
(* Location *)

JoinMap(u) ==
    /\ u \notin onMap
    /\ GetAuthorizedRide(u)
    /\ onMap' = onMap \cup {u}
    /\ UNCHANGED <<booked, chat, joining, sending, inbox, sharing, seenAt, everIn, since>>

\* handleDriverLocation: the checks, and the emit to whoever is there.
ShareLocation ==
    /\ ~sharing
    /\ sharing' = TRUE
    /\ UNCHANGED <<booked, chat, joining, sending, inbox, onMap, seenAt, everIn, since>>

EmitLocation ==
    /\ sharing
    /\ sharing' = FALSE
    /\ seenAt' = seenAt \cup onMap
    /\ UNCHANGED <<booked, chat, joining, sending, inbox, onMap, everIn, since>>

DropMap(u) ==
    /\ u \in onMap
    /\ onMap' = onMap \ {u}
    /\ seenAt' = seenAt \ {u}
    /\ UNCHANGED <<booked, chat, joining, sending, inbox, sharing, everIn, since>>

-----------------------------------------------------------------------------

ChatSteps ==
    \/ \E u \in RoomUsers :
          AskToJoin(u) \/ JoinChat(u) \/ SendHistory(u) \/ StoreMessage(u) \/ DropChat(u)
    \/ \E m \in 1..MaxTalk : EmitMessage(m)

MapSteps ==
    \/ \E u \in RoomUsers : JoinMap(u) \/ DropMap(u)
    \/ ShareLocation \/ EmitLocation

BookingSteps == \E u \in Riders : RoomBook(u) \/ RoomUnbook(u)

RoomNext == ChatSteps \/ MapSteps \/ BookingSteps

RoomSpec == RoomInit /\ [][RoomNext]_roomVars

-----------------------------------------------------------------------------
(* Properties *)

\* Messages, rooms and bookings keep their shape.
RoomTypeOK ==
    /\ booked \subseteq everIn /\ everIn \subseteq Riders
    /\ chat \in Seq(RoomUsers)
    /\ joining \in [RoomUsers -> {"out", "allowed", "in", "told"}]
    /\ sending \subseteq 1..Len(chat)
    /\ \A u \in RoomUsers : inbox[u] \subseteq 1..Len(chat)
    /\ onMap \subseteq RoomUsers /\ sharing \in BOOLEAN

\* A socket that has had its history has every message or will be sent it, except
\* those that were there when it joined and are younger than the history reaches:
\* none falls between the history and the room.
NoGapAfterHistory ==
    \A u \in RoomUsers : joining[u] = "told" =>
        \A m \in 1..Len(chat) : m \in inbox[u] \cup sending \/ m \in HistorySize + 1 .. since[u]

\* What is said in a ride is read and written by its driver and by riders who had
\* a booking at some time; whoever left keeps reading until its socket ends.
ChatIsOfTheRide ==
    /\ \A m \in 1..Len(chat) : chat[m] \in everIn \cup {Driver}
    /\ \A u \in RoomUsers : inbox[u] # {} => u \in everIn \cup {Driver}

\* The driver's location is seen by riders who had a booking at some time.
LocationIsForTheRide == seenAt \subseteq everIn \cup {Driver}

\* A ride's rooms keep nothing from the people of the ride that they should get, and
\* tell nobody else (rides-chat.gateway.ts and rides.gateway.ts).
RoomsServeTheRide ==
    /\ NoGapAfterHistory
    /\ ChatIsOfTheRide
    /\ LocationIsForTheRide

=============================================================================
