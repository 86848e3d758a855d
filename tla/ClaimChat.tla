----------------------------- MODULE ClaimChat -----------------------------
(***************************************************************************)
(* The chat about a claim, abuse reports and what administrators do with   *)
(* them: apps/api/src/chat and the content reports of                      *)
(* apps/api/src/admin/admin.service.ts.                                    *)
(*                                                                         *)
(* A message is stored and then sent to the sockets of the room.  markRead *)
(* reads all messages and writes each back with one reader more, every     *)
(* write on its own.  reportAbuse flags the conversation and then files    *)
(* the report.                                                             *)
(***************************************************************************)
EXTENDS Naturals, FiniteSets

CONSTANTS
    Chatters,      \* users, each with one socket
    Chats,         \* conversations
    Participants,  \* the rows of conversation_participants: chat -> users
    CampusOf,      \* the university of each user
    Messages,      \* rows that messages may take
    Reports,       \* rows that content reports may take
    Nowhere

ASSUME ClaimChatAssumption ==
    /\ Participants \in [Chats -> SUBSET Chatters]
    /\ DOMAIN CampusOf = Chatters
    /\ Nowhere \notin Chats \cup Chatters
    /\ Messages \cap Chats = {}  \* ids are UUIDs, whatever the table
    /\ IsFiniteSet(Reports)

VARIABLES
    flagged,   \* conversations with status FLAGGED; CLOSED is never assigned
    message,   \* rows of chat_messages
    room,      \* the conversations each socket has joined
    outgoing,  \* messages stored and not yet sent to their room
    got,       \* the messages each socket was sent
    marking,   \* the markRead each user has under way: the readers it read
    report,    \* rows of content_reports
    reporting, \* reports whose conversation is flagged and whose row is not written
    audit,     \* rows of audit_logs
    marked,    \* history: who has marked which messages
    overlaps   \* history: messages two users were marking at once

chatVars == <<flagged, message, room, outgoing, got, marking, report, reporting, audit, marked,
              overlaps>>

-----------------------------------------------------------------------------

ChatUniversities == {CampusOf[u] : u \in Chatters}

Message == [chat: Chats \cup {Nowhere}, sender: Chatters \cup {Nowhere}, readBy: SUBSET Chatters]

NoMessage == [chat |-> Nowhere, sender |-> Nowhere, readBy |-> {}]

\* reportAbuse files CHAT_MESSAGE reports whose target is the conversation.
Report == [reporter: Chatters \cup {Nowhere}, target: Chats \cup {Nowhere}, resolved: BOOLEAN]

NoReport == [reporter |-> Nowhere, target |-> Nowhere, resolved |-> FALSE]

\* A markRead: the chat, the messages still to be written, and their readers as read.
NotMarking == [chat |-> Nowhere, left |-> {}, readers |-> [m \in Messages |-> {}]]

In(c) == {m \in Messages : message[m].chat = c}

ChatInit ==
    /\ flagged = {}
    /\ message = [m \in Messages |-> NoMessage]
    /\ room = [u \in Chatters |-> {}]
    /\ outgoing = {}
    /\ got = [u \in Chatters |-> {}]
    /\ marking = [u \in Chatters |-> NotMarking]
    /\ report = [r \in Reports |-> NoReport]
    /\ reporting = [u \in Chatters |-> Nowhere]
    /\ audit = {}
    /\ marked = {}
    /\ overlaps = {}

-----------------------------------------------------------------------------
(* Sockets *)

AssertParticipant(u, c) == u \in Participants[c]

Join(u, c) ==
    /\ AssertParticipant(u, c)
    /\ c \notin room[u]
    /\ room' = [room EXCEPT ![u] = @ \cup {c}]
    /\ UNCHANGED <<flagged, message, outgoing, got, marking, report, reporting, audit, marked, overlaps>>

\* The connection drops, and the rooms with it.
Disconnect(u) ==
    /\ room[u] # {}
    /\ room' = [room EXCEPT ![u] = {}]
    /\ UNCHANGED <<flagged, message, outgoing, got, marking, report, reporting, audit, marked, overlaps>>

\* sendMessage: a flagged conversation goes on.
SendMessage(u, c, m) ==
    /\ u \in Participants[c]
    /\ message[m] = NoMessage
    /\ message' = [message EXCEPT ![m] = [chat |-> c, sender |-> u, readBy |-> {}]]
    /\ outgoing' = outgoing \cup {m}
    /\ UNCHANGED <<flagged, room, got, marking, report, reporting, audit, marked, overlaps>>

\* Whoever is in the room by now; nobody, if the process died first.
Emit(m) ==
    /\ m \in outgoing
    /\ outgoing' = outgoing \ {m}
    /\ \/ got' = [u \in Chatters |->
                     IF message[m].chat \in room[u] THEN got[u] \cup {m} ELSE got[u]]
       \/ UNCHANGED got
    /\ UNCHANGED <<flagged, message, room, marking, report, reporting, audit, marked, overlaps>>

-----------------------------------------------------------------------------
(* markRead *)

Unread(u, c) == {m \in In(c) : u \notin message[m].readBy}

MarkRead(u, c) ==
    /\ u \in Participants[c]
    /\ marking[u] = NotMarking
    /\ Unread(u, c) # {}
    /\ marking' = [marking EXCEPT ![u] =
          [chat |-> c, left |-> Unread(u, c), readers |-> [m \in Messages |-> message[m].readBy]]]
    /\ overlaps' = overlaps \cup
          UNION {Unread(u, c) \cap marking[v].left : v \in Chatters \ {u}}
    /\ UNCHANGED <<flagged, message, room, outgoing, got, report, reporting, audit, marked>>

\* Variant: the readers are replaced.
Bug_NewReaders(u, m) == {u}

\* The readers that were read, and one more.
NewReaders(u, m) == marking[u].readers[m] \cup {u}

WriteReaders(u, m) ==
    /\ m \in marking[u].left
    /\ message' = [message EXCEPT ![m].readBy = NewReaders(u, m)]
    /\ marking' = [marking EXCEPT ![u] = IF @.left = {m} THEN NotMarking
                                         ELSE [marking[u] EXCEPT !.left = @ \ {m}]]
    /\ marked' = marked \cup {<<u, m>>}
    /\ UNCHANGED <<flagged, room, outgoing, got, report, reporting, audit, overlaps>>

-----------------------------------------------------------------------------
(* reportAbuse *)

\* What is flagged before the report is filed.
Flagged(c) == flagged \cup {c}

Flag(u, c) ==
    /\ u \in Participants[c]
    /\ reporting[u] = Nowhere
    /\ \E r \in Reports : report[r] = NoReport
    /\ flagged' = Flagged(c)
    /\ reporting' = [reporting EXCEPT ![u] = c]
    /\ UNCHANGED <<message, room, outgoing, got, marking, report, audit, marked, overlaps>>

FileReport(u, r) ==
    /\ reporting[u] # Nowhere
    /\ report[r] = NoReport
    /\ report' = [report EXCEPT ![r] = [reporter |-> u, target |-> reporting[u], resolved |-> FALSE]]
    /\ reporting' = [reporting EXCEPT ![u] = Nowhere]
    /\ UNCHANGED <<flagged, message, room, outgoing, got, marking, audit, marked, overlaps>>

\* The process dies in between.
ReportLost(u) ==
    /\ reporting[u] # Nowhere
    /\ reporting' = [reporting EXCEPT ![u] = Nowhere]
    /\ UNCHANGED <<flagged, message, room, outgoing, got, marking, report, audit, marked, overlaps>>

-----------------------------------------------------------------------------
(* AdminService *)

\* The reports whose target is a message of the university.  The target of a
\* filed report is a conversation, so none is found.
ByTarget(campus, rs) ==
    {r \in rs : \E m \in Messages :
        /\ report[r].target = m
        /\ \E u \in Participants[message[m].chat] : CampusOf[u] = campus}

\* listContentReports: those filed by its users, and those about its messages.
ListContentReports(campus) ==
    LET all == {r \in Reports : report[r] # NoReport}
        filed == {r \in all : CampusOf[report[r].reporter] = campus}
    IN  filed \cup ByTarget(campus, all \ filed)

\* countUniversityOpenReports counts the same in two parts.
CountUniversityOpenReports(campus) ==
    LET open == {r \in Reports : report[r] # NoReport /\ ~report[r].resolved}
        direct == {r \in open : CampusOf[report[r].reporter] = campus}
    IN  Cardinality(direct) + Cardinality(ByTarget(campus, open \ direct))

Resolvable(campus, r) == r \in ListContentReports(campus)

\* resolveContentReport: the report and its audit entry are written together.
ResolveContentReport(campus, r) ==
    /\ Resolvable(campus, r)
    /\ report' = [report EXCEPT ![r].resolved = TRUE]
    /\ audit' = audit \cup {[campus |-> campus, report |-> r]}
    /\ <<report', audit'>> # <<report, audit>>
    /\ UNCHANGED <<flagged, message, room, outgoing, got, marking, reporting, marked, overlaps>>

-----------------------------------------------------------------------------

ChatNext ==
    \/ \E u \in Chatters, c \in Chats :
          \/ Join(u, c) \/ MarkRead(u, c) \/ Flag(u, c)
          \/ \E m \in Messages : SendMessage(u, c, m)
    \/ \E u \in Chatters :
          \/ Disconnect(u) \/ ReportLost(u)
          \/ \E m \in Messages : WriteReaders(u, m)
          \/ \E r \in Reports : FileReport(u, r)
    \/ \E m \in Messages : Emit(m)
    \/ \E campus \in ChatUniversities, r \in Reports : ResolveContentReport(campus, r)

ChatSpec == ChatInit /\ [][ChatNext]_chatVars

-----------------------------------------------------------------------------
(* Properties *)

\* Rows keep their shape.
ChatTypeOK ==
    /\ flagged \subseteq Chats
    /\ message \in [Messages -> Message]
    /\ room \in [Chatters -> SUBSET Chats]
    /\ outgoing \subseteq Messages
    /\ got \in [Chatters -> SUBSET Messages]
    /\ \A u \in Chatters : marking[u].left \subseteq In(marking[u].chat)
    /\ report \in [Reports -> Report]
    /\ reporting \in [Chatters -> Chats \cup {Nowhere}]
    /\ audit \subseteq [campus: ChatUniversities, report: Reports]
    /\ marked \subseteq Chatters \X Messages
    /\ overlaps \subseteq Messages

\* Messages reach participants of their conversation only, whoever connects
\* and whatever they ask to join.
OnlyParticipantsGetMessages ==
    \A u \in Chatters : \A m \in got[u] : u \in Participants[message[m].chat]

\* A reader's mark is lost only from a message that two users marked at the same
\* time.
MarkIsLostInOverlapsOnly ==
    \A u \in Chatters, m \in Messages :
        <<u, m>> \in marked => u \in message[m].readBy \/ m \in overlaps

\* A report that administrators see is about a flagged conversation, although
\* flagging and filing are two writes.
ReportedIsFlagged ==
    \A r \in Reports : report[r] # NoReport => report[r].target \in flagged

\* The overview's number of open reports is that of the open reports in the list.
OverviewCountsTheList ==
    \A campus \in ChatUniversities :
        CountUniversityOpenReports(campus)
            = Cardinality({r \in ListContentReports(campus) : ~report[r].resolved})

\* A report is resolved by administrators of its reporter's university, each of
\* them audited.
ResolvedByOwnUniversity ==
    /\ \A r \in Reports : report[r].resolved => \E a \in audit : a.report = r
    /\ \A a \in audit : a.campus = CampusOf[report[a.report].reporter]

\* A conversation, the marks on its messages and the reports about it are kept
\* through concurrent readers, reporters and administrators (chat.service.ts,
\* admin.service.ts).
ChatIsKept ==
    /\ OnlyParticipantsGetMessages
    /\ MarkIsLostInOverlapsOnly
    /\ ReportedIsFlagged
    /\ OverviewCountsTheList
    /\ ResolvedByOwnUniversity

=============================================================================
