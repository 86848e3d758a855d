--------------------------- MODULE ExchangeProofs ---------------------------
(***************************************************************************)
(* Claims, the chat of a claim and clothes rentals, for any number of      *)
(* claims, decisions, messages, sockets, students, tabs and bookings.      *)
(*                                                                         *)
(* RentalsAgree is not inductive. That a booking overlaps none needs to    *)
(* know, when the conditional update takes a listing, that an available    *)
(* listing is free or was reopened; and a return writes by id, so that the *)
(* rows it names must be those of a booking that once was active.          *)
(***************************************************************************)
EXTENDS MCExchange, FiniteSetTheorems, TLAPS

-----------------------------------------------------------------------------
(* Claims and their items *)

\* A decision in flight that approves a claim read no APPROVED claim on its item.
DecisionInv ==
    \A r \in Decisions :
        decision[r].claim # None /\ decision[r].to = "APPROVED"
        => \A d \in Relevant(decision[r].claim, "APPROVED") : decision[r].read[d] # "APPROVED"

\* A claim that is APPROVED now is one that was ever approved.
ApprovalsInv == \A c \in Claims : claim[c].status = "APPROVED" => c \in approvals

ClaimsInv ==
    /\ TypeOK
    /\ DecisionInv
    /\ ApprovalsInv
    /\ OneApprovedAtATime
    /\ ApprovedItemIsClaimed
    /\ RecoveredWasApproved

-----------------------------------------------------------------------------
(* What the commit of a decision relies on *)

\* What Relevant and Siblings mean for a claim to be approved: every claim on
\* its item is relevant.
LEMMA RelevantIsTheItem ==
    ASSUME NEW c \in Claims, NEW d \in Claims, FoundOf[d] = FoundOf[c]
    PROVE  d \in Relevant(c, "APPROVED")
  BY DEF Relevant, Siblings

\* A decision that serializes commits in a state in which no claim on the item
\* is APPROVED, although it read an earlier one: decideClaim's isolation level.
LEMMA CommitSeesNoApproval ==
    ASSUME TypeOK, DecisionInv, NEW r \in Decisions,
           decision[r].claim # None, decision[r].to = "APPROVED", Serializes(r),
           NEW d \in Claims, FoundOf[d] = FoundOf[decision[r].claim]
    PROVE  claim[d].status # "APPROVED"
<1>1. decision[r].claim \in Claims
  BY DEF TypeOK, Decision
<1>2. d \in Relevant(decision[r].claim, "APPROVED")
  BY <1>1, RelevantIsTheItem
<1>3. decision[r].read[d] # "APPROVED"
  BY <1>2 DEF DecisionInv
<1>. QED
  BY <1>2, <1>3 DEF Serializes

-----------------------------------------------------------------------------

\* A new database satisfies the invariant.
LEMMA InitInv == Init => ClaimsInv
  BY ClaimsAssumption DEF Init, ClaimsInv, TypeOK, DecisionInv, ApprovalsInv, OneApprovedAtATime,
     ApprovedItemIsClaimed, RecoveredWasApproved,
     Claim, NoClaim, Decision, NoDecision, ClaimStatus

\* Creating a claim, its conversation and its notification disturbs no decision.
LEMMA CreateInv ==
    ASSUME ClaimsInv, NEW c \in Claims,
           CreateClaim(c) \/ CreateConversation(c) \/ NotifyFinder(c)
    PROVE  ClaimsInv'
<1>1. TypeOK /\ claim \in [Claims -> Claim]
  BY DEF ClaimsInv, TypeOK
<1>2. UNCHANGED <<found, lost, decision, approvals>>
  BY DEF CreateClaim, CreateConversation, NotifyFinder
<1>3. PICK new \in Claim :
          /\ claim' = [claim EXCEPT ![c] = new]
          /\ new.status # "NONE"
          /\ new.status = "VERIFICATION_REQUIRED" \/ new.status = claim[c].status
  <2>1. CASE CreateClaim(c)
    <3>. DEFINE n == [claim[c] EXCEPT !.status = "VERIFICATION_REQUIRED"]
    <3>1. n \in Claim /\ n.status = "VERIFICATION_REQUIRED" /\ claim' = [claim EXCEPT ![c] = n]
      BY <1>1, <2>1 DEF CreateClaim, Claim, ClaimStatus
    <3>. QED
      BY <3>1
  <2>2. CASE CreateConversation(c)
    <3>. DEFINE n == [claim[c] EXCEPT !.conversation = TRUE]
    <3>1. n \in Claim /\ n.status = claim[c].status /\ n.conversation /\ claim' = [claim EXCEPT ![c] = n]
      BY <1>1, <2>2 DEF CreateConversation, Claim
    <3>. QED
      BY <2>2, <3>1 DEF CreateConversation
  <2>3. CASE NotifyFinder(c)
    <3>. DEFINE n == [claim[c] EXCEPT !.notified = TRUE]
    <3>1. n \in Claim /\ n.status = claim[c].status /\ n.conversation /\ claim' = [claim EXCEPT ![c] = n]
      BY <1>1, <2>3 DEF NotifyFinder, Claim
    <3>2. claim[c].status # "NONE"
      BY <1>1, <2>3 DEF NotifyFinder, TypeOK, NoClaim
    <3>. QED
      BY <3>1, <3>2
  <2>. QED
    BY <2>1, <2>2, <2>3
<1>4. \A d \in Claims : claim'[d] = IF d = c THEN new ELSE claim[d]
  BY <1>1, <1>3
<1>5. TypeOK'
  BY <1>1, <1>2, <1>3, <1>4 DEF TypeOK
<1>6. DecisionInv'
  BY <1>2 DEF ClaimsInv, DecisionInv, Relevant, Siblings
<1>7. ApprovalsInv' /\ OneApprovedAtATime' /\ ApprovedItemIsClaimed'
  BY <1>2, <1>3, <1>4 DEF ClaimsInv, ApprovalsInv, OneApprovedAtATime, ApprovedItemIsClaimed
<1>8. RecoveredWasApproved'
  BY <1>2, <1>3, <1>4 DEF ClaimsInv, RecoveredWasApproved
<1>. QED
  BY <1>5, <1>6, <1>7, <1>8 DEF ClaimsInv

\* A decision reads no APPROVED claim on the item it is about to approve a claim of.
LEMMA ReadInv ==
    ASSUME ClaimsInv, NEW r \in Decisions, NEW c \in Claims, NEW to \in {"APPROVED", "REJECTED"},
           DecideRead(r, c, to)
    PROVE  ClaimsInv'
<1>1. TypeOK
  BY DEF ClaimsInv
<1>2. PICK new :
          /\ new = [claim |-> c, to |-> to,
                    read |-> [d \in Claims |->
                                 IF d \in Relevant(c, to) THEN claim[d].status ELSE "NONE"]]
          /\ decision' = [decision EXCEPT ![r] = new]
  BY DEF DecideRead
<1>3. UNCHANGED <<claim, found, lost, approvals>>
  BY DEF DecideRead
<1>4. new \in Decision
  BY <1>1, <1>2 DEF TypeOK, Decision, Claim, ClaimStatus
<1>5. \A q \in Decisions : decision'[q] = IF q = r THEN new ELSE decision[q]
  BY <1>1, <1>2 DEF TypeOK
<1>6. TypeOK'
  <2>1. decision' \in [Decisions -> Decision]
    BY <1>1, <1>2, <1>4 DEF TypeOK
  <2>2. claim[c].status # "NONE" /\ new.claim = c
    BY <1>2 DEF DecideRead
  <2>. QED
    BY <1>1, <1>3, <1>5, <2>1, <2>2 DEF TypeOK
<1>7. DecisionInv'
  <2>. SUFFICES ASSUME NEW q \in Decisions, decision'[q].claim # None, decision'[q].to = "APPROVED",
                       NEW d \in Relevant(decision'[q].claim, "APPROVED")
                PROVE  decision'[q].read[d] # "APPROVED"
    BY DEF DecisionInv, Relevant, Siblings
  <2>1. CASE q # r
    BY <1>5, <2>1 DEF ClaimsInv, DecisionInv
  <2>2. CASE q = r
    <3>1. to = "APPROVED" /\ d \in Relevant(c, to)
      BY <1>2, <1>5, <2>2
    <3>2. d \in Siblings(c) \cup {c} /\ d \in Claims
      BY <3>1 DEF Relevant, Siblings
    <3>3. claim[d].status # "APPROVED"
      BY <3>1, <3>2 DEF DecideRead
    <3>. QED
      BY <1>2, <1>5, <2>2, <3>1, <3>2, <3>3
  <2>. QED
    BY <2>1, <2>2
<1>8. ApprovalsInv' /\ OneApprovedAtATime' /\ ApprovedItemIsClaimed'
  BY <1>3 DEF ClaimsInv, ApprovalsInv, OneApprovedAtATime, ApprovedItemIsClaimed
<1>9. RecoveredWasApproved'
  BY <1>3 DEF ClaimsInv, RecoveredWasApproved
<1>. QED
  BY <1>6, <1>7, <1>8, <1>9 DEF ClaimsInv

\* A slot that is given up, or whose decision has committed, is empty again.
LEMMA ClearInv ==
    ASSUME TypeOK, DecisionInv, NEW r \in Decisions,
           decision' = [decision EXCEPT ![r] = NoDecision]
    PROVE  /\ decision' \in [Decisions -> Decision]
           /\ \A q \in Decisions : decision'[q] = decision[q] \/ decision'[q].claim = None
           /\ DecisionInv'
<1>1. NoDecision \in Decision /\ NoDecision.claim = None
  BY DEF NoDecision, Decision
<1>2. decision' \in [Decisions -> Decision]
  BY <1>1 DEF TypeOK
<1>3. \A q \in Decisions : decision'[q] = decision[q] \/ decision'[q].claim = None
  BY <1>1 DEF TypeOK
<1>4. DecisionInv'
  BY <1>3 DEF DecisionInv, Relevant, Siblings
<1>. QED
  BY <1>2, <1>3, <1>4

\* An aborted decision leaves no trace.
LEMMA AbortInv ==
    ASSUME ClaimsInv, NEW r \in Decisions, DecideAbort(r)
    PROVE  ClaimsInv'
<1>1. UNCHANGED <<claim, found, lost, approvals>>
  BY DEF DecideAbort
<1>2. /\ decision' \in [Decisions -> Decision]
      /\ \A q \in Decisions : decision'[q] = decision[q] \/ decision'[q].claim = None
      /\ DecisionInv'
  BY ClearInv DEF ClaimsInv, DecideAbort
<1>3. TypeOK'
  BY <1>1, <1>2 DEF ClaimsInv, TypeOK
<1>4. ApprovalsInv' /\ OneApprovedAtATime' /\ ApprovedItemIsClaimed'
  BY <1>1 DEF ClaimsInv, ApprovalsInv, OneApprovedAtATime, ApprovedItemIsClaimed
<1>5. RecoveredWasApproved'
  BY <1>1 DEF ClaimsInv, RecoveredWasApproved
<1>. QED
  BY <1>2, <1>3, <1>4, <1>5 DEF ClaimsInv

\* An approval commits only while no claim on the item is APPROVED, and a
\* rejection never approves anything.
LEMMA CommitInv ==
    ASSUME ClaimsInv, NEW r \in Decisions, DecideCommit(r)
    PROVE  ClaimsInv'
<1>. DEFINE c == decision[r].claim
<1>1. /\ TypeOK
      /\ claim \in [Claims -> Claim]
      /\ c \in Claims
      /\ claim[c].status # "NONE"
      /\ UNCHANGED lost
  BY DEF ClaimsInv, DecideCommit, TypeOK, Decision
<1>2. /\ decision' \in [Decisions -> Decision]
      /\ \A q \in Decisions : decision'[q] = decision[q] \/ decision'[q].claim = None
      /\ DecisionInv'
  BY ClearInv DEF ClaimsInv, DecideCommit
<1>3. CASE decision[r].to = "APPROVED"
  <2>1. /\ found' = [found EXCEPT ![FoundOf[c]] = "CLAIMED"]
        /\ approvals' = approvals \cup {c}
        /\ FoundOf[c] \in FoundItems
    BY <1>1, <1>3, ClaimsAssumption DEF DecideCommit, ItemAfter
  <2>2. \A d \in Claims :
           claim'[d] = IF d = c THEN [claim[d] EXCEPT !.status = "APPROVED"]
                       ELSE IF d \in Siblings(c) /\ decision[r].read[d] = "VERIFICATION_REQUIRED"
                       THEN [claim[d] EXCEPT !.status = "REJECTED"]
                       ELSE claim[d]
    BY <1>3 DEF DecideCommit
  <2>3. \A d \in Claims : FoundOf[d] = FoundOf[c] => claim[d].status # "APPROVED"
    BY <1>3, CommitSeesNoApproval DEF ClaimsInv, DecideCommit
  <2>4. \A d \in Siblings(c) : decision[r].read[d] = "VERIFICATION_REQUIRED"
                               => claim[d].status # "NONE"
    <3>. SUFFICES ASSUME NEW d \in Siblings(c), decision[r].read[d] = "VERIFICATION_REQUIRED"
                  PROVE  claim[d].status # "NONE"
      OBVIOUS
    <3>1. d \in Relevant(c, "APPROVED")
      BY DEF Relevant
    <3>. QED
      BY <1>3, <3>1 DEF DecideCommit, Serializes
  <2>5. \A d \in Claims :
           /\ claim'[d].conversation = claim[d].conversation
           /\ claim'[d].notified = claim[d].notified
           /\ \/ d = c /\ claim'[d].status = "APPROVED"
              \/ d # c /\ claim'[d].status = claim[d].status
              \/ d # c /\ claim'[d].status = "REJECTED" /\ claim[d].status # "NONE"
           /\ claim'[d] \in Claim
    BY <1>1, <2>2, <2>4 DEF Claim, ClaimStatus
  <2>6. claim' \in [Claims -> Claim]
    <3>1. claim' = [d \in Claims |-> claim'[d]]
      BY <1>3 DEF DecideCommit
    <3>. QED
      BY <2>5, <3>1
  <2>7. \A d \in Claims : claim'[d].status = "NONE" => claim'[d] = NoClaim
    <3>. SUFFICES ASSUME NEW d \in Claims, claim'[d].status = "NONE"
                  PROVE  claim'[d] = NoClaim
      OBVIOUS
    <3>1. claim[d].status = "NONE"
      BY <2>5
    <3>2. claim[d] = NoClaim
      BY <1>1, <3>1 DEF TypeOK
    <3>. QED
      BY <2>5, <2>6, <3>2 DEF Claim, NoClaim
  <2>8. TypeOK'
    <3>1. found' \in [FoundItems -> {"ACTIVE", "CLAIMED"}] /\ approvals' \subseteq Claims
      BY <1>1, <2>1 DEF TypeOK
    <3>2. \A q \in Decisions : decision'[q].claim # None => claim'[decision'[q].claim].status # "NONE"
      BY <1>1, <1>2, <2>5 DEF TypeOK, Decision
    <3>. QED
      BY <1>1, <1>2, <2>6, <2>7, <3>1, <3>2 DEF TypeOK
  <2>9. ApprovalsInv'
    BY <2>1, <2>5 DEF ClaimsInv, ApprovalsInv
  <2>10. OneApprovedAtATime'
    BY <2>3, <2>5 DEF ClaimsInv, OneApprovedAtATime
  <2>11. ApprovedItemIsClaimed'
    BY <1>1, <2>1, <2>5, ClaimsAssumption DEF ClaimsInv, ApprovedItemIsClaimed, TypeOK
  <2>12. RecoveredWasApproved'
    BY <1>1, <2>1, <2>5 DEF ClaimsInv, RecoveredWasApproved
  <2>. QED
    BY <1>2, <2>8, <2>9, <2>10, <2>11, <2>12 DEF ClaimsInv
<1>4. CASE decision[r].to = "REJECTED"
  <2>1. UNCHANGED <<found, approvals>> /\ claim' = [claim EXCEPT ![c].status = "REJECTED"]
    BY <1>4 DEF DecideCommit
  <2>2. /\ claim' \in [Claims -> Claim]
        /\ \A d \in Claims : /\ claim'[d].notified = claim[d].notified
                             /\ claim'[d].conversation = claim[d].conversation
                             /\ claim'[d].status = IF d = c THEN "REJECTED" ELSE claim[d].status
                             /\ d # c => claim'[d] = claim[d]
    BY <1>1, <2>1 DEF Claim, ClaimStatus
  <2>3. TypeOK'
    BY <1>1, <1>2, <2>1, <2>2 DEF TypeOK
  <2>4. ApprovalsInv' /\ OneApprovedAtATime' /\ ApprovedItemIsClaimed'
    BY <2>1, <2>2 DEF ClaimsInv, ApprovalsInv, OneApprovedAtATime, ApprovedItemIsClaimed
  <2>5. RecoveredWasApproved'
    BY <1>1, <2>1, <2>2 DEF ClaimsInv, RecoveredWasApproved
  <2>. QED
    BY <1>2, <2>3, <2>4, <2>5 DEF ClaimsInv
<1>. QED
  BY <1>1, <1>3, <1>4 DEF TypeOK, Decision

\* A confirmed claim was APPROVED, so its item is CLAIMED and its approval known.
LEMMA ConfirmInv ==
    ASSUME ClaimsInv, NEW c \in Claims, ConfirmRecovery(c)
    PROVE  ClaimsInv'
<1>1. TypeOK /\ claim \in [Claims -> Claim] /\ UNCHANGED <<found, decision, approvals>>
  BY DEF ClaimsInv, TypeOK, ConfirmRecovery
<1>2. claim[c].status = "APPROVED" /\ c \in approvals
  BY DEF ClaimsInv, ApprovalsInv, ConfirmRecovery, MayConfirm
<1>3. /\ claim' \in [Claims -> Claim]
      /\ \A d \in Claims : /\ claim'[d].notified = claim[d].notified
                           /\ claim'[d].conversation = claim[d].conversation
                           /\ claim'[d].status = IF d = c THEN "RECOVERY_CONFIRMED" ELSE claim[d].status
                           /\ d # c => claim'[d] = claim[d]
  BY <1>1 DEF ConfirmRecovery, Claim, ClaimStatus
<1>4. \A l \in LostItems : lost'[l] = IF l = LostOf[c] THEN "RECOVERED" ELSE lost[l]
  BY DEF ConfirmRecovery
<1>5. lost' \in [LostItems -> {"ACTIVE", "RECOVERED"}]
  BY <1>1 DEF ConfirmRecovery, TypeOK
<1>6. TypeOK'
  <2>1. \A d \in Claims : claim'[d].status = "NONE" => claim'[d] = NoClaim
    BY <1>1, <1>3 DEF TypeOK
  <2>2. \A r \in Decisions : decision'[r].claim # None => claim'[decision'[r].claim].status # "NONE"
    BY <1>1, <1>3 DEF TypeOK, Decision
  <2>. QED
    BY <1>1, <1>3, <1>5, <2>1, <2>2 DEF TypeOK
<1>7. DecisionInv'
  BY <1>1 DEF ClaimsInv, DecisionInv, Relevant, Siblings
<1>8. ApprovalsInv' /\ OneApprovedAtATime' /\ ApprovedItemIsClaimed'
  BY <1>1, <1>2, <1>3 DEF ClaimsInv, ApprovalsInv, OneApprovedAtATime, ApprovedItemIsClaimed
<1>9. RecoveredWasApproved'
  BY <1>1, <1>2, <1>4 DEF ClaimsInv, RecoveredWasApproved
<1>. QED
  BY <1>6, <1>7, <1>8, <1>9 DEF ClaimsInv

-----------------------------------------------------------------------------

\* ClaimsInv is inductive: it holds in every reachable state.
THEOREM ClaimsInvariant == Spec => []ClaimsInv
<1>1. ASSUME ClaimsInv, [Next]_vars PROVE ClaimsInv'
  <2>1. CASE ClaimantNext
    BY <1>1, <2>1, CreateInv, ConfirmInv DEF ClaimantNext
  <2>2. CASE AuthorityNext
    BY <1>1, <2>2, ReadInv, CommitInv, AbortInv DEF AuthorityNext
  <2>3. CASE UNCHANGED vars
    BY <1>1, <2>3 DEF vars, ClaimsInv, TypeOK, DecisionInv, ApprovalsInv, OneApprovedAtATime,
       ApprovedItemIsClaimed, RecoveredWasApproved, Relevant, Siblings
  <2>. QED
    BY <1>1, <2>1, <2>2, <2>3 DEF Next
<1>. QED
  BY InitInv, <1>1, PTL DEF Spec

\* Two authorities never leave two APPROVED claims on one item, however many
\* claims, items and concurrent decisions there are.
THEOREM OneClaimApproved == Spec => []OneApprovedAtATime
  BY ClaimsInvariant, PTL DEF ClaimsInv

\* An item with an approved or recovered claim is CLAIMED, so matching and
\* further searches leave it out.
THEOREM ApprovedItemsAreClaimed == Spec => []ApprovedItemIsClaimed
  BY ClaimsInvariant, PTL DEF ClaimsInv

\* A lost item is closed only through a claim that an authority approved.
THEOREM RecoveryWasApproved == Spec => []RecoveredWasApproved
  BY ClaimsInvariant, PTL DEF ClaimsInv

\* Claims and items agree, however many decisions are taken at once.
THEOREM ClaimsAndItemsAgree == Spec => []ClaimsAgree
<1>1. ClaimsInv => ClaimsAgree
  BY DEF ClaimsInv, ClaimsAgree
<1>. QED
  BY <1>1, ClaimsInvariant, PTL

-----------------------------------------------------------------------------
(* The chat of a claim: messages and their readers *)

Marking == [chat: Chats \cup {Nowhere}, left: SUBSET Messages, readers: [Messages -> SUBSET Chatters]]

\* What is sent, received or marked is a stored message, rooms are joined by participants only,
\* and readers that a markRead has not read are on messages that two users mark at once.
MessagesInv ==
    /\ message \in [Messages -> Message]
    /\ room \in [Chatters -> SUBSET Chats]
    /\ \A u \in Chatters, c \in Chats : c \in room[u] => u \in Participants[c]
    /\ outgoing \subseteq Messages
    /\ got \in [Chatters -> SUBSET Messages]
    /\ marked \subseteq Chatters \X Messages
    /\ overlaps \subseteq Messages
    /\ \A m \in Messages :
          \/ m \in outgoing
          \/ \E u \in Chatters : m \in got[u] \/ <<u, m>> \in marked
          => message[m].chat \in Chats
    /\ marking \in [Chatters -> Marking]
    /\ \A u \in Chatters : \A m \in marking[u].left :
          /\ message[m].chat = marking[u].chat
          /\ message[m].chat \in Chats
          /\ message[m].readBy \subseteq marking[u].readers[m] \/ m \in overlaps
          /\ \A v \in Chatters : m \in marking[v].left => v = u \/ m \in overlaps
    /\ OnlyParticipantsGetMessages
    /\ MarkIsLostInOverlapsOnly

\* A report that is filed or under way is about a flagged conversation, and
\* only a report that is filed is audited.
ReportsInv ==
    /\ flagged \subseteq Chats
    /\ report \in [Reports -> Report]
    /\ reporting \in [Chatters -> Chats \cup {Nowhere}]
    /\ \A u \in Chatters : reporting[u] # Nowhere => reporting[u] \in flagged
    /\ \A r \in Reports : report[r] # NoReport => report[r].reporter \in Chatters /\ report[r].target \in Chats
    /\ audit \subseteq [campus: ChatUniversities, report: Reports]
    /\ \A a \in audit : report[a.report] # NoReport
    /\ ReportedIsFlagged
    /\ ResolvedByOwnUniversity

ChatInv == MessagesInv /\ ReportsInv

\* The initial states have the invariant.
LEMMA ChatInitInv == ChatInit => ChatInv
<1> SUFFICES ASSUME ChatInit PROVE ChatInv
  OBVIOUS
<1>1. NoMessage \in Message /\ NotMarking \in Marking /\ NotMarking.left = {}
  BY DEF NoMessage, Message, NotMarking, Marking
<1>2. NoReport \in Report /\ ~NoReport.resolved
  BY DEF NoReport, Report
<1>3. MessagesInv
  BY <1>1 DEF ChatInit, MessagesInv, OnlyParticipantsGetMessages, MarkIsLostInOverlapsOnly
<1>4. ReportsInv
  BY <1>2 DEF ChatInit, ReportsInv, ReportedIsFlagged, ResolvedByOwnUniversity
<1>. QED
  BY <1>3, <1>4 DEF ChatInv

-----------------------------------------------------------------------------
(* Each step keeps the part it touches *)

\* Join keeps the invariant.
LEMMA JoinInv ==
    ASSUME MessagesInv, NEW u \in Chatters, NEW c \in Chats, Join(u, c)
    PROVE  MessagesInv'
<1>1. UNCHANGED <<message, outgoing, got, marking, marked, overlaps>>
      /\ room' = [room EXCEPT ![u] = @ \cup {c}] /\ u \in Participants[c]
  BY DEF Join, AssertParticipant
<1>. QED
  BY <1>1 DEF MessagesInv, OnlyParticipantsGetMessages, MarkIsLostInOverlapsOnly

\* Disconnect keeps the invariant.
LEMMA DisconnectInv ==
    ASSUME MessagesInv, NEW u \in Chatters, Disconnect(u)
    PROVE  MessagesInv'
<1>1. UNCHANGED <<message, outgoing, got, marking, marked, overlaps>> /\ room' = [room EXCEPT ![u] = {}]
  BY DEF Disconnect
<1>. QED
  BY <1>1 DEF MessagesInv, OnlyParticipantsGetMessages, MarkIsLostInOverlapsOnly

\* SendMessage keeps the invariant.
LEMMA SendMessageInv ==
    ASSUME MessagesInv, NEW u \in Chatters, NEW c \in Chats, NEW m \in Messages, SendMessage(u, c, m)
    PROVE  MessagesInv'
<1> DEFINE new == [chat |-> c, sender |-> u, readBy |-> {}]
<1>1. /\ message' = [message EXCEPT ![m] = new] /\ outgoing' = outgoing \cup {m}
      /\ UNCHANGED <<room, got, marking, marked, overlaps>>
      /\ message[m].chat \notin Chats
  BY ClaimChatAssumption DEF SendMessage, NoMessage
<1>2. new \in Message /\ new.chat = c
  BY DEF Message
<1> HIDE DEF new
<1>3. /\ message' \in [Messages -> Message] /\ message'[m] = new
      /\ \A k \in Messages : k # m => message'[k] = message[k]
  BY <1>1, <1>2 DEF MessagesInv
<1>4. /\ \A v \in Chatters : m \notin marking[v].left /\ m \notin got[v]
      /\ \A v \in Chatters : <<v, m>> \notin marked
  BY <1>1 DEF MessagesInv
<1>5. \A v \in Chatters : \A k \in marking[v].left : k \in Messages
  BY DEF MessagesInv, Marking
<1>6. OnlyParticipantsGetMessages'
  BY <1>1, <1>3, <1>4 DEF MessagesInv, OnlyParticipantsGetMessages
<1>7. MarkIsLostInOverlapsOnly'
  BY <1>1, <1>3, <1>4 DEF MessagesInv, MarkIsLostInOverlapsOnly
<1>8. \A v \in Chatters : \A k \in marking[v].left : message'[k] = message[k]
  BY <1>3, <1>4, <1>5
<1>. QED
  BY <1>1, <1>2, <1>3, <1>4, <1>6, <1>7, <1>8 DEF MessagesInv

\* Emit keeps the invariant.
LEMMA EmitInv ==
    ASSUME MessagesInv, NEW m \in Messages, Emit(m)
    PROVE  MessagesInv'
<1>1. /\ m \in outgoing /\ outgoing' = outgoing \ {m}
      /\ UNCHANGED <<message, room, marking, marked, overlaps>>
      /\ \/ got' = [u \in Chatters |-> IF message[m].chat \in room[u] THEN got[u] \cup {m} ELSE got[u]]
         \/ UNCHANGED got
  BY DEF Emit
<1>2. message[m].chat \in Chats
  BY <1>1 DEF MessagesInv
<1>3. /\ got' \in [Chatters -> SUBSET Messages]
      /\ \A u \in Chatters : \A k \in got'[u] : k \in got[u] \/ (k = m /\ message[m].chat \in room[u])
  BY <1>1 DEF MessagesInv
<1>4. OnlyParticipantsGetMessages'
  BY <1>1, <1>2, <1>3 DEF MessagesInv, OnlyParticipantsGetMessages
<1>. QED
  BY <1>1, <1>2, <1>3, <1>4 DEF MessagesInv, MarkIsLostInOverlapsOnly

\* MarkRead keeps the invariant.
LEMMA MarkReadInv ==
    ASSUME MessagesInv, NEW u \in Chatters, NEW c \in Chats, MarkRead(u, c)
    PROVE  MessagesInv'
<1> DEFINE new == [chat |-> c, left |-> Unread(u, c), readers |-> [m \in Messages |-> message[m].readBy]]
<1>1. /\ marking' = [marking EXCEPT ![u] = new] /\ UNCHANGED <<message, room, outgoing, got, marked>>
      /\ overlaps' = overlaps \cup UNION {Unread(u, c) \cap marking[v].left : v \in Chatters \ {u}}
  BY DEF MarkRead
<1>2. /\ new \in Marking /\ new.chat = c /\ new.left = Unread(u, c)
      /\ \A m \in Messages : new.readers[m] = message[m].readBy
  BY DEF Marking, Unread, In, MessagesInv, Message
<1>3. \A m \in Unread(u, c) : m \in Messages /\ message[m].chat = c
  BY DEF Unread, In
<1> HIDE DEF new
<1>4. /\ marking' \in [Chatters -> Marking] /\ marking'[u] = new
      /\ \A v \in Chatters : v # u => marking'[v] = marking[v]
  BY <1>1, <1>2 DEF MessagesInv
<1>5. /\ overlaps' \subseteq Messages /\ overlaps \subseteq overlaps'
      /\ \A v \in Chatters, m \in Unread(u, c) : v # u /\ m \in marking[v].left => m \in overlaps'
  BY <1>1, <1>3 DEF MessagesInv
<1>6. ASSUME NEW v \in Chatters, NEW m \in marking'[v].left
      PROVE  /\ message[m].chat = marking'[v].chat
             /\ message[m].chat \in Chats
             /\ message[m].readBy \subseteq marking'[v].readers[m] \/ m \in overlaps'
             /\ \A w \in Chatters : m \in marking'[w].left => w = v \/ m \in overlaps'
  <2>1. CASE v = u
    BY <1>2, <1>3, <1>4, <1>5, <2>1
  <2>2. CASE v # u
    <3>1. /\ message[m].chat = marking[v].chat /\ message[m].chat \in Chats
          /\ message[m].readBy \subseteq marking[v].readers[m] \/ m \in overlaps
          /\ \A w \in Chatters : m \in marking[w].left => w = v \/ m \in overlaps
      BY <1>4, <2>2 DEF MessagesInv
    <3>2. \A w \in Chatters : m \in marking'[w].left => w = v \/ m \in overlaps'
      BY <1>2, <1>4, <1>5, <2>2, <3>1
    <3>. QED
      BY <1>4, <1>5, <2>2, <3>1, <3>2
  <2>. QED
    BY <2>1, <2>2
<1>7. OnlyParticipantsGetMessages' /\ MarkIsLostInOverlapsOnly'
  BY <1>1, <1>5 DEF MessagesInv, OnlyParticipantsGetMessages, MarkIsLostInOverlapsOnly
<1>. QED
  BY <1>1, <1>4, <1>5, <1>6, <1>7 DEF MessagesInv

\* WriteReaders keeps the invariant.
LEMMA WriteReadersInv ==
    ASSUME MessagesInv, NEW u \in Chatters, NEW m \in Messages, WriteReaders(u, m)
    PROVE  MessagesInv'
<1> DEFINE row == [message[m] EXCEPT !.readBy = NewReaders(u, m)]
           less == [marking[u] EXCEPT !.left = @ \ {m}]
<1>1. /\ m \in marking[u].left /\ message' = [message EXCEPT ![m] = row]
      /\ marked' = marked \cup {<<u, m>>} /\ UNCHANGED <<room, outgoing, got, overlaps>>
  BY DEF WriteReaders
<1>2. PICK new : /\ marking' = [marking EXCEPT ![u] = new] /\ new \in Marking
                 /\ new.left \subseteq marking[u].left \ {m}
                 /\ new.left # {} => new.chat = marking[u].chat /\ new.readers = marking[u].readers
  <2>1. less \in Marking /\ less.left = marking[u].left \ {m} /\ less.chat = marking[u].chat
        /\ less.readers = marking[u].readers
    BY DEF MessagesInv, Marking
  <2>2. NotMarking \in Marking /\ NotMarking.left = {}
    BY DEF NotMarking, Marking
  <2>3. marking' = [marking EXCEPT ![u] = NotMarking] \/ marking' = [marking EXCEPT ![u] = less]
    BY DEF WriteReaders
  <2> HIDE DEF less
  <2>. QED
    BY <2>1, <2>2, <2>3
<1>3. /\ row \in Message /\ row.chat = message[m].chat
      /\ row.readBy = marking[u].readers[m] \cup {u}
  <2>1. message[m] \in Message /\ marking[u] \in Marking
    BY DEF MessagesInv
  <2>2. NewReaders(u, m) = marking[u].readers[m] \cup {u} /\ NewReaders(u, m) \in SUBSET Chatters
    BY <2>1 DEF NewReaders, Marking
  <2>. QED
    BY <2>1, <2>2 DEF Message
<1> HIDE DEF row, less
<1>4. /\ message' \in [Messages -> Message] /\ message'[m] = row
      /\ \A k \in Messages : k # m => message'[k] = message[k]
      /\ \A k \in Messages : message'[k].chat = message[k].chat
  BY <1>1, <1>3 DEF MessagesInv
<1>5. /\ marking' \in [Chatters -> Marking] /\ marking'[u] = new
      /\ \A v \in Chatters : v # u => marking'[v] = marking[v]
  BY <1>2 DEF MessagesInv
<1>6. message[m].chat \in Chats /\ (message[m].readBy \subseteq row.readBy \/ m \in overlaps)
      /\ \A v \in Chatters : m \in marking[v].left => v = u \/ m \in overlaps
  BY <1>1, <1>3 DEF MessagesInv
<1>7. ASSUME NEW v \in Chatters, NEW k \in marking'[v].left
      PROVE  /\ message'[k].chat = marking'[v].chat
             /\ message'[k].chat \in Chats
             /\ message'[k].readBy \subseteq marking'[v].readers[k] \/ k \in overlaps
             /\ \A w \in Chatters : k \in marking'[w].left => w = v \/ k \in overlaps
  <2>1. /\ k \in Messages /\ k \in marking[v].left /\ marking'[v].chat = marking[v].chat
        /\ marking'[v].readers = marking[v].readers
    BY <1>2, <1>5 DEF MessagesInv, Marking
  <2>2. /\ message[k].chat = marking[v].chat /\ message[k].chat \in Chats
        /\ message[k].readBy \subseteq marking[v].readers[k] \/ k \in overlaps
        /\ \A w \in Chatters : k \in marking[w].left => w = v \/ k \in overlaps
    BY <2>1 DEF MessagesInv
  <2>3. \A w \in Chatters : k \in marking'[w].left => w = v \/ k \in overlaps
    BY <1>2, <1>5, <2>2
  <2>4. message'[k].readBy \subseteq marking[v].readers[k] \/ k \in overlaps
    <3>1. CASE k # m
      BY <1>4, <2>1, <2>2, <3>1
    <3>2. CASE k = m
      <4>1. v # u
        BY <1>2, <1>5, <3>2
      <4>. QED
        BY <1>6, <2>1, <3>2, <4>1
    <3>. QED
      BY <3>1, <3>2
  <2>. QED
    BY <1>4, <2>1, <2>2, <2>3, <2>4
<1>8. OnlyParticipantsGetMessages'
  BY <1>1, <1>4 DEF MessagesInv, OnlyParticipantsGetMessages
<1>9. MarkIsLostInOverlapsOnly'
  <2> SUFFICES ASSUME NEW v \in Chatters, NEW k \in Messages, <<v, k>> \in marked'
               PROVE  v \in message'[k].readBy \/ k \in overlaps
    BY <1>1 DEF MarkIsLostInOverlapsOnly
  <2>1. CASE k # m
    BY <1>1, <1>4, <2>1 DEF MessagesInv, MarkIsLostInOverlapsOnly
  <2>2. CASE k = m
    BY <1>1, <1>3, <1>4, <1>6, <2>2 DEF MessagesInv, MarkIsLostInOverlapsOnly
  <2>. QED
    BY <2>1, <2>2
<1>10. \A k \in Messages :
          \/ k \in outgoing
          \/ \E v \in Chatters : k \in got[v] \/ <<v, k>> \in marked'
          => message'[k].chat \in Chats
  BY <1>1, <1>4, <1>6 DEF MessagesInv
<1>11. marked' \subseteq Chatters \X Messages
  BY <1>1 DEF MessagesInv
<1>. QED
  BY <1>1, <1>4, <1>5, <1>7, <1>8, <1>9, <1>10, <1>11 DEF MessagesInv

\* No report is about a message: the target of a report that is filed is a conversation.
LEMMA NothingByTarget ==
    ASSUME ReportsInv, NEW rs \in SUBSET {r \in Reports : report[r] # NoReport}, NEW campus
    PROVE  ByTarget(campus, rs) = {}
  BY ClaimChatAssumption DEF ReportsInv, ByTarget

\* Flag keeps the invariant.
LEMMA FlagInv ==
    ASSUME ReportsInv, NEW u \in Chatters, NEW c \in Chats, Flag(u, c)
    PROVE  ReportsInv'
<1>1. flagged' = flagged \cup {c} /\ reporting' = [reporting EXCEPT ![u] = c] /\ UNCHANGED <<report, audit>>
  BY DEF Flag, Flagged
<1>. QED
  BY <1>1 DEF ReportsInv, ReportedIsFlagged, ResolvedByOwnUniversity

\* FileReport keeps the invariant.
LEMMA FileReportInv ==
    ASSUME ReportsInv, NEW u \in Chatters, NEW r \in Reports, FileReport(u, r)
    PROVE  ReportsInv'
<1> DEFINE new == [reporter |-> u, target |-> reporting[u], resolved |-> FALSE]
<1>1. /\ report' = [report EXCEPT ![r] = new] /\ reporting' = [reporting EXCEPT ![u] = Nowhere]
      /\ UNCHANGED <<flagged, audit>> /\ report[r] = NoReport /\ reporting[u] \in flagged
      /\ reporting[u] \in Chats
  BY DEF FileReport, ReportsInv
<1>2. /\ new \in Report /\ new.reporter = u /\ new.target = reporting[u] /\ ~new.resolved /\ new # NoReport
  BY <1>1, ClaimChatAssumption DEF Report, NoReport
<1> HIDE DEF new
<1>3. /\ report' \in [Reports -> Report] /\ report'[r] = new
      /\ \A q \in Reports : q # r => report'[q] = report[q]
  BY <1>1, <1>2 DEF ReportsInv
<1>4. \A a \in audit : a.report \in Reports /\ a.report # r
  BY <1>1 DEF ReportsInv
<1>5. ReportedIsFlagged'
  BY <1>1, <1>2, <1>3 DEF ReportsInv, ReportedIsFlagged
<1>6. ResolvedByOwnUniversity'
  BY <1>1, <1>2, <1>3, <1>4 DEF ReportsInv, ResolvedByOwnUniversity
<1>7. \A a \in audit' : report'[a.report] # NoReport
  BY <1>1, <1>3, <1>4 DEF ReportsInv
<1>8. \A q \in Reports : report'[q] # NoReport => report'[q].reporter \in Chatters /\ report'[q].target \in Chats
  BY <1>1, <1>2, <1>3 DEF ReportsInv
<1>9. reporting' \in [Chatters -> Chats \cup {Nowhere}]
      /\ \A v \in Chatters : reporting'[v] # Nowhere => reporting'[v] \in flagged'
  BY <1>1 DEF ReportsInv
<1>. QED
  BY <1>1, <1>3, <1>5, <1>6, <1>7, <1>8, <1>9 DEF ReportsInv

\* ReportLost keeps the invariant.
LEMMA ReportLostInv ==
    ASSUME ReportsInv, NEW u \in Chatters, ReportLost(u)
    PROVE  ReportsInv'
<1>1. reporting' = [reporting EXCEPT ![u] = Nowhere] /\ UNCHANGED <<flagged, report, audit>>
  BY DEF ReportLost
<1>. QED
  BY <1>1 DEF ReportsInv, ReportedIsFlagged, ResolvedByOwnUniversity

\* Resolve keeps the invariant.
LEMMA ResolveInv ==
    ASSUME ReportsInv, NEW campus \in ChatUniversities, NEW r \in Reports, ResolveContentReport(campus, r)
    PROVE  ReportsInv'
<1> DEFINE new == [report[r] EXCEPT !.resolved = TRUE]
           entry == [campus |-> campus, report |-> r]
<1>1. /\ report' = [report EXCEPT ![r] = new] /\ audit' = audit \cup {entry} /\ UNCHANGED <<flagged, reporting>>
      /\ r \in ListContentReports(campus)
  BY DEF ResolveContentReport, Resolvable
<1>2. report[r] # NoReport /\ CampusOf[report[r].reporter] = campus
  BY <1>1, NothingByTarget DEF ListContentReports
<1>3. /\ new \in Report /\ new.reporter = report[r].reporter /\ new.target = report[r].target
      /\ new # NoReport
  BY DEF ReportsInv, Report, NoReport
<1>4. entry \in [campus: ChatUniversities, report: Reports] /\ entry.report = r /\ entry.campus = campus
  OBVIOUS
<1> HIDE DEF new, entry
<1>5. /\ report' \in [Reports -> Report] /\ report'[r] = new
      /\ \A q \in Reports : q # r => report'[q] = report[q]
      /\ \A q \in Reports : report'[q].reporter = report[q].reporter /\ report'[q].target = report[q].target
  BY <1>1, <1>3 DEF ReportsInv
<1>6. ReportedIsFlagged'
  BY <1>1, <1>2, <1>3, <1>5 DEF ReportsInv, ReportedIsFlagged
<1>7. ResolvedByOwnUniversity'
  <2>1. \A q \in Reports : report'[q].resolved => \E a \in audit' : a.report = q
    BY <1>1, <1>4, <1>5 DEF ReportsInv, ResolvedByOwnUniversity
  <2>2. \A a \in audit' : a.campus = CampusOf[report'[a.report].reporter]
    BY <1>1, <1>2, <1>4, <1>5 DEF ReportsInv, ResolvedByOwnUniversity
  <2>. QED
    BY <2>1, <2>2 DEF ResolvedByOwnUniversity
<1>8. \A a \in audit' : a.report \in Reports /\ report'[a.report] # NoReport
  BY <1>1, <1>3, <1>4, <1>5 DEF ReportsInv
<1>9. audit' \subseteq [campus: ChatUniversities, report: Reports]
  BY <1>1, <1>4 DEF ReportsInv
<1>. QED
  BY <1>1, <1>2, <1>3, <1>5, <1>6, <1>7, <1>8, <1>9 DEF ReportsInv, ChatUniversities

-----------------------------------------------------------------------------

\* The invariant holds in every reachable state.
THEOREM ChatInvariant == ChatSpec => []ChatInv
<1>1. ASSUME ChatInv, [ChatNext]_chatVars PROVE ChatInv'
  <2>1. ASSUME UNCHANGED <<message, room, outgoing, got, marking, marked, overlaps>> PROVE MessagesInv'
    BY <1>1, <2>1 DEF ChatInv, MessagesInv, OnlyParticipantsGetMessages, MarkIsLostInOverlapsOnly
  <2>2. ASSUME UNCHANGED <<flagged, report, reporting, audit>> PROVE ReportsInv'
    BY <1>1, <2>2 DEF ChatInv, ReportsInv, ReportedIsFlagged, ResolvedByOwnUniversity
  <2>3. MessagesInv /\ ReportsInv
    BY <1>1 DEF ChatInv
  <2>4. ASSUME NEW u \in Chatters, NEW c \in Chats, Join(u, c) \/ MarkRead(u, c) \/ Flag(u, c) PROVE ChatInv'
    <3>1. CASE Join(u, c) \/ MarkRead(u, c)
      BY <2>2, <2>3, <3>1, JoinInv, MarkReadInv DEF ChatInv, Join, MarkRead
    <3>2. CASE Flag(u, c)
      BY <2>1, <2>3, <3>2, FlagInv DEF ChatInv, Flag
    <3>. QED
      BY <2>4, <3>1, <3>2
  <2>5. ASSUME NEW u \in Chatters, NEW c \in Chats, NEW m \in Messages, SendMessage(u, c, m) PROVE ChatInv'
    BY <2>2, <2>3, <2>5, SendMessageInv DEF ChatInv, SendMessage
  <2>6. ASSUME NEW u \in Chatters, NEW m \in Messages, WriteReaders(u, m) PROVE ChatInv'
    BY <2>2, <2>3, <2>6, WriteReadersInv DEF ChatInv, WriteReaders
  <2>7. ASSUME NEW u \in Chatters, Disconnect(u) PROVE ChatInv'
    BY <2>2, <2>3, <2>7, DisconnectInv DEF ChatInv, Disconnect
  <2>8. ASSUME NEW m \in Messages, Emit(m) PROVE ChatInv'
    BY <2>2, <2>3, <2>8, EmitInv DEF ChatInv, Emit
  <2>9. ASSUME NEW u \in Chatters, ReportLost(u) \/ \E r \in Reports : FileReport(u, r) PROVE ChatInv'
    BY <2>1, <2>3, <2>9, ReportLostInv, FileReportInv DEF ChatInv, FileReport, ReportLost
  <2>10. ASSUME NEW campus \in ChatUniversities, NEW r \in Reports, ResolveContentReport(campus, r) PROVE ChatInv'
    BY <2>1, <2>3, <2>10, ResolveInv DEF ChatInv, ResolveContentReport
  <2>11. CASE UNCHANGED chatVars
    BY <2>1, <2>2, <2>11 DEF chatVars, ChatInv
  <2>12. CASE ChatNext
    BY <2>4, <2>5, <2>6, <2>7, <2>8, <2>9, <2>10, <2>12 DEF ChatNext
  <2>. QED
    BY <1>1, <2>11, <2>12
<1>. QED
  BY <1>1, ChatInitInv, PTL DEF ChatSpec

\* The overview and the list count the same reports.
LEMMA OverviewIsTheList == ReportsInv => OverviewCountsTheList
<1> SUFFICES ASSUME ReportsInv, NEW campus \in ChatUniversities
             PROVE  CountUniversityOpenReports(campus)
                        = Cardinality({r \in ListContentReports(campus) : ~report[r].resolved})
  BY DEF OverviewCountsTheList
<1> DEFINE all == {r \in Reports : report[r] # NoReport}
           filed == {r \in all : CampusOf[report[r].reporter] = campus}
           open == {r \in Reports : report[r] # NoReport /\ ~report[r].resolved}
           direct == {r \in open : CampusOf[report[r].reporter] = campus}
<1>1. ByTarget(campus, all \ filed) = {} /\ ByTarget(campus, open \ direct) = {}
  BY NothingByTarget
<1>2. {r \in ListContentReports(campus) : ~report[r].resolved} = direct
  BY <1>1 DEF ListContentReports
<1>3. CountUniversityOpenReports(campus) = Cardinality(direct) + Cardinality({})
  BY <1>1 DEF CountUniversityOpenReports
<1>4. IsFiniteSet(direct) /\ Cardinality({}) = 0
  <2>1. direct \in SUBSET Reports /\ IsFiniteSet(Reports)
    BY ClaimChatAssumption
  <2>. QED
    BY <2>1, FS_Subset, FS_EmptySet
<1>5. Cardinality(direct) \in Nat
  BY <1>4, FS_CardinalityType
<1> HIDE DEF direct
<1>. QED
  BY <1>2, <1>3, <1>4, <1>5

\* A conversation, the marks on its messages and the reports about it are kept
\* through concurrent readers, reporters and administrators.
THEOREM ConversationsAreKept == ChatSpec => []ChatIsKept
<1>1. ChatInv => ChatIsKept
  BY OverviewIsTheList DEF ChatInv, MessagesInv, ReportsInv, ChatIsKept
<1>. QED
  BY <1>1, ChatInvariant, PTL

\* Rows keep their shape.
THEOREM ChatTypes == ChatSpec => []ChatTypeOK
<1>1. ASSUME ChatInv PROVE ChatTypeOK
  <2>1. \A u \in Chatters : marking[u].left \subseteq In(marking[u].chat)
    BY <1>1 DEF ChatInv, MessagesInv, Marking, In
  <2>. QED
    BY <1>1, <2>1 DEF ChatInv, MessagesInv, ReportsInv, ChatTypeOK
<1>. QED
  BY <1>1, ChatInvariant, PTL

-----------------------------------------------------------------------------
(* Rentals *)

\* An available listing is free, or somebody made it available while it was rented.
AvailableIsFree ==
    \A l \in Listings :
        \A b \in Bookings :
            /\ listing[l].available
            /\ booking[b].status = "ACTIVE"
            /\ booking[b].listing = l
            => l \in reopened

\* A booking that exists is of a listing, and a return under way is of one.
BookingsExist ==
    /\ \A b \in Bookings : booking[b].status # "NONE" => booking[b].listing \in Listings
    /\ \A t \in Tabs : giving[t] # Nobody => booking[giving[t]].status # "NONE"

RentalInv == RentalTypeOK /\ BookingsExist /\ AvailableIsFree /\ RentalsAgree

\* Nothing is published or booked yet.
LEMMA RentalInitInv == RentalInit => RentalInv
<1> SUFFICES ASSUME RentalInit PROVE RentalInv
  OBVIOUS
<1>1. RentalTypeOK
  BY DEF RentalInit, RentalTypeOK, Listing, Booking, Shown, NoListing, NoBooking, ActiveBookings
<1>2. BookingsExist /\ AvailableIsFree /\ RentalsAgree
  BY DEF RentalInit, BookingsExist, AvailableIsFree, RentalsAgree, OverlapNeedsReopening,
     UnavailableHasAReason, ActiveBookingHasListing, NoListing, NoBooking
<1>. QED
  BY <1>1, <1>2 DEF RentalInv

-----------------------------------------------------------------------------
(* The owner *)

\* Whatever is published was not listed, so nobody rents it.
LEMMA PublishInv ==
    ASSUME RentalInv, NEW t \in Tabs, NEW l \in Listings, NEW price, Publish(t, l, price)
    PROVE  RentalInv'
<1>1. \A b \in Bookings : booking[b].status = "ACTIVE" => booking[b].listing # l
  BY DEF RentalInv, RentalsAgree, ActiveBookingHasListing, Publish, NoListing
<1>2. listing' \in [Listings -> Listing]
  BY DEF RentalInv, RentalTypeOK, Publish, Listing, RentalStudents
<1>3. \A b \in Bookings : booking[b].status = "ACTIVE" => listing'[booking[b].listing] = listing[booking[b].listing]
  BY <1>1 DEF RentalInv, RentalTypeOK, BookingsExist, Publish
<1>4. RentalTypeOK'
  BY <1>2, <1>3 DEF RentalInv, RentalTypeOK, ActiveBookings, Publish
<1>5. BookingsExist' /\ AvailableIsFree'
  BY <1>1 DEF RentalInv, RentalTypeOK, BookingsExist, AvailableIsFree, Publish
<1>6. OverlapNeedsReopening' /\ ActiveBookingHasListing'
  BY <1>3 DEF RentalInv, RentalsAgree, OverlapNeedsReopening, ActiveBookingHasListing, Publish
<1>7. UnavailableHasAReason'
  BY DEF RentalInv, RentalTypeOK, RentalsAgree, UnavailableHasAReason, ActiveOf, ActiveBookings, Publish
<1>. QED
  BY <1>4, <1>5, <1>6, <1>7 DEF RentalInv, RentalsAgree

\* A switch changes one flag, and notes when the listing was rented.
LEMMA SwitchInv ==
    ASSUME RentalInv, NEW t \in Tabs, NEW l \in Listings, NEW on \in BOOLEAN, Switch(t, l, on)
    PROVE  RentalInv'
<1>1. RentalTypeOK'
  BY DEF RentalInv, RentalTypeOK, BookingsExist, ActiveBookings, Switch, Listing
<1>2. BookingsExist' /\ AvailableIsFree'
  BY DEF RentalInv, RentalTypeOK, BookingsExist, AvailableIsFree, Switch, ActiveOf, ActiveBookings, Listing
<1>3. OverlapNeedsReopening' /\ ActiveBookingHasListing'
  BY DEF RentalInv, RentalTypeOK, BookingsExist, RentalsAgree, OverlapNeedsReopening,
     ActiveBookingHasListing, Switch, Listing
<1>4. UnavailableHasAReason'
  BY DEF RentalInv, RentalTypeOK, RentalsAgree, UnavailableHasAReason, ActiveOf, ActiveBookings, Switch, Listing
<1>. QED
  BY <1>1, <1>2, <1>3, <1>4 DEF RentalInv, RentalsAgree

\* The bookings of a listing go with it.
LEMMA RemoveInv ==
    ASSUME RentalInv, NEW t \in Tabs, NEW l \in Listings, Remove(t, l)
    PROVE  RentalInv'
<1>1. /\ booking' \in [Bookings -> Booking]
      /\ \A b \in Bookings :
            /\ booking'[b].listing = booking[b].listing
            /\ booking'[b].renter = booking[b].renter
            /\ booking'[b].status = IF booking[b].listing = l THEN "GONE" ELSE booking[b].status
  BY DEF RentalInv, RentalTypeOK, Remove, Booking
<1>2. /\ listing' \in [Listings -> Listing]
      /\ \A k \in Listings : listing'[k].owner = listing[k].owner /\ (k # l => listing'[k] = listing[k])
      /\ ~listing'[l].listed /\ ~listing'[l].available
  BY DEF RentalInv, RentalTypeOK, Remove, Listing
<1>3. RentalTypeOK'
  BY <1>1, <1>2 DEF RentalInv, RentalTypeOK, BookingsExist, ActiveBookings, Remove
<1>4. BookingsExist'
  <2>1. \A c \in Bookings : booking'[c].status # "NONE" => booking'[c].listing \in Listings
    BY <1>1 DEF RentalInv, BookingsExist
  <2>2. \A u \in Tabs : giving[u] # Nobody => giving[u] \in Bookings /\ booking[giving[u]].status # "NONE"
    BY DEF RentalInv, RentalTypeOK, BookingsExist
  <2>3. \A u \in Tabs : giving[u] # Nobody => booking'[giving[u]].status # "NONE"
    BY <1>1, <2>2
  <2>. QED
    BY <2>1, <2>3 DEF BookingsExist, Remove
<1>5. AvailableIsFree'
  BY <1>1, <1>2 DEF RentalInv, AvailableIsFree, Remove
<1>6. OverlapNeedsReopening' /\ ActiveBookingHasListing'
  BY <1>1, <1>2 DEF RentalInv, RentalsAgree, BookingsExist, OverlapNeedsReopening, ActiveBookingHasListing, Remove
<1>7. UnavailableHasAReason'
  <2>1. \A k \in Listings : k # l => ActiveOf(k)' = ActiveOf(k)
    BY <1>1 DEF ActiveOf, ActiveBookings
  <2>2. hidden' = hidden
    BY DEF Remove
  <2>. QED
    BY <1>2, <2>1, <2>2 DEF RentalInv, RentalsAgree, UnavailableHasAReason
<1>. QED
  BY <1>3, <1>4, <1>5, <1>6, <1>7 DEF RentalInv, RentalsAgree

-----------------------------------------------------------------------------
(* The renter *)

\* The conditional update takes a free listing, or a reopened one.
LEMMA BookInv ==
    ASSUME RentalInv, NEW t \in Tabs, NEW l \in Listings, NEW b \in Bookings, Book(t, l, b)
    PROVE  RentalInv'
<1>1. /\ booking' \in [Bookings -> Booking]
      /\ booking'[b] = [status |-> "ACTIVE", listing |-> l, renter |-> StudentOf[t]]
      /\ \A c \in Bookings : c # b => booking'[c] = booking[c]
      /\ booking[b].status = "NONE"
  BY DEF RentalInv, RentalTypeOK, Book, Booking, RentalStudents, NoBooking
<1>2. /\ listing' \in [Listings -> Listing]
      /\ \A k \in Listings : /\ listing'[k].owner = listing[k].owner
                             /\ listing'[k].listed = listing[k].listed
                             /\ k # l => listing'[k] = listing[k]
      /\ listing[l].listed /\ listing[l].available /\ ~listing'[l].available
  BY DEF RentalInv, RentalTypeOK, Book, Claimable, Listing
<1>3. RentalTypeOK'
  BY <1>1, <1>2 DEF RentalInv, RentalTypeOK, BookingsExist, ActiveBookings, Book, MayRent
<1>4. BookingsExist'
  BY <1>1 DEF RentalInv, RentalTypeOK, BookingsExist, Book
<1>5. AvailableIsFree'
  BY <1>1, <1>2 DEF RentalInv, AvailableIsFree, Book
<1>6. OverlapNeedsReopening'
  <2>1. ASSUME NEW c \in Bookings, booking[c].status = "ACTIVE", booking[c].listing = l
        PROVE  l \in reopened'
    BY <1>2, <2>1 DEF RentalInv, AvailableIsFree, Book, ActiveOf, ActiveBookings
  <2>2. \A k \in Listings : k # l => (k \in reopened' <=> k \in reopened)
    BY DEF Book
  <2>3. SUFFICES ASSUME NEW c \in Bookings, NEW d \in Bookings, c # d,
                        booking'[c].status = "ACTIVE", booking'[d].status = "ACTIVE",
                        booking'[c].listing = booking'[d].listing
                 PROVE  booking'[c].listing \in reopened'
    BY DEF OverlapNeedsReopening
  <2>4. CASE c = b
    BY <1>1, <2>1, <2>3, <2>4
  <2>5. CASE d = b
    BY <1>1, <2>1, <2>3, <2>5
  <2>6. CASE c # b /\ d # b
    BY <1>1, <2>1, <2>2, <2>3, <2>6 DEF RentalInv, RentalsAgree, OverlapNeedsReopening, BookingsExist
  <2>. QED
    BY <2>4, <2>5, <2>6
<1>7. ActiveBookingHasListing'
  BY <1>1, <1>2 DEF RentalInv, RentalsAgree, BookingsExist, ActiveBookingHasListing
<1>8. UnavailableHasAReason'
  BY <1>1, <1>2 DEF RentalInv, RentalsAgree, UnavailableHasAReason, ActiveOf, ActiveBookings, Book
<1>. QED
  BY <1>3, <1>4, <1>5, <1>6, <1>7, <1>8 DEF RentalInv, RentalsAgree

\* A return that was read as active writes two rows that are there, whatever they hold.
LEMMA ReturnWriteInv ==
    ASSUME RentalInv, NEW t \in Tabs, ReturnWrite(t)
    PROVE  RentalInv'
<1> DEFINE b == giving[t]
           l == booking[b].listing
<1>1. b \in Bookings /\ l \in Listings
  BY DEF RentalInv, RentalTypeOK, BookingsExist, ReturnWrite
<1>2. /\ booking' \in [Bookings -> Booking]
      /\ \A c \in Bookings : /\ booking'[c].listing = booking[c].listing
                             /\ c # b => booking'[c] = booking[c]
      /\ booking'[b].status = "COMPLETED"
  BY <1>1 DEF RentalInv, RentalTypeOK, ReturnWrite, Booking
<1>3. /\ listing' \in [Listings -> Listing]
      /\ \A k \in Listings : /\ listing'[k].owner = listing[k].owner
                             /\ listing'[k].listed = listing[k].listed
                             /\ k # l => listing'[k] = listing[k]
      /\ listing'[l].available
  BY <1>1 DEF RentalInv, RentalTypeOK, ReturnWrite, Freed, Listing
<1>4. /\ giving' = [giving EXCEPT ![t] = Nobody]
      /\ hidden' = hidden \ {l}
      /\ reopened \subseteq reopened' /\ reopened' \subseteq reopened \cup {l}
      /\ \A c \in Bookings : c # b /\ booking[c].status = "ACTIVE" /\ booking[c].listing = l => l \in reopened'
      /\ shown' = shown
  BY DEF ReturnWrite, ActiveOf, ActiveBookings
<1> HIDE DEF b, l
<1>5. RentalTypeOK'
  <2>1. \A c \in ActiveBookings' : booking'[c].renter # listing'[booking'[c].listing].owner
    BY <1>2, <1>3 DEF RentalInv, RentalTypeOK, BookingsExist, ActiveBookings
  <2>. QED
    BY <1>1, <1>2, <1>3, <1>4, <2>1 DEF RentalInv, RentalTypeOK
<1>6. BookingsExist'
  <2>1. \A c \in Bookings : booking'[c].status # "NONE" => booking'[c].listing \in Listings
    BY <1>1, <1>2 DEF RentalInv, BookingsExist, l
  <2>2. \A u \in Tabs : giving[u] # Nobody => giving[u] \in Bookings /\ booking[giving[u]].status # "NONE"
    BY DEF RentalInv, RentalTypeOK, BookingsExist
  <2>3. \A u \in Tabs : giving[u] # Nobody => booking'[giving[u]].status # "NONE"
    BY <1>2, <2>2
  <2>4. \A u \in Tabs : giving'[u] # Nobody => giving'[u] = giving[u]
    BY <1>4 DEF RentalInv, RentalTypeOK
  <2>. QED
    BY <2>1, <2>3, <2>4 DEF BookingsExist
<1>7. AvailableIsFree'
  BY <1>2, <1>3, <1>4 DEF RentalInv, AvailableIsFree
<1>8. OverlapNeedsReopening'
  BY <1>2, <1>4 DEF RentalInv, RentalsAgree, OverlapNeedsReopening
<1>9. ActiveBookingHasListing'
  BY <1>2, <1>3 DEF RentalInv, RentalsAgree, BookingsExist, ActiveBookingHasListing
<1>10. UnavailableHasAReason'
  BY <1>1, <1>2, <1>3, <1>4 DEF RentalInv, RentalsAgree, UnavailableHasAReason, ActiveOf, ActiveBookings, b, l
<1>. QED
  BY <1>5, <1>6, <1>7, <1>8, <1>9, <1>10 DEF RentalInv, RentalsAgree

\* The other steps of a tab change its page or its return only.
LEMMA TabInv ==
    ASSUME RentalInv, NEW t \in Tabs,
           Fetch(t) \/ (\E b \in Bookings : ReturnRead(t, b)) \/ ReturnFails(t)
    PROVE  RentalInv'
<1>1. UNCHANGED <<listing, booking, hidden, reopened>>
  BY DEF Fetch, ReturnRead, ReturnFails
<1>2. shown' \in [Tabs -> Shown] /\ giving' \in [Tabs -> Bookings \cup {Nobody}]
  BY DEF RentalInv, RentalTypeOK, Fetch, FindAll, FindMine, ReturnRead, ReturnFails, Shown
<1>3. \A u \in Tabs : giving'[u] # Nobody => booking[giving'[u]].status # "NONE"
  BY DEF RentalInv, RentalTypeOK, BookingsExist, Fetch, ReturnRead, ReturnFails
<1>4. RentalTypeOK'
  BY <1>1, <1>2 DEF RentalInv, RentalTypeOK, ActiveBookings
<1>5. BookingsExist'
  BY <1>1, <1>3 DEF RentalInv, BookingsExist
<1>6. AvailableIsFree' /\ RentalsAgree'
  BY <1>1 DEF RentalInv, AvailableIsFree, RentalsAgree, OverlapNeedsReopening, UnavailableHasAReason,
     ActiveBookingHasListing, ActiveOf, ActiveBookings
<1>. QED
  BY <1>4, <1>5, <1>6 DEF RentalInv

-----------------------------------------------------------------------------

\* The invariant holds in every state.
THEOREM RentalInvariant == RentalSpec => []RentalInv
<1>1. ASSUME RentalInv, [RentalNext]_rentalVars PROVE RentalInv'
  <2>1. CASE OwnerNext
    BY <1>1, <2>1, PublishInv, SwitchInv, RemoveInv DEF OwnerNext
  <2>2. CASE RenterNext
    BY <1>1, <2>2, BookInv, ReturnWriteInv, TabInv DEF RenterNext
  <2>3. CASE UNCHANGED rentalVars
    BY <1>1, <2>3 DEF rentalVars, RentalInv, RentalTypeOK, BookingsExist, AvailableIsFree, RentalsAgree,
       OverlapNeedsReopening, UnavailableHasAReason, ActiveBookingHasListing, ActiveOf, ActiveBookings
  <2>. QED
    BY <1>1, <2>1, <2>2, <2>3 DEF RentalNext
<1>. QED
  BY RentalInitInv, <1>1, PTL DEF RentalSpec

\* A listing is rented to one student unless it was reopened, is unavailable for a
\* reason only, and is there while it is rented.
THEOREM RentalsStayConsistent == RentalSpec => []RentalsAgree
<1>1. RentalInv => RentalsAgree
  BY DEF RentalInv
<1>. QED
  BY <1>1, RentalInvariant, PTL

-----------------------------------------------------------------------------
(* The suite, MCExchange *)

\* However the suite interleaves its components, each does only what it does alone: what is proved of
\* a component holds in the suite.
THEOREM SuiteIsOfItsComponents == SuiteSpec => Spec /\ ChatSpec /\ RentalSpec
<1>1. SuiteInit => Init /\ ChatInit /\ RentalInit
  BY DEF SuiteInit
<1>2. ASSUME [SuiteNext]_SuiteVars
      PROVE  /\ [Next]_vars
             /\ [ChatNext]_chatVars
             /\ [RentalNext]_rentalVars
  <2>1. CASE SuiteNext
    BY <2>1 DEF SuiteNext
  <2>2. CASE UNCHANGED SuiteVars
    BY <2>2 DEF SuiteVars
  <2>. QED
    BY <1>2, <2>1, <2>2
<1>. QED
  BY <1>1, <1>2, PTL DEF SuiteSpec, Spec, ChatSpec, RentalSpec

\* Every component of the suite keeps its shape.
THEOREM SuiteTypes == SuiteSpec => []SuiteTypeOK
<1>1. ClaimsInv => TypeOK
  BY DEF ClaimsInv
<1>2. RentalInv => RentalTypeOK
  BY DEF RentalInv
<1>. QED
  BY <1>1, <1>2, SuiteIsOfItsComponents, ClaimsInvariant, ChatTypes, RentalInvariant, PTL DEF SuiteTypeOK

=============================================================================
