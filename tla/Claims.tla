------------------------------ MODULE Claims ------------------------------
(***************************************************************************)
(* Claims on found items: apps/api/src/claims/claims.service.ts.           *)
(*                                                                         *)
(* createClaim writes the claim, its conversation and the finder's         *)
(* notification in three awaits.  decideClaim is a Serializable            *)
(* transaction: one step reads, another commits if the decisions it read   *)
(* are still as they were.  confirmRecovery takes the claim's row with a   *)
(* conditional update and is one step.                                     *)
(***************************************************************************)
EXTENDS Naturals, FiniteSets

CONSTANTS
    Claims,     \* claim rows that may be created
    FoundItems,
    LostItems,
    FoundOf,    \* the found item of each claim
    LostOf,     \* the claimant's lost item of each claim, or None
    Decisions,  \* slots for decisions in flight
    None

ASSUME ClaimsAssumption ==
    /\ FoundOf \in [Claims -> FoundItems]
    /\ LostOf \in [Claims -> LostItems \cup {None}]
    /\ None \notin Claims \cup LostItems

VARIABLES
    claim,     \* Claim rows, and how far createClaim has come
    found,     \* status of the found items
    lost,      \* status of the lost items
    decision,  \* decisions in flight
    approvals  \* history: claims that ever reached APPROVED

vars == <<claim, found, lost, decision, approvals>>

-----------------------------------------------------------------------------

\* The statuses the code assigns; PENDING, CANCELLED and HANDED_OVER are never set.
ClaimStatus == {"VERIFICATION_REQUIRED", "APPROVED", "REJECTED", "RECOVERY_CONFIRMED"}

Claim == [status: ClaimStatus \cup {"NONE"}, conversation: BOOLEAN, notified: BOOLEAN]

NoClaim == [status |-> "NONE", conversation |-> FALSE, notified |-> FALSE]

Decision == [claim: Claims \cup {None}, to: {"APPROVED", "REJECTED"},
             read: [Claims -> ClaimStatus \cup {"NONE"}]]

NoDecision == [claim |-> None, to |-> "REJECTED", read |-> [c \in Claims |-> "NONE"]]

Siblings(c) == {d \in Claims : FoundOf[d] = FoundOf[c] /\ d # c}

\* What a decision depends on: the claim, and for an approval all claims of its item.
Relevant(c, to) == {c} \cup IF to = "APPROVED" THEN Siblings(c) ELSE {}

Init ==
    /\ claim = [c \in Claims |-> NoClaim]
    /\ found = [f \in FoundItems |-> "ACTIVE"]
    /\ lost = [l \in LostItems |-> "ACTIVE"]
    /\ decision = [r \in Decisions |-> NoDecision]
    /\ approvals = {}

-----------------------------------------------------------------------------
(* createClaim; a process that dies between the steps never takes the next one *)

CreateClaim(c) ==
    /\ claim[c].status = "NONE"
    /\ claim' = [claim EXCEPT ![c].status = "VERIFICATION_REQUIRED"]
    /\ UNCHANGED <<found, lost, decision, approvals>>

CreateConversation(c) ==
    /\ claim[c].status # "NONE"
    /\ ~claim[c].conversation
    /\ claim' = [claim EXCEPT ![c].conversation = TRUE]
    /\ UNCHANGED <<found, lost, decision, approvals>>

NotifyFinder(c) ==
    /\ claim[c].conversation
    /\ ~claim[c].notified
    /\ claim' = [claim EXCEPT ![c].notified = TRUE]
    /\ UNCHANGED <<found, lost, decision, approvals>>

-----------------------------------------------------------------------------
(* decideClaim *)

\* The claim exists and, to approve it, no claim of its item is APPROVED.
DecideRead(r, c, to) ==
    /\ decision[r].claim = None
    /\ claim[c].status # "NONE"
    /\ to = "APPROVED" => \A d \in Siblings(c) \cup {c} : claim[d].status # "APPROVED"
    /\ decision' = [decision EXCEPT ![r] =
                       [claim |-> c, to |-> to,
                        read |-> [d \in Claims |->
                                     IF d \in Relevant(c, to) THEN claim[d].status ELSE "NONE"]]]
    /\ UNCHANGED <<claim, found, lost, approvals>>

\* Variant: the default isolation level, which notices no changed read.
Bug_Serializes(r) == TRUE

\* PostgreSQL commits a Serializable transaction unless what it read has been
\* decided otherwise; a claim that was created meanwhile comes after it.
Serializes(r) ==
    \A d \in Relevant(decision[r].claim, decision[r].to) :
        \/ claim[d].status = decision[r].read[d]
        \/ claim[d].status = "VERIFICATION_REQUIRED" /\ decision[r].read[d] = "NONE"

\* The item's status after an approval.
ItemAfter(r, f) == "CLAIMED"

DecideCommit(r) ==
    LET c == decision[r].claim
    IN  /\ c # None
        /\ Serializes(r)
        /\ \/ /\ decision[r].to = "APPROVED"
              /\ claim' = [d \in Claims |->
                    IF d = c THEN [claim[d] EXCEPT !.status = "APPROVED"]
                    ELSE IF d \in Siblings(c) /\ decision[r].read[d] = "VERIFICATION_REQUIRED"
                    THEN [claim[d] EXCEPT !.status = "REJECTED"]
                    ELSE claim[d]]
              /\ found' = [found EXCEPT ![FoundOf[c]] = ItemAfter(r, @)]
              /\ approvals' = approvals \cup {c}
           \/ /\ decision[r].to = "REJECTED"
              /\ claim' = [claim EXCEPT ![c].status = "REJECTED"]
              /\ UNCHANGED <<found, approvals>>
        /\ decision' = [decision EXCEPT ![r] = NoDecision]
        /\ UNCHANGED lost

\* The transaction is refused, or the process dies before it commits.
DecideAbort(r) ==
    /\ decision[r].claim # None
    /\ decision' = [decision EXCEPT ![r] = NoDecision]
    /\ UNCHANGED <<claim, found, lost, approvals>>

-----------------------------------------------------------------------------
(* confirmRecovery *)

MayConfirm(c) == claim[c].status = "APPROVED"

\* The item found stays CLAIMED; the claimant's own report, if any, is closed.
ConfirmRecovery(c) ==
    /\ MayConfirm(c)
    /\ claim' = [claim EXCEPT ![c].status = "RECOVERY_CONFIRMED"]
    /\ lost' = [l \in LostItems |-> IF l = LostOf[c] THEN "RECOVERED" ELSE lost[l]]
    /\ UNCHANGED <<found, decision, approvals>>

-----------------------------------------------------------------------------

ClaimantNext ==
    \E c \in Claims :
        \/ CreateClaim(c)
        \/ CreateConversation(c)
        \/ NotifyFinder(c)
        \/ ConfirmRecovery(c)

AuthorityNext ==
    \E r \in Decisions :
        \/ \E c \in Claims, to \in {"APPROVED", "REJECTED"} : DecideRead(r, c, to)
        \/ DecideCommit(r)
        \/ DecideAbort(r)

Next == ClaimantNext \/ AuthorityNext

Spec == Init /\ [][Next]_vars

-----------------------------------------------------------------------------
(* Properties *)

\* Rows keep their shape, and a claim that does not exist has no status, chat,
\* notification or decision.
TypeOK ==
    /\ claim \in [Claims -> Claim]
    /\ found \in [FoundItems -> {"ACTIVE", "CLAIMED"}]
    /\ lost \in [LostItems -> {"ACTIVE", "RECOVERED"}]
    /\ decision \in [Decisions -> Decision]
    /\ approvals \subseteq Claims
    /\ \A c \in Claims : claim[c].status = "NONE" => claim[c] = NoClaim
    /\ \A r \in Decisions :
          decision[r].claim # None => claim[decision[r].claim].status # "NONE"

\* No two claims on one item are APPROVED at the same time, however many
\* decisions were taken on what they read before the others committed.
OneApprovedAtATime ==
    \A c, d \in Claims :
        /\ claim[c].status = "APPROVED"
        /\ claim[d].status = "APPROVED"
        /\ FoundOf[c] = FoundOf[d]
        => c = d

\* An item with an approved or recovered claim is out of the search for matches.
ApprovedItemIsClaimed ==
    \A c \in Claims :
        claim[c].status \in {"APPROVED", "RECOVERY_CONFIRMED"} => found[FoundOf[c]] = "CLAIMED"

\* A lost item is closed only by a claim of its owner that an authority approved.
RecoveredWasApproved ==
    \A l \in LostItems : lost[l] = "RECOVERED" => \E c \in approvals : LostOf[c] = l

\* The claims on an item and the statuses of the items agree, whatever decisions and
\* confirmations are taken at once (claims.service.ts).
ClaimsAgree ==
    /\ OneApprovedAtATime
    /\ ApprovedItemIsClaimed
    /\ RecoveredWasApproved

\* Only one claim ever reaches APPROVED for a found item.
OneEverApproved ==
    \A c, d \in approvals : FoundOf[c] = FoundOf[d] => c = d

=============================================================================
