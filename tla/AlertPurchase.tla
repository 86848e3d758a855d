--------------------------- MODULE AlertPurchase ---------------------------
(***************************************************************************)
(* The paid lost-item alert of apps/api/src/wallet/alerts.service.ts on    *)
(* top of the wallet: key and item checks, the cooldown, debitForAlert,    *)
(* the alert row and the fan-out job, each behind an await of its own and  *)
(* in no common transaction.  A purchase shares the slot of the debit it   *)
(* makes.  The worker appears only as FanoutDone; AlertFanout details it.  *)
(***************************************************************************)
EXTENDS Wallet

CONSTANTS
    Items,     \* lost items
    ItemOwner, \* who reported each item
    Requests   \* what clients ask for: <<user, item, key>>

ASSUME PurchaseAssumption ==
    /\ ItemOwner \in [Items -> Users]
    /\ Requests \subseteq Users \X Items \X DebitKeys

VARIABLES
    alerts,   \* UniversityAlert rows in order of creation
    expired,  \* how many of the oldest are more than ALERT_COOLDOWN_HOURS old
    active,   \* lost items with status ACTIVE
    queued,   \* alerts whose job the fan-out queue has accepted
    purchase  \* POST /wallet/alerts/purchase requests in flight

alertVars == <<alerts, expired, active, queued, purchase>>
pvars == <<vars, alertVars>>

Alert == [key: Keys, item: Items, user: Users, entry: Nat, status: {"PENDING", "SENT"}]

IdlePurchase == [pc |-> "idle", user |-> None, item |-> None, key |-> None]

PurchaseInit ==
    /\ Init
    /\ alerts = <<>>
    /\ expired = 0
    /\ active = Items
    /\ queued = {}
    /\ purchase = [r \in Debits |-> IdlePurchase]

-----------------------------------------------------------------------------

AlertWithKey(k) == {i \in 1..Len(alerts) : alerts[i].key = k}

\* Variant: the cooldown is not enforced.
Bug_RecentAlerts(item) == {}

RecentAlerts(item) == {i \in expired + 1 .. Len(alerts) : alerts[i].item = item}

\* The key and item checks.  An alert with this key ends the request, as a
\* repeat or as a conflict; the unique key is enforced again on creation.
PurchaseStart(r, u, i, k) ==
    /\ purchase[r].pc = "idle"
    /\ AlertWithKey(k) = {}
    /\ ItemOwner[i] = u
    /\ i \in active
    /\ purchase' = [purchase EXCEPT ![r] =
                       [pc |-> "cooldown", user |-> u, item |-> i, key |-> k]]
    /\ UNCHANGED <<vars, alerts, expired, active, queued>>

PurchaseCooldown(r) ==
    /\ purchase[r].pc = "cooldown"
    /\ RecentAlerts(purchase[r].item) = {}
    /\ purchase' = [purchase EXCEPT ![r].pc = "debit"]
    /\ UNCHANGED <<vars, alerts, expired, active, queued>>

PurchaseDebit(r) ==
    /\ purchase[r].pc = "debit"
    /\ DebitLookup(r, purchase[r].user, purchase[r].key)
    /\ purchase' = [purchase EXCEPT ![r].pc = "create"]
    /\ UNCHANGED <<alerts, expired, active, queued>>

\* Variant: the balance is not checked again inside the transaction.
Bug_PurchaseCharge(r) ==
    /\ debit[r].pc = "charge"
    /\ KeyFree(debit[r].key)
    /\ ledger' = Append(ledger, NewDebit(r))
    /\ cached' = [cached EXCEPT ![debit[r].user] = @ - AlertPrice]
    /\ debit' = [debit EXCEPT ![r].pc = "charged", ![r].entry = Len(ledger) + 1]
    /\ UNCHANGED <<wallets, razorpay, topup, hook, reader, alertVars>>

\* debitForAlert's transaction, inside the call PurchaseDebit made.
PurchaseCharge(r) == DebitCharge(r) /\ UNCHANGED alertVars

NewAlert(r) ==
    [key |-> purchase[r].key, item |-> purchase[r].item, user |-> purchase[r].user,
     entry |-> debit[r].entry, status |-> "PENDING"]

\* Variant: the unique constraints on the alert's columns are not declared.
Bug_UniqueAlert(k, i) == TRUE

\* idempotencyKey and ledgerEntryId are unique columns.
UniqueAlert(k, i) == \A j \in 1..Len(alerts) : alerts[j].key # k /\ alerts[j].entry # i

\* debitForAlert has returned.
PurchaseCreate(r) ==
    /\ purchase[r].pc = "create"
    /\ DebitReturn(r)
    /\ UniqueAlert(purchase[r].key, debit[r].entry)
    /\ alerts' = Append(alerts, NewAlert(r))
    /\ purchase' = [purchase EXCEPT ![r].pc = "enqueue"]
    /\ UNCHANGED <<expired, active, queued>>

\* The job id is derived from the alert id: adding it twice adds it once.
PurchaseEnqueue(r) ==
    /\ purchase[r].pc = "enqueue"
    /\ queued' = queued \cup AlertWithKey(purchase[r].key)
    /\ purchase' = [purchase EXCEPT ![r] = IdlePurchase]
    /\ UNCHANGED <<vars, alerts, expired, active>>

\* A check throws, an await rejects or the process dies; what was committed stays.
PurchaseFail(r) ==
    /\ purchase[r].pc # "idle"
    /\ IF debit[r].pc = "idle" THEN UNCHANGED vars ELSE DebitFail(r)
    /\ purchase' = [purchase EXCEPT ![r] = IdlePurchase]
    /\ UNCHANGED <<alerts, expired, active, queued>>

\* ALERT_COOLDOWN_HOURS pass since the oldest alert still inside the window.
CooldownEnds ==
    /\ expired < Len(alerts)
    /\ expired' = expired + 1
    /\ UNCHANGED <<vars, alerts, active, queued, purchase>>

\* The owner confirms recovery: the item is ACTIVE no more.
ItemRecovered(i) ==
    /\ i \in active
    /\ active' = active \ {i}
    /\ UNCHANGED <<vars, alerts, expired, queued, purchase>>

\* The worker ran the alert's job to its last update.
FanoutDone(i) ==
    /\ i \in queued
    /\ alerts[i].status = "PENDING"
    /\ alerts' = [alerts EXCEPT ![i].status = "SENT"]
    /\ UNCHANGED <<vars, expired, active, queued, purchase>>

-----------------------------------------------------------------------------

PurchaseNext ==
    \E r \in Debits :
        \/ \E req \in Requests : PurchaseStart(r, req[1], req[2], req[3])
        \/ PurchaseCooldown(r)
        \/ PurchaseDebit(r)
        \/ PurchaseCharge(r)
        \/ PurchaseCreate(r)
        \/ PurchaseEnqueue(r)
        \/ PurchaseFail(r)

OtherWalletNext ==
    /\ TopupNext \/ RazorpayNext \/ HookNext \/ BalanceNext
    /\ UNCHANGED alertVars

AlertNext ==
    \/ PurchaseNext
    \/ OtherWalletNext
    \/ CooldownEnds
    \/ \E i \in Items : ItemRecovered(i)
    \/ \E i \in 1..Len(alerts) : FanoutDone(i)

PurchaseSpec == PurchaseInit /\ [][AlertNext]_pvars

\* A client repeats a request that was not answered, with the same key, and an
\* await the requests with that key reach often enough resolves.  No request is
\* in flight for ever.
RetryFairness ==
    /\ \A req \in Requests :
          SF_pvars(\E r \in Debits : PurchaseStart(r, req[1], req[2], req[3]))
    /\ \A k \in DebitKeys :
          /\ SF_pvars(\E r \in Debits : purchase[r].key = k /\ PurchaseCooldown(r))
          /\ SF_pvars(\E r \in Debits : purchase[r].key = k /\ PurchaseDebit(r))
          /\ SF_pvars(\E r \in Debits : purchase[r].key = k /\ PurchaseCreate(r))
          /\ SF_pvars(\E r \in Debits : purchase[r].key = k /\ PurchaseEnqueue(r))
    /\ \A r \in Debits : WF_pvars(PurchaseFail(r))
    /\ WF_pvars(CooldownEnds)

FairPurchaseSpec == PurchaseSpec /\ RetryFairness

-----------------------------------------------------------------------------

\* Alerts are rows of UniversityAlert, the cooldown window is a suffix of
\* them, only existing alerts are queued, and a request waits in debitForAlert
\* exactly while its debit slot is in use.
PurchaseTypeOK ==
    /\ alerts \in Seq(Alert)
    /\ expired \in 0..Len(alerts)
    /\ active \subseteq Items
    /\ queued \subseteq 1..Len(alerts)
    /\ purchase \in [Debits -> [pc: {"idle", "cooldown", "debit", "create", "enqueue"},
                                user: Users \cup {None}, item: Items \cup {None},
                                key: Keys \cup {None}]]
    /\ \A r \in Debits : purchase[r].pc = "create" <=> debit[r].pc # "idle"

\* Every alert was paid by its buyer with a COMPLETED debit of the price, taken
\* before the alert exists, and no debit pays for two alerts, however requests
\* with one key race or are retried after a crash.
AlertPaid ==
    \A i \in 1..Len(alerts) :
        /\ alerts[i].entry \in 1..Len(ledger)
        /\ LET e == ledger[alerts[i].entry]
           IN  /\ e.type = "DEBIT"
               /\ e.status = "COMPLETED"
               /\ e.amount = AlertPrice
               /\ e.user = alerts[i].user
        /\ \A j \in 1..Len(alerts) : alerts[j].entry = alerts[i].entry => j = i

\* One alert per item per cooldown window, as alerts.service.ts requires.
CooldownRespected ==
    \A i, j \in expired + 1 .. Len(alerts) : alerts[i].item = alerts[j].item => i = j

\* A student who was charged gets the alert in the end by repeating the request
\* with the same key, whatever failed between the debit and the alert row.
ChargeLeadsToAlert ==
    \A req \in Requests :
        (\E i \in EntriesWithKey(req[3]) : ledger[i].type = "DEBIT")
            ~> (AlertWithKey(req[3]) # {} \/ req[2] \notin active)

\* A purchase treats the wallet as Wallet says debitForAlert's caller may.
ImplementsWallet == Spec

=============================================================================
