------------------------------- MODULE Wallet -------------------------------
(***************************************************************************)
(* The student wallet of apps/api/src/wallet: an append-only ledger of     *)
(* entries, a balance cached on the wallet row, the Razorpay webhook that  *)
(* completes a top-up, and the debit for a paid lost-item alert.           *)
(*                                                                         *)
(* Each handler is a slot with a program state; an action is what happens  *)
(* between two awaits.  A READ COMMITTED transaction that reads and then   *)
(* writes is two actions, because another transaction may commit between   *)
(* them.  A Serializable one is a single action: it commits only if what   *)
(* it read is still current, and aborts otherwise (DebitFail).             *)
(***************************************************************************)
EXTENDS Integers, Sequences, RunningTotals

CONSTANTS
    Users,       \* students; a wallet row is unique per user
    TopupKeys,   \* idempotency keys clients send with a top-up
    DebitKeys,   \* idempotency keys clients send with an alert purchase
    Orders,      \* Razorpay order ids
    Events,      \* Razorpay webhook event ids
    Amounts,     \* top-up amounts a client may ask for, in paise
    MinTopup,    \* Rs. 100, in paise
    AlertPrice,  \* Rs. 29, in paise
    Topups, Hooks, Debits, Readers,  \* slots for requests in flight
    None

Keys == TopupKeys \cup DebitKeys

ASSUME WalletAssumption ==
    /\ Amounts \subseteq Nat
    /\ MinTopup \in Nat
    /\ AlertPrice \in Nat \ {0}
    /\ None \notin Users \cup Keys \cup Orders \cup Events

VARIABLES
    wallets,  \* users that have a wallet row
    cached,   \* Wallet.cachedBalance
    ledger,   \* WalletLedgerEntry rows in order of creation; an id is an index
    order,    \* Razorpay's orders (external)
    event,    \* Razorpay's events and the row this API keeps for each
    topup,    \* POST /wallet/topup/order requests in flight
    hook,     \* POST /wallet/webhooks/razorpay deliveries in flight
    debit,    \* debitForAlert calls in flight
    reader    \* GET /wallet/balance requests in flight

rows == <<wallets, cached, ledger>>
razorpay == <<order, event>>
slots == <<topup, hook, debit, reader>>
vars == <<wallets, cached, ledger, order, event, topup, hook, debit, reader>>

-----------------------------------------------------------------------------
(* Rows and requests *)

Entry == [key: Keys, user: Users, type: {"CREDIT", "DEBIT"}, amount: Nat,
          status: {"PENDING", "COMPLETED"}, ref: Orders \cup {None}]

OrderState == {"unused", "created", "checkout", "captured"}
EventState == {"none", "emitted", "recorded", "processed"}

Order == [state: OrderState, user: Users \cup {None}, amount: Nat]
Event == [state: EventState, order: Orders \cup {None}]

Topup == [pc: {"idle", "order", "create"}, user: Users \cup {None}, key: Keys \cup {None},
          amount: Nat, order: Orders \cup {None}]
Hook == [pc: {"idle", "find", "commit", "mark"}, event: Events \cup {None}, entry: Nat]
Debit == [pc: {"idle", "charge", "charged"}, user: Users \cup {None},
          key: Keys \cup {None}, entry: Nat]
Reader == [pc: {"idle", "sum", "reconcile"}, user: Users \cup {None}, seen: Int, computed: Int]

IdleTopup == [pc |-> "idle", user |-> None, key |-> None, amount |-> 0, order |-> None]
IdleHook == [pc |-> "idle", event |-> None, entry |-> 0]
IdleDebit == [pc |-> "idle", user |-> None, key |-> None, entry |-> 0]
IdleReader == [pc |-> "idle", user |-> None, seen |-> 0, computed |-> 0]

Init ==
    /\ wallets = {}
    /\ cached = [u \in Users |-> 0]
    /\ ledger = <<>>
    /\ order = [o \in Orders |-> [state |-> "unused", user |-> None, amount |-> 0]]
    /\ event = [e \in Events |-> [state |-> "none", order |-> None]]
    /\ topup = [r \in Topups |-> IdleTopup]
    /\ hook = [h \in Hooks |-> IdleHook]
    /\ debit = [r \in Debits |-> IdleDebit]
    /\ reader = [r \in Readers |-> IdleReader]

-----------------------------------------------------------------------------
(* The balance is the sum of the COMPLETED entries, as entries.reduce does *)

Signed(e, u) ==
    IF e.user # u \/ e.status # "COMPLETED" THEN 0
    ELSE IF e.type = "CREDIT" THEN e.amount ELSE -e.amount

Effects(l, u) == [i \in 1..Len(l) |-> Signed(l[i], u)]

LedgerBalance(l, u) == Total(Effects(l, u))

EntriesWithKey(k) == {i \in 1..Len(ledger) : ledger[i].key = k}

\* Variant: a repeated key is not looked up.
Bug_ExistingEntry(u, k) == {}

\* findFirst by idempotencyKey and wallet
ExistingEntry(u, k) == {i \in EntriesWithKey(k) : ledger[i].user = u}

\* Variant: the unique constraint on idempotencyKey is not declared.
Bug_KeyFree(k) == TRUE

\* The unique constraint on idempotencyKey, over every wallet.
KeyFree(k) == EntriesWithKey(k) = {}

-----------------------------------------------------------------------------
(* POST /wallet/topup/order *)

\* Variant: any amount is accepted.
Bug_AcceptsAmount(a) == a \in Amounts

AcceptsAmount(a) == a \in Amounts /\ a >= MinTopup

\* The wallet upsert and the lookup by key.  A known key returns at once.
TopupStart(r, u, k, a) ==
    /\ topup[r].pc = "idle"
    /\ AcceptsAmount(a)
    /\ wallets' = wallets \cup {u}
    /\ ExistingEntry(u, k) = {}
    /\ topup' = [topup EXCEPT ![r] =
                    [pc |-> "order", user |-> u, key |-> k, amount |-> a, order |-> None]]
    /\ UNCHANGED <<cached, ledger, razorpay, hook, debit, reader>>

\* Variant: the order is handed to the client as soon as Razorpay created it.
Bug_TopupOrder(r) ==
    /\ topup[r].pc = "order"
    /\ \E o \in Orders :
          /\ order[o].state = "unused"
          /\ order' = [order EXCEPT ![o] =
                [state |-> "checkout", user |-> topup[r].user, amount |-> topup[r].amount]]
          /\ topup' = [topup EXCEPT ![r].pc = "create", ![r].order = o]
    /\ UNCHANGED <<rows, event, hook, debit, reader>>

\* razorpay.createOrder: Razorpay stores an order the client does not know yet.
TopupOrder(r) ==
    /\ topup[r].pc = "order"
    /\ \E o \in Orders :
          /\ order[o].state = "unused"
          /\ order' = [order EXCEPT ![o] =
                [state |-> "created", user |-> topup[r].user, amount |-> topup[r].amount]]
          /\ topup' = [topup EXCEPT ![r].pc = "create", ![r].order = o]
    /\ UNCHANGED <<rows, event, hook, debit, reader>>

NewCredit(r) ==
    [key |-> topup[r].key, user |-> topup[r].user, type |-> "CREDIT",
     amount |-> topup[r].amount, status |-> "PENDING", ref |-> topup[r].order]

\* The PENDING entry is created and the response lets the client pay the order.
TopupCreate(r) ==
    /\ topup[r].pc = "create"
    /\ KeyFree(topup[r].key)
    /\ ledger' = Append(ledger, NewCredit(r))
    /\ order' = [order EXCEPT ![topup[r].order].state = "checkout"]
    /\ topup' = [topup EXCEPT ![r] = IdleTopup]
    /\ UNCHANGED <<wallets, cached, event, hook, debit, reader>>

\* Razorpay refuses, the key is taken (P2002), or the process dies.
TopupFail(r) ==
    /\ topup[r].pc # "idle"
    /\ topup' = [topup EXCEPT ![r] = IdleTopup]
    /\ UNCHANGED <<rows, razorpay, hook, debit, reader>>

-----------------------------------------------------------------------------
(* Razorpay (external): it emits events and delivers each any number of times *)

\* The customer pays an order the checkout page was opened with.
Capture(o, e) ==
    /\ order[o].state = "checkout"
    /\ event[e].state = "none"
    /\ order' = [order EXCEPT ![o].state = "captured"]
    /\ event' = [event EXCEPT ![e] = [state |-> "emitted", order |-> o]]
    /\ UNCHANGED <<rows, slots>>

\* The same capture under a second event id, or (o = None) an event of
\* another type.
Emit(o, e) ==
    /\ o # None => order[o].state = "captured"
    /\ event[e].state = "none"
    /\ event' = [event EXCEPT ![e] = [state |-> "emitted", order |-> o]]
    /\ UNCHANGED <<rows, order, slots>>

-----------------------------------------------------------------------------
(* POST /wallet/webhooks/razorpay *)

AfterRecord(e) == IF event[e].order = None THEN "mark" ELSE "find"

\* Variant: the event is marked processed when it is recorded, before the
\* top-up it announces is completed.
Bug_HookReceive(h, e) ==
    /\ hook[h].pc = "idle"
    /\ event[e].state \in {"emitted", "recorded"}
    /\ event' = [event EXCEPT ![e].state = "processed"]
    /\ hook' = [hook EXCEPT ![h] = [pc |-> AfterRecord(e), event |-> e, entry |-> 0]]
    /\ UNCHANGED <<rows, order, topup, debit, reader>>

\* A delivery with a valid signature: the event row is looked up and, unless
\* it is processed, upserted.  Nothing else reads an unprocessed row.
HookReceive(h, e) ==
    /\ hook[h].pc = "idle"
    /\ event[e].state \in {"emitted", "recorded"}
    /\ event' = [event EXCEPT ![e].state = "recorded"]
    /\ hook' = [hook EXCEPT ![h] = [pc |-> AfterRecord(e), event |-> e, entry |-> 0]]
    /\ UNCHANGED <<rows, order, topup, debit, reader>>

\* completeTopupFromWebhook's findFirst by paymentReference and reason TOPUP
EntriesFor(o) == {i \in 1..Len(ledger) : ledger[i].type = "CREDIT" /\ ledger[i].ref = o}

\* Variant: a COMPLETED entry is not recognised as already processed.
Bug_Pending(i) == TRUE

Pending(i) == ledger[i].status = "PENDING"

\* First half of the transaction.  No entry, or a COMPLETED one, ends it.
HookFind(h) ==
    /\ hook[h].pc = "find"
    /\ LET found == EntriesFor(event[hook[h].event].order)
       IN  \/ /\ \A i \in found : ~Pending(i)
              /\ hook' = [hook EXCEPT ![h].pc = "mark"]
           \/ \E i \in found :
              /\ Pending(i)
              /\ hook' = [hook EXCEPT ![h].pc = "commit", ![h].entry = i]
    /\ UNCHANGED <<rows, razorpay, topup, debit, reader>>

\* Second half: neither update has a condition on the status.
HookCommit(h) ==
    LET i == hook[h].entry
    IN  /\ hook[h].pc = "commit"
        /\ ledger' = [ledger EXCEPT ![i].status = "COMPLETED"]
        /\ cached' = [cached EXCEPT ![ledger[i].user] = @ + ledger[i].amount]
        /\ hook' = [hook EXCEPT ![h].pc = "mark"]
        /\ UNCHANGED <<wallets, razorpay, topup, debit, reader>>

HookMark(h) ==
    /\ hook[h].pc = "mark"
    /\ event' = [event EXCEPT ![hook[h].event].state = "processed"]
    /\ hook' = [hook EXCEPT ![h] = IdleHook]
    /\ UNCHANGED <<rows, order, topup, debit, reader>>

\* The delivery fails or the process dies; an open transaction rolls back.
HookFail(h) ==
    /\ hook[h].pc # "idle"
    /\ hook' = [hook EXCEPT ![h] = IdleHook]
    /\ UNCHANGED <<rows, razorpay, topup, debit, reader>>

-----------------------------------------------------------------------------
(* debitForAlert *)

\* The wallet is read and the key looked up; an existing entry is returned.
DebitLookup(r, u, k) ==
    /\ debit[r].pc = "idle"
    /\ u \in wallets
    /\ \/ /\ ExistingEntry(u, k) = {}
          /\ debit' = [debit EXCEPT ![r] =
                          [pc |-> "charge", user |-> u, key |-> k, entry |-> 0]]
       \/ \E i \in ExistingEntry(u, k) :
             debit' = [debit EXCEPT ![r] =
                          [pc |-> "charged", user |-> u, key |-> k, entry |-> i]]
    /\ UNCHANGED <<rows, razorpay, topup, hook, reader>>

\* Variant: the cached balance is trusted instead of the ledger.
Bug_Affordable(u) == cached[u] >= AlertPrice

Affordable(u) == LedgerBalance(ledger, u) >= AlertPrice

NewDebit(r) ==
    [key |-> debit[r].key, user |-> debit[r].user, type |-> "DEBIT",
     amount |-> AlertPrice, status |-> "COMPLETED", ref |-> None]

\* The Serializable transaction commits.
DebitCharge(r) ==
    LET u == debit[r].user
    IN  /\ debit[r].pc = "charge"
        /\ Affordable(u)
        /\ KeyFree(debit[r].key)
        /\ ledger' = Append(ledger, NewDebit(r))
        /\ cached' = [cached EXCEPT ![u] = @ - AlertPrice]
        /\ debit' = [debit EXCEPT ![r].pc = "charged", ![r].entry = Len(ledger) + 1]
        /\ UNCHANGED <<wallets, razorpay, topup, hook, reader>>

\* Insufficient balance, a taken key, a serialization failure, or the process dies.
DebitFail(r) ==
    /\ debit[r].pc # "idle"
    /\ debit' = [debit EXCEPT ![r] = IdleDebit]
    /\ UNCHANGED <<rows, razorpay, topup, hook, reader>>

\* The entry goes back to the caller.
DebitReturn(r) ==
    /\ debit[r].pc = "charged"
    /\ debit' = [debit EXCEPT ![r] = IdleDebit]
    /\ UNCHANGED <<rows, razorpay, topup, hook, reader>>

-----------------------------------------------------------------------------
(* GET /wallet/balance *)

BalanceRead(r, u) ==
    /\ reader[r].pc = "idle"
    /\ u \in wallets
    /\ reader' = [reader EXCEPT ![r] =
                     [pc |-> "sum", user |-> u, seen |-> cached[u], computed |-> 0]]
    /\ UNCHANGED <<rows, razorpay, topup, hook, debit>>

\* Variant: only a cache that fell behind is reconciled.
Bug_Drifted(sum, seen) == sum > seen

Drifted(sum, seen) == sum # seen

\* The ledger is summed; only a difference from the row read before is written.
BalanceSum(r) ==
    LET sum == LedgerBalance(ledger, reader[r].user)
    IN  /\ reader[r].pc = "sum"
        /\ \/ /\ ~Drifted(sum, reader[r].seen)
              /\ reader' = [reader EXCEPT ![r] = IdleReader]
           \/ /\ Drifted(sum, reader[r].seen)
              /\ reader' = [reader EXCEPT ![r].pc = "reconcile", ![r].computed = sum]
        /\ UNCHANGED <<rows, razorpay, topup, hook, debit>>

BalanceReconcile(r) ==
    /\ reader[r].pc = "reconcile"
    /\ cached' = [cached EXCEPT ![reader[r].user] = reader[r].computed]
    /\ reader' = [reader EXCEPT ![r] = IdleReader]
    /\ UNCHANGED <<wallets, ledger, razorpay, topup, hook, debit>>

BalanceFail(r) ==
    /\ reader[r].pc # "idle"
    /\ reader' = [reader EXCEPT ![r] = IdleReader]
    /\ UNCHANGED <<rows, razorpay, topup, hook, debit>>

-----------------------------------------------------------------------------
(* The specification *)

TopupNext ==
    \E r \in Topups :
        \/ \E u \in Users, k \in TopupKeys, a \in Amounts : TopupStart(r, u, k, a)
        \/ TopupOrder(r)
        \/ TopupCreate(r)
        \/ TopupFail(r)

RazorpayNext ==
    \E e \in Events :
        \/ \E o \in Orders : Capture(o, e)
        \/ \E o \in Orders \cup {None} : Emit(o, e)

HookNext ==
    \E h \in Hooks :
        \/ \E e \in Events : HookReceive(h, e)
        \/ HookFind(h)
        \/ HookCommit(h)
        \/ HookMark(h)
        \/ HookFail(h)

\* What debitForAlert does once it is called.
DebitStep ==
    \E r \in Debits : DebitCharge(r) \/ DebitFail(r)

BalanceNext ==
    \E r \in Readers :
        \/ \E u \in Users : BalanceRead(r, u)
        \/ BalanceSum(r)
        \/ BalanceReconcile(r)
        \/ BalanceFail(r)

\* purchaseAlert is the only caller of debitForAlert; here it may call it with
\* any user and key.
DebitCaller ==
    \E r \in Debits :
        \/ \E u \in Users, k \in DebitKeys : DebitLookup(r, u, k)
        \/ DebitReturn(r)

WalletStep == TopupNext \/ RazorpayNext \/ HookNext \/ DebitStep \/ BalanceNext

Next == WalletStep \/ DebitCaller

Spec == Init /\ [][Next]_vars

\* Razorpay retries a delivery until it is acknowledged, and faults are
\* transient: a step of the handler tried again and again succeeds at last.
HookFairness ==
    /\ \A e \in Events : WF_vars(\E h \in Hooks : HookReceive(h, e))
    /\ \A h \in Hooks :
          /\ SF_vars(HookFind(h))
          /\ SF_vars(HookCommit(h))
          /\ SF_vars(HookMark(h))

\* The wallet page reads the balance again and again (its query is invalidated
\* after every payment), and a read tried often enough gets through.
ReaderFairness ==
    /\ \A u \in Users : SF_vars(\E r \in Readers : BalanceRead(r, u))
    /\ \A r \in Readers :
          /\ SF_vars(BalanceSum(r))
          /\ SF_vars(BalanceReconcile(r))

FairSpec == Spec /\ HookFairness /\ ReaderFairness

-----------------------------------------------------------------------------
(* Properties *)

\* Rows have the shape of schema.prisma's models, a credit is at least the
\* Rs. 100 minimum createTopupOrder enforces, and a slot remembers what its
\* program state needs.
TypeOK ==
    /\ wallets \subseteq Users
    /\ cached \in [Users -> Int]
    /\ ledger \in Seq(Entry)
    /\ \A i \in 1..Len(ledger) : ledger[i].type = "CREDIT" => ledger[i].amount >= MinTopup
    /\ order \in [Orders -> Order]
    /\ event \in [Events -> Event]
    /\ topup \in [Topups -> Topup]
    /\ hook \in [Hooks -> Hook]
    /\ debit \in [Debits -> Debit]
    /\ reader \in [Readers -> Reader]
    /\ \A h \in Hooks : hook[h].entry <= Len(ledger)
    /\ \A r \in Debits : debit[r].entry <= Len(ledger)

\* The wallet can never go negative under concurrent debits, whatever
\* webhooks and reconciliations run beside them (debitForAlert's promise).
LedgerNeverNegative == \A u \in Users : LedgerBalance(ledger, u) >= 0

\* Money a customer has paid is always known to the ledger: a captured order
\* has exactly one top-up entry, of the user and for the amount that was paid.
\* The entry is written before the response that lets the client pay.
PaymentHasEntry ==
    \A o \in Orders : order[o].state = "captured" =>
        \E i \in EntriesFor(o) :
            /\ EntriesFor(o) = {i}
            /\ ledger[i].user = order[o].user
            /\ ledger[i].amount = order[o].amount

\* The cache equals the ledger: what getBalance assumes of a row it does not
\* have to reconcile.
CacheTracksLedger == \A u \in Users : cached[u] = LedgerBalance(ledger, u)

\* A delivery of an event whose top-up entry is COMPLETED already changes no
\* balance: completeTopupFromWebhook calls it a safe no-op.
DuplicateDeliveryIsNoOp ==
    [][\A h \in Hooks, e \in Events :
          /\ hook[h].event = e
          /\ hook'[h] # hook[h]
          /\ \E i \in EntriesFor(event[e].order) : ledger[i].status = "COMPLETED"
          => cached' = cached]_vars

\* Every payment Razorpay captured is credited in the end, through lost and
\* failed deliveries and crashes of the handler.
PaymentIsCredited ==
    \A o \in Orders :
        order[o].state = "captured" ~>
            \E i \in EntriesFor(o) : ledger[i].status = "COMPLETED"

\* However webhooks, debits and reconciliations raced, once the wallet's traffic
\* settles the balance reads bring the cache back to the ledger for good.
CacheConverges == <>[]CacheTracksLedger

\* What the ledger amounts to, in IdealWallet's terms.
Balances == [u \in Users |-> LedgerBalance(ledger, u)]
CreditedOrders == {o \in Orders : \E i \in EntriesFor(o) : ledger[i].status = "COMPLETED"}
ChargedKeys == {k \in Keys : \E i \in EntriesWithKey(k) : ledger[i].type = "DEBIT"}

Ideal == INSTANCE IdealWallet WITH
    balance <- Balances,
    payment <- order,
    credited <- CreditedOrders,
    charged <- ChargedKeys

\* The wallet keeps what IdealWallet promises: a balance moves only when a
\* captured payment is credited, once, or an affordable alert is charged, once
\* per key.
ImplementsIdealWallet == Ideal!IdealSpec

=============================================================================
