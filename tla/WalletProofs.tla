---------------------------- MODULE WalletProofs ----------------------------
(***************************************************************************)
(* The wallet's safety, for any number of users, keys, orders, events and  *)
(* requests in flight, and what becomes of the cached balance while no two *)
(* webhooks and no reconciliation overlap.                                 *)
(***************************************************************************)
EXTENDS Wallet, RunningTotalLemmas, TLAPS

\* A top-up that has its Razorpay order is the only one that knows the order.
TopupInv ==
    \A r \in Topups :
        /\ topup[r].pc # "idle" =>
              /\ topup[r].user \in Users
              /\ topup[r].key \in Keys
              /\ topup[r].amount >= MinTopup
        /\ topup[r].pc = "create" =>
              LET o == topup[r].order
              IN  /\ o \in Orders
                  /\ order[o].state = "created"
                  /\ order[o].user = topup[r].user
                  /\ order[o].amount = topup[r].amount
                  /\ \A q \in Topups : q # r /\ topup[q].pc = "create" => topup[q].order # o

\* An order the client does not know has no entry, and one it knows has one.
OrderInv ==
    \A o \in Orders :
        /\ order[o].state \in {"unused", "created"} => EntriesFor(o) = {}
        /\ order[o].state \in {"checkout", "captured"} =>
              \E i \in EntriesFor(o) :
                  /\ EntriesFor(o) = {i}
                  /\ ledger[i].user = order[o].user
                  /\ ledger[i].amount = order[o].amount

\* A delivery carries an event of a captured order and completes its entry.
HookInv ==
    /\ \A e \in Events : event[e].order \in Orders => order[event[e].order].state = "captured"
    /\ \A h \in Hooks :
          /\ hook[h].pc # "idle" => hook[h].event \in Events
          /\ hook[h].pc = "find" => event[hook[h].event].order \in Orders
          /\ hook[h].pc = "commit" =>
                /\ hook[h].entry \in 1..Len(ledger)
                /\ ledger[hook[h].entry].type = "CREDIT"
                /\ ledger[hook[h].entry].ref \in Orders
                /\ order[ledger[hook[h].entry].ref].state = "captured"
    /\ \A e \in Events : event[e].state = "none" => event[e].order = None

CallerInv ==
    /\ \A r \in Debits : debit[r].pc # "idle" => debit[r].user \in Users /\ debit[r].key \in Keys
    /\ \A r \in Readers : reader[r].pc # "idle" => reader[r].user \in Users

WalletInv ==
    /\ TypeOK
    /\ TopupInv
    /\ OrderInv
    /\ HookInv
    /\ CallerInv
    /\ LedgerNeverNegative

-----------------------------------------------------------------------------
(* Balances *)

\* An entry's effect on a balance is a number.
LEMMA SignedType ==
    ASSUME NEW e \in Entry, NEW u
    PROVE  Signed(e, u) \in Int
BY DEF Signed, Entry

\* So are the effects of a ledger on one balance, in a sequence as long as it.
LEMMA EffectsType ==
    ASSUME NEW l \in Seq(Entry), NEW u
    PROVE  /\ Effects(l, u) \in Seq(Int)
           /\ Len(Effects(l, u)) = Len(l)
           /\ \A i \in 1..Len(l) : Effects(l, u)[i] = Signed(l[i], u)
<1>1. Len(l) \in Nat
  BY LenProperties
<1>2. \A i \in 1..Len(l) : Signed(l[i], u) \in Int
  BY SignedType, ElementOfSeq
<1>3. Effects(l, u) \in [1..Len(l) -> Int]
  BY <1>2 DEF Effects
<1>4. Effects(l, u) \in Seq(Int)
  BY <1>1, <1>3, SeqDef
<1>5. DOMAIN Effects(l, u) = 1..Len(l)
  BY DEF Effects
<1>6. Len(Effects(l, u)) = Len(l)
  BY <1>1, <1>4, <1>5, LenProperties
<1>. QED
  BY <1>4, <1>6 DEF Effects

\* A balance is a number.
LEMMA BalanceType ==
    ASSUME NEW l \in Seq(Entry), NEW u
    PROVE  LedgerBalance(l, u) \in Int
BY EffectsType, TotalType DEF LedgerBalance

\* What a new entry does to the ledger and to the balances.
LEMMA AppendEntry ==
    ASSUME NEW l \in Seq(Entry), NEW e \in Entry
    PROVE  /\ Append(l, e) \in Seq(Entry)
           /\ Len(Append(l, e)) = Len(l) + 1
           /\ Append(l, e)[Len(l) + 1] = e
           /\ \A i \in 1..Len(l) : Append(l, e)[i] = l[i]
OBVIOUS

\* A new entry moves a balance by its signed amount.
LEMMA BalanceAppend ==
    ASSUME NEW l \in Seq(Entry), NEW e \in Entry, NEW u
    PROVE  LedgerBalance(Append(l, e), u) = LedgerBalance(l, u) + Signed(e, u)
<1>. DEFINE m == Append(l, e)
<1>1. /\ m \in Seq(Entry)
      /\ Len(m) = Len(l) + 1
      /\ m[Len(l) + 1] = e
      /\ \A i \in 1..Len(l) : m[i] = l[i]
  BY AppendEntry
<1>2. Len(l) \in Nat
  BY LenProperties
<1>. HIDE DEF m
<1>3. \A i \in 1..Len(l) : Effects(m, u)[i] = Effects(l, u)[i]
  <2>1. \A i \in 1..Len(l) : i \in 1..Len(m)
    BY <1>1, <1>2
  <2>. QED
    BY <2>1, <1>1, EffectsType
<1>4. Effects(m, u)[Len(Effects(l, u)) + 1] = Signed(e, u)
  <2>1. Len(l) + 1 \in 1..Len(m)
    BY <1>1, <1>2
  <2>. QED
    BY <2>1, <1>1, EffectsType
<1>5. Len(Effects(m, u)) = Len(Effects(l, u)) + 1 /\ Len(Effects(l, u)) = Len(l)
  BY <1>1, EffectsType
<1>6. Signed(e, u) \in Int
  BY SignedType
<1>7. Total(Effects(m, u)) = Total(Effects(l, u)) + Signed(e, u)
  BY <1>1, <1>3, <1>4, <1>5, <1>6, EffectsType, TotalAppend
<1>. QED
  BY <1>7 DEF LedgerBalance, m

Completed(l, i) == [l EXCEPT ![i].status = "COMPLETED"]

\* What completing an entry does to the ledger and to the balances.
LEMMA CompletedEntry ==
    ASSUME NEW l \in Seq(Entry), NEW i \in 1..Len(l)
    PROVE  /\ Completed(l, i) \in Seq(Entry)
           /\ Len(Completed(l, i)) = Len(l)
           /\ Completed(l, i)[i] = [l[i] EXCEPT !.status = "COMPLETED"]
           /\ \A j \in 1..Len(l) : j # i => Completed(l, i)[j] = l[j]
<1>1. l[i] \in Entry
  BY ElementOfSeq
<1>2. [l[i] EXCEPT !.status = "COMPLETED"] \in Entry
  BY <1>1 DEF Entry
<1>. QED
  BY <1>2, ExceptSeq DEF Completed

\* Completing a credit adds its amount, unless it was COMPLETED before.
LEMMA BalanceComplete ==
    ASSUME NEW l \in Seq(Entry), NEW i \in 1..Len(l), l[i].type = "CREDIT", NEW u
    PROVE  LedgerBalance(Completed(l, i), u) =
              LedgerBalance(l, u) +
                (IF l[i].user = u /\ l[i].status = "PENDING" THEN l[i].amount ELSE 0)
<1>. DEFINE m == Completed(l, i)
            d == IF l[i].user = u /\ l[i].status = "PENDING" THEN l[i].amount ELSE 0
<1>1. /\ m \in Seq(Entry)
      /\ Len(m) = Len(l)
      /\ m[i] = [l[i] EXCEPT !.status = "COMPLETED"]
      /\ \A j \in 1..Len(l) : j # i => m[j] = l[j]
  BY CompletedEntry
<1>2. l[i] \in Entry
  BY ElementOfSeq
<1>. HIDE DEF m
<1>3. d \in Int
  BY <1>2 DEF Entry
<1>4. Signed(m[i], u) = Signed(l[i], u) + d
  BY <1>1, <1>2 DEF Signed, Entry
<1>. HIDE DEF d
<1>5. Total(Effects(m, u)) = Total(Effects(l, u)) + d
  BY <1>1, <1>3, <1>4, EffectsType, TotalChange
<1>. QED
  BY <1>5 DEF LedgerBalance, m, d

-----------------------------------------------------------------------------
(* Each action preserves the invariant *)

\* The conjuncts that only the ledger and the orders can disturb.
LEMMA LedgerUnchanged ==
    ASSUME WalletInv, UNCHANGED <<ledger, order>>
    PROVE  LedgerNeverNegative' /\ OrderInv'
BY DEF WalletInv, LedgerNeverNegative, OrderInv, EntriesFor

\* TopupStart keeps the invariant.
LEMMA TopupStartInv ==
    ASSUME WalletInv, NEW r \in Topups, NEW u \in Users, NEW k \in TopupKeys,
           NEW a \in Amounts, TopupStart(r, u, k, a)
    PROVE  WalletInv'
<1>. USE WalletAssumption DEF TopupStart, AcceptsAmount, Keys, razorpay
<1>1. TypeOK'
  BY DEF WalletInv, TypeOK, Topup
<1>2. TopupInv'
  BY DEF WalletInv, TypeOK, TopupInv
<1>3. HookInv' /\ CallerInv'
  BY DEF WalletInv, HookInv, CallerInv
<1>. QED
  BY <1>1, <1>2, <1>3, LedgerUnchanged DEF WalletInv

\* TopupOrder keeps the invariant.
LEMMA TopupOrderInv ==
    ASSUME WalletInv, NEW r \in Topups, TopupOrder(r)
    PROVE  WalletInv'
<1>. USE WalletAssumption
<1>1. PICK o \in Orders :
        /\ order[o].state = "unused"
        /\ order' = [order EXCEPT ![o] =
              [state |-> "created", user |-> topup[r].user, amount |-> topup[r].amount]]
        /\ topup' = [topup EXCEPT ![r].pc = "create", ![r].order = o]
  BY DEF TopupOrder
<1>2. topup[r].pc = "order" /\ UNCHANGED <<wallets, cached, ledger, event, hook, debit, reader>>
  BY DEF TopupOrder, rows
<1>3. topup[r] \in Topup
  BY DEF WalletInv, TypeOK
<1>4. TypeOK'
  <2>1. order' \in [Orders -> Order]
    BY <1>1, <1>3 DEF WalletInv, TypeOK, Order, OrderState, Topup
  <2>2. topup' \in [Topups -> Topup]
    BY <1>1, <1>3 DEF WalletInv, TypeOK, Topup
  <2>. QED
    BY <2>1, <2>2, <1>2 DEF WalletInv, TypeOK
<1>5. TopupInv'
  BY <1>1, <1>2 DEF WalletInv, TypeOK, TopupInv
<1>6. OrderInv'
  <2>1. \A p \in Orders : EntriesFor(p)' = EntriesFor(p)
    BY <1>2 DEF EntriesFor
  <2>2. order'[o].state = "created" /\ EntriesFor(o) = {}
    BY <1>1 DEF WalletInv, TypeOK, OrderInv
  <2>3. \A p \in Orders : p # o => order'[p] = order[p]
    BY <1>1 DEF WalletInv, TypeOK
  <2>. QED
    BY <2>1, <2>2, <2>3, <1>2 DEF WalletInv, OrderInv
<1>7. HookInv' /\ CallerInv'
  <2>1. \A p \in Orders : order[p].state = "captured" => order'[p].state = "captured"
    BY <1>1 DEF WalletInv, TypeOK
  <2>. QED
    BY <2>1, <1>2 DEF WalletInv, HookInv, CallerInv
<1>8. LedgerNeverNegative'
  BY <1>2 DEF WalletInv, LedgerNeverNegative
<1>. QED
  BY <1>4, <1>5, <1>6, <1>7, <1>8 DEF WalletInv

\* TopupCreate keeps the invariant.
LEMMA TopupCreateInv ==
    ASSUME WalletInv, NEW r \in Topups, TopupCreate(r)
    PROVE  WalletInv'
<1>. USE WalletAssumption
<1>1. PICK o \in Orders : o = topup[r].order
  BY DEF TopupCreate, WalletInv, TopupInv
<1>2. PICK e \in Entry : e = NewCredit(r)
  BY <1>1 DEF TopupCreate, WalletInv, TypeOK, TopupInv, NewCredit, Entry, Topup
<1>3. PICK n \in Nat : n = Len(ledger) + 1 /\ n \notin 1..Len(ledger) /\ n \in 1..n
                       /\ 1..n = 1..Len(ledger) \cup {n}
  <2>1. Len(ledger) \in Nat
    BY LenProperties DEF WalletInv, TypeOK
  <2>. QED
    BY <2>1
<1>4. /\ order[o].state = "created"
      /\ e.user = order[o].user /\ e.amount = order[o].amount /\ e.amount >= MinTopup
      /\ e.type = "CREDIT" /\ e.status = "PENDING" /\ e.ref = o
      /\ EntriesFor(o) = {}
      /\ \A q \in Topups : q # r /\ topup[q].pc = "create" => topup[q].order # o
  BY <1>1, <1>2 DEF TopupCreate, WalletInv, TopupInv, OrderInv, NewCredit
<1>5. /\ ledger' \in Seq(Entry) /\ Len(ledger') = n /\ ledger'[n] = e
      /\ \A i \in 1..Len(ledger) : ledger'[i] = ledger[i]
  BY <1>2, <1>3, AppendEntry DEF TopupCreate, WalletInv, TypeOK
<1>6. /\ order' = [order EXCEPT ![o].state = "checkout"]
      /\ topup' = [topup EXCEPT ![r] = IdleTopup]
      /\ UNCHANGED <<wallets, cached, event, hook, debit, reader>>
  BY <1>1 DEF TopupCreate
<1>7. /\ order'[o].state = "checkout" /\ order'[o].user = order[o].user
      /\ order'[o].amount = order[o].amount
      /\ \A p \in Orders : p # o => order'[p] = order[p]
  BY <1>6 DEF WalletInv, TypeOK, Order
<1>8. TypeOK'
  <2>1. order' \in [Orders -> Order]
    BY <1>6 DEF WalletInv, TypeOK, Order, OrderState
  <2>2. topup' \in [Topups -> Topup]
    BY <1>6 DEF WalletInv, TypeOK, Topup, IdleTopup
  <2>3. \A i \in 1..Len(ledger') : ledger'[i].type = "CREDIT" => ledger'[i].amount >= MinTopup
    BY <1>3, <1>4, <1>5 DEF WalletInv, TypeOK
  <2>4. /\ \A h \in Hooks : hook'[h].entry <= Len(ledger')
        /\ \A q \in Debits : debit'[q].entry <= Len(ledger')
    <3>1. \A x \in Nat : x <= Len(ledger) => x <= n
      BY <1>3, LenProperties DEF WalletInv, TypeOK
    <3>. QED
      BY <3>1, <1>5, <1>6 DEF WalletInv, TypeOK, Hook, Debit
  <2>. QED
    BY <2>1, <2>2, <2>3, <2>4, <1>5, <1>6 DEF WalletInv, TypeOK
<1>9. TopupInv'
  BY <1>1, <1>4, <1>6, <1>7 DEF WalletInv, TypeOK, TopupInv, IdleTopup
<1>10. OrderInv'
  <2>1. \A p \in Orders : p # o => EntriesFor(p)' = EntriesFor(p)
    BY <1>3, <1>4, <1>5 DEF EntriesFor
  <2>2. EntriesFor(o)' = {n}
    BY <1>3, <1>4, <1>5 DEF EntriesFor
  <2>3. \A p \in Orders : \A i \in EntriesFor(p) : ledger'[i] = ledger[i]
    BY <1>5 DEF EntriesFor
  <2>4. ASSUME NEW p \in Orders, p # o, order[p].state \in {"checkout", "captured"}
        PROVE  \E i \in EntriesFor(p)' :
                 /\ EntriesFor(p)' = {i}
                 /\ ledger'[i].user = order'[p].user
                 /\ ledger'[i].amount = order'[p].amount
    BY <2>1, <2>3, <2>4, <1>7 DEF WalletInv, OrderInv
  <2>5. ASSUME NEW p \in Orders, p # o, order[p].state \in {"unused", "created"}
        PROVE  EntriesFor(p)' = {}
    BY <2>1, <2>5 DEF WalletInv, OrderInv
  <2>6. \E i \in EntriesFor(o)' :
            /\ EntriesFor(o)' = {i}
            /\ ledger'[i].user = order'[o].user
            /\ ledger'[i].amount = order'[o].amount
    BY <2>2, <1>4, <1>5, <1>7
  <2>. QED
    BY <2>4, <2>5, <2>6, <1>7 DEF OrderInv
<1>11. HookInv' /\ CallerInv'
  <2>1. \A p \in Orders : order[p].state = "captured" => order'[p].state = "captured"
    BY <1>4, <1>7
  <2>2. \A i \in 1..Len(ledger) : i \in 1..Len(ledger') /\ ledger'[i] = ledger[i]
    BY <1>3, <1>5
  <2>3. /\ \A x \in Events : event'[x].order \in Orders => order'[event'[x].order].state = "captured"
        /\ \A x \in Events : event'[x].state = "none" => event'[x].order = None
    BY <2>1, <1>6 DEF WalletInv, HookInv
  <2>4. ASSUME NEW h \in Hooks, hook[h].pc = "commit"
        PROVE  /\ hook[h].entry \in 1..Len(ledger')
               /\ ledger'[hook[h].entry].type = "CREDIT"
               /\ ledger'[hook[h].entry].ref \in Orders
               /\ order'[ledger'[hook[h].entry].ref].state = "captured"
    BY <2>1, <2>2, <2>4 DEF WalletInv, HookInv
  <2>. QED
    BY <2>3, <2>4, <1>6 DEF WalletInv, HookInv, CallerInv
<1>12. LedgerNeverNegative'
  <2>1. \A u \in Users : Signed(e, u) = 0
    BY <1>4 DEF Signed
  <2>2. \A u \in Users : LedgerBalance(ledger', u) = LedgerBalance(ledger, u) + 0
    BY <2>1, <1>2, BalanceAppend DEF TopupCreate, WalletInv, TypeOK
  <2>. QED
    BY <2>2, BalanceType DEF WalletInv, TypeOK, LedgerNeverNegative
<1>. QED
  BY <1>8, <1>9, <1>10, <1>11, <1>12 DEF WalletInv

\* TopupFail keeps the invariant.
LEMMA TopupFailInv ==
    ASSUME WalletInv, NEW r \in Topups, TopupFail(r)
    PROVE  WalletInv'
<1>. USE WalletAssumption DEF TopupFail, rows, razorpay, IdleTopup
<1>1. TypeOK'
  BY DEF WalletInv, TypeOK, Topup
<1>2. TopupInv'
  BY DEF WalletInv, TypeOK, TopupInv
<1>3. HookInv' /\ CallerInv'
  BY DEF WalletInv, HookInv, CallerInv
<1>. QED
  BY <1>1, <1>2, <1>3, LedgerUnchanged DEF WalletInv

\* Capture keeps the invariant.
LEMMA CaptureInv ==
    ASSUME WalletInv, NEW o \in Orders, NEW x \in Events, Capture(o, x)
    PROVE  WalletInv'
<1>. USE WalletAssumption
<1>1. /\ order[o].state = "checkout" /\ event[x].state = "none"
      /\ order' = [order EXCEPT ![o].state = "captured"]
      /\ event' = [event EXCEPT ![x] = [state |-> "emitted", order |-> o]]
      /\ UNCHANGED <<wallets, cached, ledger, topup, hook, debit, reader>>
  BY DEF Capture, rows, slots
<1>2. /\ order'[o].state = "captured" /\ order'[o].user = order[o].user
      /\ order'[o].amount = order[o].amount
      /\ \A p \in Orders : p # o => order'[p] = order[p]
  BY <1>1 DEF WalletInv, TypeOK, Order
<1>3. TypeOK'
  <2>1. order' \in [Orders -> Order] /\ event' \in [Events -> Event]
    BY <1>1 DEF WalletInv, TypeOK, Order, OrderState, Event, EventState
  <2>. QED
    BY <2>1, <1>1 DEF WalletInv, TypeOK
<1>4. TopupInv'
  BY <1>1, <1>2 DEF WalletInv, TopupInv
<1>5. OrderInv'
  <2>1. \A p \in Orders : EntriesFor(p)' = EntriesFor(p)
    BY <1>1 DEF EntriesFor
  <2>. QED
    BY <2>1, <1>1, <1>2 DEF WalletInv, OrderInv
<1>6. HookInv' /\ CallerInv'
  <2>1. \A p \in Orders : order[p].state = "captured" => order'[p].state = "captured"
    BY <1>2
  <2>2. \A y \in Events : y # x => event'[y] = event[y]
    BY <1>1 DEF WalletInv, TypeOK
  <2>3. event'[x].order = o /\ event'[x].state = "emitted"
    BY <1>1 DEF WalletInv, TypeOK
  <2>4. event[x].order \notin Orders
    BY <1>1 DEF WalletInv, HookInv
  <2>. QED
    BY <2>1, <2>2, <2>3, <2>4, <1>1, <1>2 DEF WalletInv, HookInv, CallerInv
<1>7. LedgerNeverNegative'
  BY <1>1 DEF WalletInv, LedgerNeverNegative
<1>. QED
  BY <1>3, <1>4, <1>5, <1>6, <1>7 DEF WalletInv

\* Emit keeps the invariant.
LEMMA EmitInv ==
    ASSUME WalletInv, NEW o \in Orders \cup {None}, NEW x \in Events, Emit(o, x)
    PROVE  WalletInv'
<1>. USE WalletAssumption
<1>1. /\ o # None => order[o].state = "captured"
      /\ event[x].state = "none"
      /\ event' = [event EXCEPT ![x] = [state |-> "emitted", order |-> o]]
      /\ UNCHANGED <<wallets, cached, ledger, order, topup, hook, debit, reader>>
  BY DEF Emit, rows, slots
<1>2. TypeOK'
  BY <1>1 DEF WalletInv, TypeOK, Event, EventState
<1>3. TopupInv' /\ CallerInv'
  BY <1>1 DEF WalletInv, TopupInv, CallerInv
<1>4. HookInv'
  <2>1. \A y \in Events : y # x => event'[y] = event[y]
    BY <1>1 DEF WalletInv, TypeOK
  <2>2. event'[x].order = o /\ event'[x].state = "emitted"
    BY <1>1 DEF WalletInv, TypeOK
  <2>3. event[x].order \notin Orders
    BY <1>1 DEF WalletInv, HookInv
  <2>. QED
    BY <2>1, <2>2, <2>3, <1>1 DEF WalletInv, HookInv
<1>. QED
  BY <1>1, <1>2, <1>3, <1>4, LedgerUnchanged DEF WalletInv

\* HookReceive keeps the invariant.
LEMMA HookReceiveInv ==
    ASSUME WalletInv, NEW h \in Hooks, NEW x \in Events, HookReceive(h, x)
    PROVE  WalletInv'
<1>. USE WalletAssumption
<1>1. /\ event[x].state \in {"emitted", "recorded"}
      /\ event' = [event EXCEPT ![x].state = "recorded"]
      /\ hook' = [hook EXCEPT ![h] = [pc |-> AfterRecord(x), event |-> x, entry |-> 0]]
      /\ UNCHANGED <<wallets, cached, ledger, order, topup, debit, reader>>
  BY DEF HookReceive, rows
<1>2. event' \in [Events -> Event]
      /\ \A y \in Events : event'[y].order = event[y].order
                           /\ (event'[y].state = "none" => event[y].state = "none")
  BY <1>1 DEF WalletInv, TypeOK, Event, EventState
<1>3. hook' \in [Hooks -> Hook]
  BY <1>1 DEF WalletInv, TypeOK, Hook, AfterRecord
<1>4. TypeOK'
  <2>1. \A g \in Hooks : hook'[g].entry <= Len(ledger)
    BY <1>1, LenProperties DEF WalletInv, TypeOK
  <2>. QED
    BY <2>1, <1>1, <1>2, <1>3 DEF WalletInv, TypeOK
<1>5. TopupInv' /\ CallerInv'
  BY <1>1 DEF WalletInv, TopupInv, CallerInv
<1>6. HookInv'
  <2>1. \A g \in Hooks : g # h => hook'[g] = hook[g]
    BY <1>1 DEF WalletInv, TypeOK
  <2>2. /\ hook'[h].event = x /\ hook'[h].pc \in {"mark", "find"}
        /\ hook'[h].pc = "find" => event[x].order \in Orders
    BY <1>1 DEF AfterRecord, WalletInv, TypeOK, Event
  <2>3. \A y \in Events : event'[y].order \in Orders => order'[event'[y].order].state = "captured"
    BY <1>1, <1>2 DEF WalletInv, HookInv
  <2>4. \A g \in Hooks :
          /\ hook'[g].pc # "idle" => hook'[g].event \in Events
          /\ hook'[g].pc = "find" => event'[hook'[g].event].order \in Orders
          /\ hook'[g].pc = "commit" => hook'[g] = hook[g]
    BY <2>1, <2>2, <1>2 DEF WalletInv, HookInv
  <2>5. \A y \in Events : event'[y].state = "none" => event'[y].order = None
    BY <1>2 DEF WalletInv, HookInv
  <2>. QED
    BY <2>3, <2>4, <2>5, <1>1 DEF WalletInv, HookInv
<1>. QED
  BY <1>1, <1>4, <1>5, <1>6, LedgerUnchanged DEF WalletInv

\* HookFind keeps the invariant.
LEMMA HookFindInv ==
    ASSUME WalletInv, NEW h \in Hooks, HookFind(h)
    PROVE  WalletInv'
<1>. USE WalletAssumption
<1>1. /\ hook[h].pc = "find"
      /\ UNCHANGED <<wallets, cached, ledger, order, event, topup, debit, reader>>
  BY DEF HookFind, rows, razorpay
<1>2. PICK o \in Orders : o = event[hook[h].event].order /\ order[o].state = "captured"
  BY <1>1 DEF WalletInv, HookInv
<1>3. TopupInv' /\ CallerInv'
  BY <1>1 DEF WalletInv, TopupInv, CallerInv
<1>4. CASE hook' = [hook EXCEPT ![h].pc = "mark"]
  <2>1. TypeOK'
    BY <1>1, <1>4 DEF WalletInv, TypeOK, Hook
  <2>2. HookInv'
    BY <1>1, <1>4 DEF WalletInv, TypeOK, HookInv
  <2>. QED
    BY <2>1, <2>2, <1>1, <1>3, LedgerUnchanged DEF WalletInv
<1>5. CASE \E i \in EntriesFor(o) : hook' = [hook EXCEPT ![h].pc = "commit", ![h].entry = i]
  <2>1. PICK i \in EntriesFor(o) : hook' = [hook EXCEPT ![h].pc = "commit", ![h].entry = i]
    BY <1>5
  <2>2. i \in Nat /\ i \in 1..Len(ledger) /\ i <= Len(ledger)
        /\ ledger[i].type = "CREDIT" /\ ledger[i].ref = o
    BY LenProperties DEF EntriesFor, WalletInv, TypeOK
  <2>3. TypeOK'
    <3>1. hook' \in [Hooks -> Hook]
      BY <2>1, <2>2 DEF WalletInv, TypeOK, Hook
    <3>2. \A g \in Hooks : hook'[g].entry <= Len(ledger)
      BY <2>1, <2>2 DEF WalletInv, TypeOK, Hook
    <3>. QED
      BY <3>1, <3>2, <1>1 DEF WalletInv, TypeOK
  <2>4. HookInv'
    <3>1. \A g \in Hooks : g # h => hook'[g] = hook[g]
      BY <2>1 DEF WalletInv, TypeOK
    <3>2. hook'[h].pc = "commit" /\ hook'[h].entry = i /\ hook'[h].event = hook[h].event
      BY <2>1 DEF WalletInv, TypeOK, Hook
    <3>3. hook[h].event \in Events
      BY <1>1 DEF WalletInv, HookInv
    <3>. QED
      BY <3>1, <3>2, <3>3, <2>2, <1>1, <1>2 DEF WalletInv, HookInv
  <2>. QED
    BY <2>3, <2>4, <1>1, <1>3, LedgerUnchanged DEF WalletInv
<1>. QED
  BY <1>2, <1>4, <1>5 DEF HookFind

\* HookCommit keeps the invariant.
LEMMA HookCommitInv ==
    ASSUME WalletInv, NEW h \in Hooks, HookCommit(h)
    PROVE  WalletInv'
<1>. USE WalletAssumption
<1>1. PICK i \in 1..Len(ledger) :
        /\ i = hook[h].entry /\ hook[h].pc = "commit"
        /\ ledger[i].type = "CREDIT" /\ ledger[i].ref \in Orders
  BY DEF HookCommit, WalletInv, HookInv
<1>2. /\ ledger' = Completed(ledger, i)
      /\ cached' = [cached EXCEPT ![ledger[i].user] = @ + ledger[i].amount]
      /\ hook' = [hook EXCEPT ![h].pc = "mark"]
      /\ UNCHANGED <<wallets, order, event, topup, debit, reader>>
  BY <1>1 DEF HookCommit, razorpay, Completed
<1>3. ledger[i] \in Entry
  BY ElementOfSeq DEF WalletInv, TypeOK
<1>4. /\ ledger' \in Seq(Entry) /\ Len(ledger') = Len(ledger)
      /\ ledger'[i] = [ledger[i] EXCEPT !.status = "COMPLETED"]
      /\ \A j \in 1..Len(ledger) : j # i => ledger'[j] = ledger[j]
  BY <1>2, CompletedEntry DEF WalletInv, TypeOK
<1>5. \A j \in 1..Len(ledger) :
        /\ ledger'[j].type = ledger[j].type /\ ledger'[j].ref = ledger[j].ref
        /\ ledger'[j].user = ledger[j].user /\ ledger'[j].amount = ledger[j].amount
  <2>1. /\ ledger'[i].type = ledger[i].type /\ ledger'[i].ref = ledger[i].ref
        /\ ledger'[i].user = ledger[i].user /\ ledger'[i].amount = ledger[i].amount
    BY <1>3, <1>4 DEF Entry
  <2>. QED
    BY <2>1, <1>4
<1>6. TypeOK'
  <2>1. cached' \in [Users -> Int]
    BY <1>2, <1>3 DEF WalletInv, TypeOK, Entry
  <2>2. hook' \in [Hooks -> Hook] /\ \A g \in Hooks : hook'[g].entry = hook[g].entry
    BY <1>2 DEF WalletInv, TypeOK, Hook
  <2>. QED
    BY <2>1, <2>2, <1>2, <1>4, <1>5 DEF WalletInv, TypeOK
<1>7. TopupInv' /\ CallerInv'
  BY <1>2 DEF WalletInv, TopupInv, CallerInv
<1>8. OrderInv'
  <2>1. \A p \in Orders : EntriesFor(p)' = EntriesFor(p)
    BY <1>4, <1>5 DEF EntriesFor
  <2>2. \A p \in Orders : \A j \in EntriesFor(p) :
           ledger'[j].user = ledger[j].user /\ ledger'[j].amount = ledger[j].amount
    BY <1>5 DEF EntriesFor
  <2>. QED
    BY <2>1, <2>2, <1>2 DEF WalletInv, OrderInv
<1>9. HookInv'
  <2>1. \A g \in Hooks : g # h => hook'[g] = hook[g]
    BY <1>2 DEF WalletInv, TypeOK
  <2>2. hook'[h].pc = "mark" /\ hook'[h].event = hook[h].event
    BY <1>2 DEF WalletInv, TypeOK, Hook
  <2>3. hook[h].event \in Events
    BY <1>1 DEF WalletInv, HookInv
  <2>. QED
    BY <2>1, <2>2, <2>3, <1>2, <1>4, <1>5 DEF WalletInv, HookInv
<1>10. LedgerNeverNegative'
  <2>1. ASSUME NEW u \in Users
        PROVE  LedgerBalance(ledger', u) >= 0
    <3>. DEFINE d == IF ledger[i].user = u /\ ledger[i].status = "PENDING"
                     THEN ledger[i].amount ELSE 0
    <3>1. d \in Nat
      BY <1>3 DEF Entry
    <3>2. LedgerBalance(ledger', u) = LedgerBalance(ledger, u) + d
      BY <1>1, <1>2, BalanceComplete DEF WalletInv, TypeOK
    <3>3. LedgerBalance(ledger, u) \in Int /\ LedgerBalance(ledger, u) >= 0
      BY BalanceType DEF WalletInv, TypeOK, LedgerNeverNegative
    <3>. HIDE DEF d
    <3>. QED
      BY <3>1, <3>2, <3>3
  <2>. QED
    BY <2>1 DEF LedgerNeverNegative
<1>. QED
  BY <1>6, <1>7, <1>8, <1>9, <1>10 DEF WalletInv

\* HookMark keeps the invariant.
LEMMA HookMarkInv ==
    ASSUME WalletInv, NEW h \in Hooks, HookMark(h)
    PROVE  WalletInv'
<1>. USE WalletAssumption
<1>1. PICK x \in Events : x = hook[h].event
  BY DEF HookMark, WalletInv, HookInv
<1>2. /\ event' = [event EXCEPT ![x].state = "processed"]
      /\ hook' = [hook EXCEPT ![h] = IdleHook]
      /\ UNCHANGED <<wallets, cached, ledger, order, topup, debit, reader>>
  BY <1>1 DEF HookMark, rows
<1>3. event' \in [Events -> Event]
      /\ \A y \in Events : event'[y].order = event[y].order
                           /\ (event'[y].state = "none" => event[y].state = "none")
  BY <1>2 DEF WalletInv, TypeOK, Event, EventState
<1>4. TypeOK'
  <2>1. hook' \in [Hooks -> Hook]
    BY <1>2 DEF WalletInv, TypeOK, Hook, IdleHook
  <2>2. \A g \in Hooks : hook'[g].entry <= Len(ledger)
    BY <1>2, LenProperties DEF WalletInv, TypeOK, IdleHook
  <2>. QED
    BY <2>1, <2>2, <1>2, <1>3 DEF WalletInv, TypeOK
<1>5. TopupInv' /\ CallerInv'
  BY <1>2 DEF WalletInv, TopupInv, CallerInv
<1>6. HookInv'
  <2>1. hook'[h].pc = "idle" /\ \A g \in Hooks : g # h => hook'[g] = hook[g]
    BY <1>2 DEF WalletInv, TypeOK, IdleHook
  <2>. QED
    BY <2>1, <1>2, <1>3 DEF WalletInv, HookInv
<1>. QED
  BY <1>2, <1>4, <1>5, <1>6, LedgerUnchanged DEF WalletInv

\* HookFail keeps the invariant.
LEMMA HookFailInv ==
    ASSUME WalletInv, NEW h \in Hooks, HookFail(h)
    PROVE  WalletInv'
<1>. USE WalletAssumption DEF HookFail, rows, razorpay, IdleHook
<1>1. TypeOK'
  <2>1. hook' \in [Hooks -> Hook]
    BY DEF WalletInv, TypeOK, Hook
  <2>2. \A g \in Hooks : hook'[g].entry <= Len(ledger)
    BY LenProperties DEF WalletInv, TypeOK
  <2>. QED
    BY <2>1, <2>2 DEF WalletInv, TypeOK
<1>2. TopupInv' /\ CallerInv'
  BY DEF WalletInv, TopupInv, CallerInv
<1>3. HookInv'
  BY DEF WalletInv, TypeOK, HookInv
<1>. QED
  BY <1>1, <1>2, <1>3, LedgerUnchanged DEF WalletInv

\* A debit slot that changes alone: DebitLookup, DebitFail and DebitReturn.
LEMMA DebitSlotInv ==
    ASSUME WalletInv, NEW r \in Debits, NEW d \in Debit,
           debit' = [debit EXCEPT ![r] = d], d.entry <= Len(ledger),
           d.pc # "idle" => d.user \in Users /\ d.key \in Keys,
           UNCHANGED <<wallets, cached, ledger, order, event, topup, hook, reader>>
    PROVE  WalletInv'
<1>1. TypeOK'
  BY DEF WalletInv, TypeOK, Debit
<1>2. TopupInv' /\ HookInv'
  BY DEF WalletInv, TopupInv, HookInv
<1>3. CallerInv'
  BY DEF WalletInv, TypeOK, CallerInv
<1>. QED
  BY <1>1, <1>2, <1>3, LedgerUnchanged DEF WalletInv

\* DebitLookup keeps the invariant.
LEMMA DebitLookupInv ==
    ASSUME WalletInv, NEW r \in Debits, NEW u \in Users, NEW k \in DebitKeys,
           DebitLookup(r, u, k)
    PROVE  WalletInv'
<1>. DEFINE d(i) == [pc |-> IF i = 0 THEN "charge" ELSE "charged",
                     user |-> u, key |-> k, entry |-> i]
<1>1. Len(ledger) \in Nat
  BY LenProperties DEF WalletInv, TypeOK
<1>2. UNCHANGED <<wallets, cached, ledger, order, event, topup, hook, reader>>
  BY DEF DebitLookup, rows, razorpay
<1>3. PICK i \in 0..Len(ledger) : debit' = [debit EXCEPT ![r] = d(i)]
  BY <1>1 DEF DebitLookup, ExistingEntry, EntriesWithKey
<1>4. d(i) \in Debit /\ d(i).entry <= Len(ledger) /\ d(i).user \in Users /\ d(i).key \in Keys
  BY <1>1 DEF Debit, Keys
<1>. HIDE DEF d
<1>. QED
  BY <1>2, <1>3, <1>4, DebitSlotInv

\* DebitEnd keeps the invariant.
LEMMA DebitEndInv ==
    ASSUME WalletInv, NEW r \in Debits, DebitFail(r) \/ DebitReturn(r)
    PROVE  WalletInv'
<1>1. /\ debit' = [debit EXCEPT ![r] = IdleDebit]
      /\ UNCHANGED <<wallets, cached, ledger, order, event, topup, hook, reader>>
  BY DEF DebitFail, DebitReturn, rows, razorpay
<1>2. Len(ledger) \in Nat
  BY LenProperties DEF WalletInv, TypeOK
<1>3. IdleDebit \in Debit /\ IdleDebit.entry <= Len(ledger) /\ IdleDebit.pc = "idle"
  BY <1>2 DEF IdleDebit, Debit
<1>. QED
  BY <1>1, <1>3, DebitSlotInv

\* DebitCharge keeps the invariant.
LEMMA DebitChargeInv ==
    ASSUME WalletInv, NEW r \in Debits, DebitCharge(r)
    PROVE  WalletInv'
<1>. USE WalletAssumption
<1>1. PICK u \in Users, k \in Keys : u = debit[r].user /\ k = debit[r].key
  BY DEF DebitCharge, WalletInv, CallerInv
<1>2. PICK e \in Entry : e = NewDebit(r)
  BY <1>1 DEF NewDebit, Entry
<1>3. /\ e.user = u /\ e.type = "DEBIT" /\ e.amount = AlertPrice /\ e.status = "COMPLETED"
      /\ LedgerBalance(ledger, u) >= AlertPrice
  BY <1>1, <1>2 DEF DebitCharge, NewDebit, Affordable
<1>4. PICK n \in Nat : n = Len(ledger) + 1 /\ n \notin 1..Len(ledger) /\ n \in 1..n
                       /\ 1..n = 1..Len(ledger) \cup {n}
  <2>1. Len(ledger) \in Nat
    BY LenProperties DEF WalletInv, TypeOK
  <2>. QED
    BY <2>1
<1>5. /\ ledger' \in Seq(Entry) /\ Len(ledger') = n /\ ledger'[n] = e
      /\ \A i \in 1..Len(ledger) : ledger'[i] = ledger[i]
  BY <1>2, <1>4, AppendEntry DEF DebitCharge, WalletInv, TypeOK
<1>6. /\ cached' = [cached EXCEPT ![u] = @ - AlertPrice]
      /\ debit' = [debit EXCEPT ![r].pc = "charged", ![r].entry = n]
      /\ UNCHANGED <<wallets, order, event, topup, hook, reader>>
  BY <1>1, <1>4 DEF DebitCharge, razorpay
<1>7. TypeOK'
  <2>1. cached' \in [Users -> Int]
    BY <1>6 DEF WalletInv, TypeOK
  <2>2. debit' \in [Debits -> Debit]
    BY <1>6 DEF WalletInv, TypeOK, Debit
  <2>3. \A i \in 1..Len(ledger') : ledger'[i].type = "CREDIT" => ledger'[i].amount >= MinTopup
    BY <1>3, <1>4, <1>5 DEF WalletInv, TypeOK
  <2>4. \A x \in Nat : x <= Len(ledger) => x <= n
    BY <1>4, LenProperties DEF WalletInv, TypeOK
  <2>5. \A h \in Hooks : hook'[h].entry <= Len(ledger')
    BY <2>4, <1>5, <1>6 DEF WalletInv, TypeOK, Hook
  <2>6. \A q \in Debits : debit'[q].entry <= Len(ledger')
    <3>1. debit'[r].entry = n /\ \A q \in Debits : q # r => debit'[q] = debit[q]
      BY <1>6 DEF WalletInv, TypeOK, Debit
    <3>. QED
      BY <3>1, <2>4, <1>4, <1>5 DEF WalletInv, TypeOK, Debit
  <2>. QED
    BY <2>1, <2>2, <2>3, <2>5, <2>6, <1>5, <1>6 DEF WalletInv, TypeOK
<1>8. TopupInv'
  BY <1>6 DEF WalletInv, TopupInv
<1>9. OrderInv'
  <2>1. \A p \in Orders : EntriesFor(p)' = EntriesFor(p)
    BY <1>3, <1>4, <1>5 DEF EntriesFor
  <2>2. \A p \in Orders : \A i \in EntriesFor(p) : ledger'[i] = ledger[i]
    BY <1>5 DEF EntriesFor
  <2>. QED
    BY <2>1, <2>2, <1>6 DEF WalletInv, OrderInv
<1>10. HookInv'
  <2>1. \A i \in 1..Len(ledger) : i \in 1..Len(ledger') /\ ledger'[i] = ledger[i]
    BY <1>4, <1>5
  <2>. QED
    BY <2>1, <1>6 DEF WalletInv, HookInv
<1>11. CallerInv'
  <2>1. debit'[r].user = u /\ debit'[r].key = k /\ \A q \in Debits : q # r => debit'[q] = debit[q]
    BY <1>1, <1>6 DEF WalletInv, TypeOK, Debit
  <2>. QED
    BY <2>1, <1>6 DEF WalletInv, CallerInv
<1>12. LedgerNeverNegative'
  <2>1. ASSUME NEW w \in Users
        PROVE  LedgerBalance(ledger', w) >= 0
    <3>1. LedgerBalance(ledger', w) = LedgerBalance(ledger, w) + Signed(e, w)
      BY <1>2, BalanceAppend DEF DebitCharge, WalletInv, TypeOK
    <3>2. LedgerBalance(ledger, w) \in Int /\ LedgerBalance(ledger, w) >= 0
      BY BalanceType DEF WalletInv, TypeOK, LedgerNeverNegative
    <3>3. CASE w = u
      <4>1. Signed(e, w) = -AlertPrice
        BY <3>3, <1>3 DEF Signed
      <4>. QED
        BY <4>1, <3>1, <3>2, <3>3, <1>3
    <3>4. CASE w # u
      <4>1. Signed(e, w) = 0
        BY <3>4, <1>3 DEF Signed
      <4>. QED
        BY <4>1, <3>1, <3>2
    <3>. QED
      BY <3>3, <3>4
  <2>. QED
    BY <2>1 DEF LedgerNeverNegative
<1>. QED
  BY <1>7, <1>8, <1>9, <1>10, <1>11, <1>12 DEF WalletInv

\* The balance endpoint writes nothing but the cache and its own slot.
LEMMA BalanceInv ==
    ASSUME WalletInv, BalanceNext
    PROVE  WalletInv'
<1>. USE WalletAssumption
<1>1. UNCHANGED <<wallets, ledger, order, event, topup, hook, debit>>
  BY DEF BalanceNext, BalanceRead, BalanceSum, BalanceReconcile, BalanceFail, rows, razorpay
<1>2. PICK r \in Readers :
        (\E u \in Users : BalanceRead(r, u)) \/ BalanceSum(r) \/ BalanceReconcile(r) \/ BalanceFail(r)
  BY DEF BalanceNext
<1>3. cached' \in [Users -> Int] /\ reader' \in [Readers -> Reader] /\ CallerInv'
  <2>1. ASSUME NEW u \in Users, BalanceRead(r, u)
        PROVE  cached' \in [Users -> Int] /\ reader' \in [Readers -> Reader] /\ CallerInv'
    BY <2>1 DEF BalanceRead, rows, WalletInv, TypeOK, Reader, CallerInv
  <2>2. CASE BalanceSum(r)
    <3>1. LedgerBalance(ledger, reader[r].user) \in Int
      BY BalanceType DEF WalletInv, TypeOK
    <3>2. CASE reader' = [reader EXCEPT ![r] = IdleReader]
      BY <2>2, <3>2 DEF BalanceSum, rows, WalletInv, TypeOK, Reader, CallerInv, IdleReader
    <3>3. CASE reader' = [reader EXCEPT ![r].pc = "reconcile",
                                        ![r].computed = LedgerBalance(ledger, reader[r].user)]
      <4>1. reader[r].pc = "sum"
        BY <2>2 DEF BalanceSum
      <4>. QED
        BY <2>2, <3>1, <3>3, <4>1 DEF BalanceSum, rows, WalletInv, TypeOK, Reader, CallerInv
    <3>. QED
      BY <2>2, <3>2, <3>3 DEF BalanceSum
  <2>3. CASE BalanceReconcile(r)
    BY <2>3 DEF BalanceReconcile, WalletInv, TypeOK, Reader, CallerInv, IdleReader
  <2>4. CASE BalanceFail(r)
    BY <2>4 DEF BalanceFail, rows, WalletInv, TypeOK, Reader, CallerInv, IdleReader
  <2>. QED
    BY <1>2, <2>1, <2>2, <2>3, <2>4
<1>4. TypeOK'
  BY <1>1, <1>3 DEF WalletInv, TypeOK
<1>5. TopupInv' /\ HookInv'
  BY <1>1 DEF WalletInv, TopupInv, HookInv
<1>. QED
  BY <1>1, <1>3, <1>4, <1>5, LedgerUnchanged DEF WalletInv

-----------------------------------------------------------------------------
(* The theorems *)

\* The initial states have the invariant.
LEMMA WalletInit == Init => WalletInv
<1>. SUFFICES ASSUME Init PROVE WalletInv
  OBVIOUS
<1>. USE WalletAssumption
<1>1. ledger \in Seq(Entry) /\ Len(ledger) = 0 /\ 1..Len(ledger) = {}
  BY DEF Init
<1>2. TypeOK
  <2>1. order \in [Orders -> Order] /\ event \in [Events -> Event]
    BY DEF Init, Order, OrderState, Event, EventState
  <2>2. topup \in [Topups -> Topup] /\ hook \in [Hooks -> Hook]
    BY DEF Init, Topup, Hook, IdleTopup, IdleHook
  <2>3. debit \in [Debits -> Debit] /\ reader \in [Readers -> Reader]
    BY DEF Init, Debit, Reader, IdleDebit, IdleReader
  <2>4. /\ \A h \in Hooks : hook[h].entry <= Len(ledger)
        /\ \A r \in Debits : debit[r].entry <= Len(ledger)
    BY <1>1 DEF Init, IdleHook, IdleDebit
  <2>. QED
    BY <2>1, <2>2, <2>3, <2>4, <1>1 DEF Init, TypeOK
<1>3. TopupInv /\ CallerInv
  BY DEF Init, TopupInv, CallerInv, IdleTopup, IdleDebit, IdleReader
<1>4. OrderInv
  BY <1>1 DEF Init, OrderInv, EntriesFor
<1>5. HookInv
  BY DEF Init, HookInv, IdleHook
<1>6. LedgerNeverNegative
  <2>1. ASSUME NEW u \in Users
        PROVE  LedgerBalance(ledger, u) = 0
    <3>1. Effects(ledger, u) \in Seq(Int) /\ Len(Effects(ledger, u)) = 0
      BY <1>1, EffectsType
    <3>. QED
      BY <3>1, RunningTotalDef DEF LedgerBalance, Total
  <2>. QED
    BY <2>1 DEF LedgerNeverNegative
<1>. QED
  BY <1>2, <1>3, <1>4, <1>5, <1>6 DEF WalletInv

\* Every step keeps the invariant.
LEMMA WalletNext ==
    ASSUME WalletInv, [Next]_vars
    PROVE  WalletInv'
<1>1. CASE TopupNext
  BY <1>1, TopupStartInv, TopupOrderInv, TopupCreateInv, TopupFailInv DEF TopupNext
<1>2. CASE RazorpayNext
  BY <1>2, CaptureInv, EmitInv DEF RazorpayNext
<1>3. CASE HookNext
  BY <1>3, HookReceiveInv, HookFindInv, HookCommitInv, HookMarkInv, HookFailInv DEF HookNext
<1>4. CASE DebitStep
  BY <1>4, DebitChargeInv, DebitEndInv DEF DebitStep
<1>5. CASE BalanceNext
  BY <1>5, BalanceInv
<1>6. CASE DebitCaller
  BY <1>6, DebitLookupInv, DebitEndInv DEF DebitCaller
<1>7. CASE UNCHANGED vars
  <2>1. TypeOK'
    BY <1>7 DEF vars, WalletInv, TypeOK
  <2>2. TopupInv' /\ HookInv' /\ CallerInv'
    BY <1>7 DEF vars, WalletInv, TopupInv, HookInv, CallerInv
  <2>. QED
    BY <2>1, <2>2, <1>7, LedgerUnchanged DEF vars, WalletInv
<1>. QED
  BY <1>1, <1>2, <1>3, <1>4, <1>5, <1>6, <1>7 DEF Next, WalletStep

\* The inductive invariant holds of every reachable state.
THEOREM WalletInvariant == Spec => []WalletInv
<1>1. Init => WalletInv
  BY WalletInit
<1>2. WalletInv /\ [Next]_vars => WalletInv'
  BY WalletNext
<1>. QED
  BY <1>1, <1>2, PTL DEF Spec

\* Rows and slots keep their shape, whatever handlers interleave or fail.
THEOREM WalletTypeOK == Spec => []TypeOK
<1>1. WalletInv => TypeOK
  BY DEF WalletInv
<1>. QED
  BY <1>1, WalletInvariant, PTL

\* debitForAlert never overdraws a wallet: with any number of users, keys and
\* requests in flight the COMPLETED entries of a user sum to at least zero.
THEOREM LedgerStaysNonNegative == Spec => []LedgerNeverNegative
<1>1. WalletInv => LedgerNeverNegative
  BY DEF WalletInv
<1>. QED
  BY <1>1, WalletInvariant, PTL

\* A payment Razorpay captured always has its one top-up entry, of the right
\* user and amount, for completeTopupFromWebhook to find.
THEOREM CapturedPaymentHasEntry == Spec => []PaymentHasEntry
<1>1. WalletInv => PaymentHasEntry
  BY DEF WalletInv, OrderInv, PaymentHasEntry
<1>. QED
  BY <1>1, WalletInvariant, PTL

-----------------------------------------------------------------------------
(* The cache, while nothing races the webhook *)

\* No two deliveries are between finding one entry and completing it.
DeliveriesApart ==
    \A g, h \in Hooks :
        hook[g].pc = "commit" /\ hook[h].pc = "commit" /\ hook[g].entry = hook[h].entry => g = h

\* No read of the balance writes what it computed.
NoReconciliation == [][\A r \in Readers : ~BalanceReconcile(r)]_vars

CacheInv ==
    /\ CacheTracksLedger
    /\ \A h \in Hooks : hook[h].pc = "commit" => ledger[hook[h].entry].status = "PENDING"

\* Steps that write no balance.
LEMMA CacheUntouched ==
    ASSUME WalletInv, CacheInv, UNCHANGED <<cached, ledger>>,
           \A h \in Hooks : hook'[h].pc = "commit" => hook'[h] = hook[h] \/ ledger[hook'[h].entry].status = "PENDING"
    PROVE  CacheInv'
  BY DEF CacheInv, CacheTracksLedger

\* A new entry moves the cache by what it moves the ledger.
LEMMA CacheAppend ==
    ASSUME WalletInv, CacheInv, NEW e \in Entry, ledger' = Append(ledger, e), UNCHANGED hook,
           \A u \in Users : cached'[u] = cached[u] + Signed(e, u)
    PROVE  CacheInv'
<1>1. ledger \in Seq(Entry)
  BY DEF WalletInv, TypeOK
<1>2. CacheTracksLedger'
  BY <1>1, BalanceAppend DEF CacheInv, CacheTracksLedger
<1>3. \A h \in Hooks : hook[h].pc = "commit" => hook[h].entry \in 1..Len(ledger)
  BY DEF WalletInv, HookInv
<1>4. \A i \in 1..Len(ledger) : ledger'[i] = ledger[i]
  BY <1>1, AppendEntry
<1>. QED
  BY <1>2, <1>3, <1>4 DEF CacheInv

\* A delivery that finds the entry PENDING credits it once.
LEMMA CacheCommit ==
    ASSUME WalletInv, CacheInv, DeliveriesApart, NEW h \in Hooks, HookCommit(h)
    PROVE  CacheInv'
<1>1. PICK i \in 1..Len(ledger) :
         /\ i = hook[h].entry /\ ledger[i].type = "CREDIT" /\ ledger[i].status = "PENDING"
  BY DEF HookCommit, WalletInv, HookInv, CacheInv
<1>2. /\ ledger' = Completed(ledger, i) /\ hook' = [hook EXCEPT ![h].pc = "mark"]
      /\ cached' = [cached EXCEPT ![ledger[i].user] = @ + ledger[i].amount]
      /\ hook[h].pc = "commit"
  BY <1>1 DEF HookCommit, Completed
<1>3. ledger \in Seq(Entry) /\ cached \in [Users -> Int] /\ hook \in [Hooks -> Hook]
  BY DEF WalletInv, TypeOK
<1>4. ledger[i] \in Entry
  BY <1>3, ElementOfSeq
<1>5. CacheTracksLedger'
  <2> SUFFICES ASSUME NEW u \in Users PROVE cached'[u] = LedgerBalance(ledger', u)
    BY DEF CacheTracksLedger
  <2>1. cached[u] = LedgerBalance(ledger, u) /\ cached[u] \in Int
    BY <1>3 DEF CacheInv, CacheTracksLedger
  <2>2. ledger[i].amount \in Int /\ ledger[i].user \in Users
    BY <1>4 DEF Entry
  <2>3. cached'[u] = cached[u] + (IF ledger[i].user = u THEN ledger[i].amount ELSE 0)
    BY <1>2, <1>3, <2>1, <2>2
  <2>4. LedgerBalance(ledger', u) =
           LedgerBalance(ledger, u) + (IF ledger[i].user = u THEN ledger[i].amount ELSE 0)
    BY <1>1, <1>2, <1>3, BalanceComplete
  <2>. QED
    BY <2>1, <2>3, <2>4
<1>6. ASSUME NEW g \in Hooks, hook'[g].pc = "commit"
      PROVE  ledger'[hook'[g].entry].status = "PENDING"
  <2>1. g # h /\ hook'[g] = hook[g]
    BY <1>2, <1>3, <1>6 DEF Hook
  <2>2. hook[g].entry \in 1..Len(ledger) /\ hook[g].entry # i
    BY <1>1, <1>2, <1>6, <2>1 DEF DeliveriesApart, WalletInv, HookInv
  <2>3. ledger'[hook[g].entry] = ledger[hook[g].entry]
    <3>1. \A j \in 1..Len(ledger) : j # i => Completed(ledger, i)[j] = ledger[j]
      BY <1>3, CompletedEntry
    <3>. QED
      BY <1>2, <2>2, <3>1
  <2>. QED
    BY <1>6, <2>1, <2>3 DEF CacheInv
<1>. QED
  BY <1>5, <1>6 DEF CacheInv

\* No step but a reconciliation parts the cache from the ledger.
LEMMA CacheStep ==
    ASSUME WalletInv, CacheInv, DeliveriesApart, [Next]_vars,
           [\A r \in Readers : ~BalanceReconcile(r)]_vars
    PROVE  CacheInv'
<1>0. hook \in [Hooks -> Hook] /\ ledger \in Seq(Entry) /\ cached \in [Users -> Int]
  BY DEF WalletInv, TypeOK
<1>1. CASE UNCHANGED <<cached, ledger, hook>>
  BY <1>1, CacheUntouched
<1>2. ASSUME NEW r \in Topups, TopupCreate(r) PROVE CacheInv'
  <2>1. PICK e \in Entry : e = NewCredit(r)
    BY <1>2 DEF TopupCreate, WalletInv, TypeOK, TopupInv, NewCredit, Entry, Topup
  <2>2. \A u \in Users : Signed(e, u) = 0
    BY <2>1 DEF NewCredit, Signed
  <2>3. ledger' = Append(ledger, e) /\ cached' = cached /\ hook' = hook
    BY <1>2, <2>1 DEF TopupCreate
  <2>. QED
    BY <1>0, <2>2, <2>3, CacheAppend
<1>3. ASSUME NEW r \in Debits, DebitCharge(r) PROVE CacheInv'
  <2>1. PICK u \in Users : u = debit[r].user
    BY <1>3 DEF DebitCharge, WalletInv, CallerInv
  <2>2. PICK e \in Entry : e = NewDebit(r)
    BY <1>3, WalletAssumption DEF DebitCharge, WalletInv, CallerInv, NewDebit, Entry
  <2>3. \A w \in Users : Signed(e, w) = IF w = u THEN -AlertPrice ELSE 0
    BY <2>1, <2>2 DEF NewDebit, Signed
  <2>4. ledger' = Append(ledger, e) /\ cached' = [cached EXCEPT ![u] = @ - AlertPrice] /\ hook' = hook
    BY <1>3, <2>1, <2>2 DEF DebitCharge
  <2>5. ASSUME NEW w \in Users PROVE cached'[w] = cached[w] + Signed(e, w)
    <3>1. cached[w] \in Int /\ AlertPrice \in Int
      BY <1>0, WalletAssumption
    <3>2. cached'[w] = IF w = u THEN cached[w] - AlertPrice ELSE cached[w]
      BY <1>0, <2>4
    <3>3. Signed(e, w) = IF w = u THEN -AlertPrice ELSE 0
      BY <2>3
    <3>. QED
      BY <3>1, <3>2, <3>3
  <2>. QED
    BY <2>4, <2>5, CacheAppend
<1>4. ASSUME NEW h \in Hooks, HookFind(h) PROVE CacheInv'
  <2>1. UNCHANGED <<cached, ledger>>
    BY <1>4 DEF HookFind, rows
  <2>2. ASSUME NEW g \in Hooks, hook'[g].pc = "commit"
        PROVE  hook'[g] = hook[g] \/ ledger[hook'[g].entry].status = "PENDING"
    BY <1>0, <1>4, <2>2 DEF HookFind, Hook, Pending
  <2>. QED
    BY <2>1, <2>2, CacheUntouched
<1>5. ASSUME NEW h \in Hooks, (\E e \in Events : HookReceive(h, e)) \/ HookMark(h) \/ HookFail(h)
      PROVE  CacheInv'
  <2>1. UNCHANGED <<cached, ledger>>
    BY <1>5 DEF HookReceive, HookMark, HookFail, rows
  <2>2. ASSUME NEW g \in Hooks, hook'[g].pc = "commit"
        PROVE  hook'[g] = hook[g]
    BY <1>0, <1>5, <2>2 DEF HookReceive, HookMark, HookFail, AfterRecord, IdleHook
  <2>. QED
    BY <2>1, <2>2, CacheUntouched
<1>6. CASE RazorpayNext \/ DebitCaller
  BY <1>1, <1>6 DEF RazorpayNext, Capture, Emit, DebitCaller, DebitLookup, DebitReturn, rows, slots
<1>7. ASSUME NEW r \in Topups, (\E u \in Users, k \in TopupKeys, a \in Amounts : TopupStart(r, u, k, a))
                              \/ TopupOrder(r) \/ TopupFail(r)
      PROVE  CacheInv'
  BY <1>1, <1>7 DEF TopupStart, TopupOrder, TopupFail, rows
<1>8. ASSUME NEW r \in Debits, DebitFail(r) PROVE CacheInv'
  BY <1>1, <1>8 DEF DebitFail, rows
<1>9. CASE BalanceNext
  <2>1. \A r \in Readers : BalanceReconcile(r) => UNCHANGED <<cached, ledger, hook>>
    BY DEF vars
  <2>. QED
    BY <1>1, <1>9, <2>1 DEF BalanceNext, BalanceRead, BalanceSum, BalanceFail, rows
<1>10. CASE UNCHANGED vars
  BY <1>1, <1>10 DEF vars
<1>. QED
  BY <1>2, <1>3, <1>4, <1>5, <1>6, <1>7, <1>8, <1>9, <1>10, CacheCommit
     DEF Next, WalletStep, TopupNext, HookNext, DebitStep

\* Nothing but two deliveries that race for one entry, or a reconciliation that
\* writes a stale sum, ever parts the cache from the ledger (wallet.service.ts and
\* the webhook's two updates): without them the cache is the ledger's balance.
THEOREM CacheDriftsOnlyInARace ==
    Spec /\ []DeliveriesApart /\ NoReconciliation => []CacheTracksLedger
<1>1. Init => CacheInv
  <2> SUFFICES ASSUME Init, NEW u \in Users PROVE LedgerBalance(ledger, u) = 0
    BY DEF Init, CacheInv, CacheTracksLedger, IdleHook
  <2>1. ledger \in Seq(Entry) /\ Len(ledger) = 0
    BY DEF Init
  <2>2. Effects(ledger, u) \in Seq(Int) /\ Len(Effects(ledger, u)) = 0
    BY <2>1, EffectsType
  <2>. QED
    BY <2>2, RunningTotalDef DEF LedgerBalance, Total
<1>2. CacheInv => CacheTracksLedger
  BY DEF CacheInv
<1>. QED
  BY <1>1, <1>2, CacheStep, WalletInvariant, PTL DEF Spec, NoReconciliation

=============================================================================
