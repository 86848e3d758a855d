------------------------- MODULE IdealWalletProofs -------------------------
(***************************************************************************)
(* The wallet implements IdealWallet: completing a PENDING top-up is a     *)
(* credit, the Serializable debit is a charge, a webhook that completes an *)
(* entry again moves no balance, and every other step of a handler is      *)
(* either invisible or a payment in the making.                            *)
(***************************************************************************)
EXTENDS WalletProofs

\* Nobody has a balance yet.
LEMMA IdealInitially == Init => Ideal!IdealInit
<1>. SUFFICES ASSUME Init PROVE Ideal!IdealInit
  OBVIOUS
<1>1. ledger \in Seq(Entry) /\ Len(ledger) = 0 /\ 1..Len(ledger) = {}
  BY DEF Init
<1>2. \A u \in Users : LedgerBalance(ledger, u) = 0
  <2>1. ASSUME NEW u \in Users
        PROVE  LedgerBalance(ledger, u) = 0
    <3>1. Effects(ledger, u) \in Seq(Int) /\ Len(Effects(ledger, u)) = 0
      BY <1>1, EffectsType
    <3>. QED
      BY <3>1, RunningTotalDef DEF LedgerBalance, Total
  <2>. QED
    BY <2>1
<1>3. Balances = [u \in Users |-> 0]
  BY <1>2 DEF Balances
<1>4. CreditedOrders = {} /\ ChargedKeys = {}
  BY <1>1 DEF CreditedOrders, ChargedKeys, EntriesFor, EntriesWithKey
<1>5. \A o \in Orders : order[o].state # "captured"
  BY DEF Init
<1>. QED
  BY <1>3, <1>4, <1>5 DEF Ideal!IdealInit

\* A step that leaves the ledger and the captured orders alone.
LEMMA PayStep ==
    ASSUME UNCHANGED ledger,
           \A o \in Orders : order[o].state = "captured" => order'[o] = order[o]
    PROVE  Ideal!Pay
<1>1. UNCHANGED <<Balances, CreditedOrders, ChargedKeys>>
  BY DEF Balances, CreditedOrders, ChargedKeys, EntriesFor, EntriesWithKey
<1>. QED
  BY <1>1 DEF Ideal!Pay

\* Creating the row of a top-up is a payment in the making.
LEMMA TopupCreateStep ==
    ASSUME WalletInv, NEW r \in Topups, TopupCreate(r)
    PROVE  Ideal!Pay
<1>1. PICK o \in Orders : o = topup[r].order /\ order[o].state = "created"
  BY DEF TopupCreate, WalletInv, TopupInv
<1>2. PICK e \in Entry : e = NewCredit(r) /\ e.type = "CREDIT" /\ e.status = "PENDING"
  <2>1. NewCredit(r) \in Entry
    BY <1>1 DEF TopupCreate, WalletInv, TypeOK, TopupInv, NewCredit, Entry, Topup
  <2>. QED
    BY <2>1 DEF NewCredit
<1>3. PICK n \in Nat : n = Len(ledger) + 1 /\ n \notin 1..Len(ledger)
                       /\ 1..n = 1..Len(ledger) \cup {n}
  <2>1. Len(ledger) \in Nat
    BY LenProperties DEF WalletInv, TypeOK
  <2>. QED
    BY <2>1
<1>4. /\ Len(ledger') = n /\ ledger'[n] = e
      /\ \A i \in 1..Len(ledger) : ledger'[i] = ledger[i]
  BY <1>2, <1>3, AppendEntry DEF TopupCreate, WalletInv, TypeOK
<1>5. Balances' = Balances
  <2>1. \A u \in Users : Signed(e, u) = 0
    BY <1>2 DEF Signed
  <2>2. \A u \in Users : LedgerBalance(ledger', u) = LedgerBalance(ledger, u) + 0
    BY <2>1, <1>2, BalanceAppend DEF TopupCreate, WalletInv, TypeOK
  <2>3. \A u \in Users : LedgerBalance(ledger', u) = LedgerBalance(ledger, u)
    BY <2>2, BalanceType DEF WalletInv, TypeOK
  <2>. QED
    BY <2>3 DEF Balances
<1>6. CreditedOrders' = CreditedOrders
  BY <1>2, <1>3, <1>4 DEF CreditedOrders, EntriesFor
<1>7. ChargedKeys' = ChargedKeys
  BY <1>2, <1>3, <1>4 DEF ChargedKeys, EntriesWithKey
<1>8. \A p \in Orders : order[p].state = "captured" => order'[p] = order[p]
  BY <1>1 DEF TopupCreate, WalletInv, TypeOK
<1>. QED
  BY <1>5, <1>6, <1>7, <1>8 DEF Ideal!Pay

\* A webhook that completes a PENDING entry credits its order; one that
\* completes it again changes nothing IdealWallet can see.
LEMMA HookCommitStep ==
    ASSUME WalletInv, NEW h \in Hooks, HookCommit(h)
    PROVE  Ideal!Pay \/ \E o \in Orders : Ideal!Credit(o)
<1>1. PICK i \in 1..Len(ledger), o \in Orders :
        /\ i = hook[h].entry /\ o = ledger[i].ref
        /\ ledger[i].type = "CREDIT" /\ order[o].state = "captured"
  BY DEF HookCommit, WalletInv, HookInv
<1>2. ledger' = Completed(ledger, i) /\ UNCHANGED order
  BY <1>1 DEF HookCommit, razorpay, Completed
<1>3. ledger \in Seq(Entry) /\ ledger[i] \in Entry
  BY ElementOfSeq DEF WalletInv, TypeOK
<1>4. /\ Len(ledger') = Len(ledger)
      /\ ledger'[i] = [ledger[i] EXCEPT !.status = "COMPLETED"]
      /\ \A j \in 1..Len(ledger) : j # i => ledger'[j] = ledger[j]
  BY <1>2, <1>3, CompletedEntry
<1>5. /\ ledger'[i].status = "COMPLETED"
      /\ \A j \in 1..Len(ledger) :
            /\ ledger'[j].type = ledger[j].type /\ ledger'[j].ref = ledger[j].ref
            /\ ledger'[j].key = ledger[j].key
  <2>1. /\ ledger'[i].type = ledger[i].type /\ ledger'[i].ref = ledger[i].ref
        /\ ledger'[i].key = ledger[i].key /\ ledger'[i].status = "COMPLETED"
    BY <1>3, <1>4 DEF Entry
  <2>. QED
    BY <2>1, <1>1, <1>4
<1>6. EntriesFor(o) = {i} /\ ledger[i].user = order[o].user /\ ledger[i].amount = order[o].amount
  BY <1>1 DEF WalletInv, OrderInv, EntriesFor
<1>7. CASE ledger[i].status = "COMPLETED"
  <2>1. ledger'[i] = ledger[i]
    BY <1>3, <1>4, <1>7 DEF Entry
  <2>2. \A u \in Users : LedgerBalance(ledger', u) = LedgerBalance(ledger, u)
    <3>1. \A u \in Users : LedgerBalance(ledger', u) = LedgerBalance(ledger, u) + 0
      BY <1>1, <1>2, <1>3, <1>7, BalanceComplete
    <3>. QED
      BY <3>1, <1>3, BalanceType
  <2>3. UNCHANGED <<Balances, CreditedOrders, ChargedKeys>>
    BY <2>1, <2>2, <1>4 DEF Balances, CreditedOrders, ChargedKeys, EntriesFor, EntriesWithKey
  <2>. QED
    BY <2>3, <1>2 DEF Ideal!Pay
<1>8. CASE ledger[i].status = "PENDING"
  <2>1. o \notin CreditedOrders
    BY <1>6, <1>8 DEF CreditedOrders
  <2>2. CreditedOrders' = CreditedOrders \cup {o}
    <3>1. \A p \in Orders : EntriesFor(p)' = EntriesFor(p)
      BY <1>4, <1>5 DEF EntriesFor
    <3>2. o \in CreditedOrders'
      BY <3>1, <1>5, <1>6 DEF CreditedOrders
    <3>3. \A p \in Orders : p # o => \A j \in EntriesFor(p) : ledger'[j] = ledger[j]
      BY <1>1, <1>4 DEF EntriesFor
    <3>. QED
      BY <3>1, <3>2, <3>3 DEF CreditedOrders
  <2>3. ChargedKeys' = ChargedKeys
    <3>1. \A k \in Keys : EntriesWithKey(k)' = EntriesWithKey(k)
      BY <1>4, <1>5 DEF EntriesWithKey
    <3>2. \A k \in Keys : \A j \in EntriesWithKey(k) : ledger'[j].type = ledger[j].type
      BY <1>5 DEF EntriesWithKey
    <3>. QED
      BY <3>1, <3>2 DEF ChargedKeys
  <2>4. Balances' = [Balances EXCEPT ![order[o].user] = @ + order[o].amount]
    <3>1. \A u \in Users : LedgerBalance(ledger', u) =
              LedgerBalance(ledger, u) + (IF order[o].user = u THEN order[o].amount ELSE 0)
      BY <1>1, <1>2, <1>3, <1>6, <1>8, BalanceComplete
    <3>2. \A u \in Users : LedgerBalance(ledger, u) \in Int
      BY <1>3, BalanceType
    <3>3. \A u \in Users : order[o].user # u => LedgerBalance(ledger', u) = LedgerBalance(ledger, u)
      BY <3>1, <3>2
    <3>4. order[o].user \in Users =>
            LedgerBalance(ledger', order[o].user) = LedgerBalance(ledger, order[o].user) + order[o].amount
      BY <3>1
    <3>. QED
      BY <3>3, <3>4 DEF Balances
  <2>. QED
    BY <2>1, <2>2, <2>3, <2>4, <1>1, <1>2 DEF Ideal!Credit
<1>. QED
  BY <1>3, <1>7, <1>8 DEF Entry

\* The debit is a charge.
LEMMA DebitChargeStep ==
    ASSUME WalletInv, NEW r \in Debits, DebitCharge(r)
    PROVE  \E u \in Users, k \in Keys : Ideal!Charge(u, k)
<1>1. PICK u \in Users, k \in Keys : u = debit[r].user /\ k = debit[r].key
  BY DEF DebitCharge, WalletInv, CallerInv
<1>2. PICK e \in Entry : /\ e = NewDebit(r) /\ e.user = u /\ e.key = k /\ e.type = "DEBIT"
                         /\ e.amount = AlertPrice /\ e.status = "COMPLETED"
  <2>1. NewDebit(r) \in Entry
    BY <1>1, WalletAssumption DEF NewDebit, Entry
  <2>. QED
    BY <2>1, <1>1 DEF NewDebit
<1>3. PICK n \in Nat : n = Len(ledger) + 1 /\ n \notin 1..Len(ledger)
                       /\ 1..n = 1..Len(ledger) \cup {n}
  <2>1. Len(ledger) \in Nat
    BY LenProperties DEF WalletInv, TypeOK
  <2>. QED
    BY <2>1
<1>4. /\ Len(ledger') = n /\ ledger'[n] = e
      /\ \A i \in 1..Len(ledger) : ledger'[i] = ledger[i]
  BY <1>2, <1>3, AppendEntry DEF DebitCharge, WalletInv, TypeOK
<1>5. UNCHANGED order /\ EntriesWithKey(k) = {} /\ LedgerBalance(ledger, u) >= AlertPrice
  BY <1>1 DEF DebitCharge, razorpay, KeyFree, Affordable
<1>6. CreditedOrders' = CreditedOrders
  BY <1>2, <1>3, <1>4 DEF CreditedOrders, EntriesFor
<1>7. k \notin ChargedKeys /\ ChargedKeys' = ChargedKeys \cup {k}
  <2>1. k \notin ChargedKeys
    BY <1>5 DEF ChargedKeys
  <2>2. \A j \in Keys : j # k => EntriesWithKey(j)' = EntriesWithKey(j)
    BY <1>2, <1>3, <1>4 DEF EntriesWithKey
  <2>3. \A j \in Keys : \A i \in EntriesWithKey(j) : ledger'[i] = ledger[i]
    BY <1>4 DEF EntriesWithKey
  <2>4. n \in EntriesWithKey(k)' /\ ledger'[n].type = "DEBIT"
    BY <1>2, <1>3, <1>4 DEF EntriesWithKey
  <2>. QED
    BY <2>1, <2>2, <2>3, <2>4 DEF ChargedKeys
<1>8. Balances[u] >= AlertPrice
  BY <1>5 DEF Balances
<1>9. Balances' = [Balances EXCEPT ![u] = @ - AlertPrice]
  <2>1. \A w \in Users : LedgerBalance(ledger', w) = LedgerBalance(ledger, w) + Signed(e, w)
    BY <1>2, BalanceAppend DEF DebitCharge, WalletInv, TypeOK
  <2>2. \A w \in Users : LedgerBalance(ledger, w) \in Int
    BY BalanceType DEF WalletInv, TypeOK
  <2>3. Signed(e, u) = -AlertPrice /\ \A w \in Users : w # u => Signed(e, w) = 0
    BY <1>2 DEF Signed
  <2>4. LedgerBalance(ledger', u) = LedgerBalance(ledger, u) - AlertPrice
    BY <2>1, <2>2, <2>3, WalletAssumption
  <2>5. \A w \in Users : w # u => LedgerBalance(ledger', w) = LedgerBalance(ledger, w)
    BY <2>1, <2>2, <2>3
  <2>. QED
    BY <2>4, <2>5 DEF Balances
<1>10. Ideal!Charge(u, k)
  BY <1>5, <1>6, <1>7, <1>8, <1>9 DEF Ideal!Charge
<1>. QED
  BY <1>10

\* Every step is one of IdealWallet, or a stutter.
LEMMA IdealStep ==
    ASSUME WalletInv, [Next]_vars
    PROVE  [Ideal!IdealNext]_(Ideal!ivars)
<1>1. Ideal!Pay => Ideal!IdealNext
  BY DEF Ideal!IdealNext
<1>2. CASE UNCHANGED <<ledger, order>>
  BY <1>1, <1>2, PayStep
<1>3. ASSUME NEW r \in Topups, TopupOrder(r)
      PROVE  Ideal!IdealNext
  <2>1. UNCHANGED ledger /\ \A o \in Orders : order[o].state = "captured" => order'[o] = order[o]
    BY <1>3 DEF TopupOrder, rows, WalletInv, TypeOK
  <2>. QED
    BY <2>1, <1>1, PayStep
<1>4. ASSUME NEW r \in Topups, TopupCreate(r)
      PROVE  Ideal!IdealNext
  BY <1>4, <1>1, TopupCreateStep
<1>5. ASSUME NEW o \in Orders, NEW x \in Events, Capture(o, x)
      PROVE  Ideal!IdealNext
  <2>1. UNCHANGED ledger /\ \A p \in Orders : order[p].state = "captured" => order'[p] = order[p]
    BY <1>5 DEF Capture, rows, WalletInv, TypeOK
  <2>. QED
    BY <2>1, <1>1, PayStep
<1>6. ASSUME NEW h \in Hooks, HookCommit(h)
      PROVE  Ideal!IdealNext
  BY <1>6, HookCommitStep DEF Ideal!IdealNext
<1>7. ASSUME NEW r \in Debits, DebitCharge(r)
      PROVE  Ideal!IdealNext
  BY <1>7, DebitChargeStep DEF Ideal!IdealNext
<1>8. CASE TopupNext
  <2>1. PICK r \in Topups :
          \/ \E u \in Users, k \in TopupKeys, a \in Amounts : TopupStart(r, u, k, a)
          \/ TopupOrder(r)
          \/ TopupCreate(r)
          \/ TopupFail(r)
    BY <1>8 DEF TopupNext
  <2>. QED
    BY <2>1, <1>2, <1>3, <1>4 DEF TopupStart, TopupFail, rows, razorpay
<1>9. CASE RazorpayNext
  BY <1>9, <1>2, <1>5 DEF RazorpayNext, Emit, rows
<1>10. CASE HookNext
  BY <1>10, <1>2, <1>6 DEF HookNext, HookReceive, HookFind, HookMark, HookFail, rows, razorpay
<1>11. CASE DebitStep \/ DebitCaller
  BY <1>11, <1>2, <1>7 DEF DebitStep, DebitCaller, DebitFail, DebitLookup, DebitReturn, rows, razorpay
<1>12. CASE BalanceNext
  BY <1>12, <1>2 DEF BalanceNext, BalanceRead, BalanceSum, BalanceReconcile, BalanceFail,
                     rows, razorpay
<1>13. CASE UNCHANGED vars
  BY <1>13, <1>2 DEF vars
<1>. QED
  BY <1>8, <1>9, <1>10, <1>11, <1>12, <1>13 DEF Next, WalletStep

\* The wallet implements IdealWallet for any number of users, keys, orders,
\* events and requests in flight: money paid is credited once, an alert is
\* charged once per key and only when the balance covers it.
THEOREM WalletImplementsIdeal == Spec => ImplementsIdealWallet
<1>1. Init => Ideal!IdealInit
  BY IdealInitially
<1>2. WalletInv /\ [Next]_vars => [Ideal!IdealNext]_(Ideal!ivars)
  BY IdealStep
<1>. QED
  BY <1>1, <1>2, WalletInvariant, PTL DEF Spec, ImplementsIdealWallet, Ideal!IdealSpec

=============================================================================
