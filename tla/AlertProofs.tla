---------------------------- MODULE AlertProofs -----------------------------
(***************************************************************************)
(* Paid alerts, from the page that tops up to the devices that ring, for   *)
(* any number of users, alerts, devices, workers and payments.             *)
(*                                                                         *)
(* The purchase needs the wallet's own invariant: what a purchase          *)
(* remembers of its debit stays true because no step of the wallet takes   *)
(* back a completed debit. The fan-out's budget of pushes counts, for a    *)
(* device, the pushes made, the attempts that may still push and the       *)
(* attempt that is to be taken: their sum never passes one and the         *)
(* attempts that were made again. The page tells the truth because one     *)
(* payment at a time is on the screen.                                     *)
(***************************************************************************)
EXTENDS MCAlerts, WalletProofs, FiniteSetTheorems

-----------------------------------------------------------------------------
(* The purchase: what one in flight remembers *)

PurchaseRow == [pc: {"idle", "cooldown", "debit", "create", "enqueue"},
                user: Users \cup {None}, item: Items \cup {None}, key: Keys \cup {None}]

\* A purchase is of one user, one item and one key, and the debit is its own.
BuyerInv ==
    \A r \in Debits :
        /\ purchase[r].pc # "idle" =>
              purchase[r].user \in Users /\ purchase[r].item \in Items /\ purchase[r].key \in DebitKeys
        /\ purchase[r].pc = "create" =>
              debit[r].user = purchase[r].user /\ debit[r].key = purchase[r].key

PurchaseInv == PurchaseTypeOK /\ BuyerInv

\* The slot that is free.
LEMMA IdlePurchaseIsRow == IdlePurchase \in PurchaseRow /\ IdlePurchase.pc = "idle"
  BY DEF IdlePurchase, PurchaseRow

\* The slot of a purchase that moved.
LEMMA PurchaseSlot ==
    ASSUME PurchaseInv, NEW r \in Debits, NEW p \in PurchaseRow, purchase' = [purchase EXCEPT ![r] = p]
    PROVE  /\ purchase' \in [Debits -> PurchaseRow] /\ purchase'[r] = p
           /\ \A q \in Debits : q # r => purchase'[q] = purchase[q]
  BY DEF PurchaseInv, PurchaseTypeOK, PurchaseRow

\* A purchase that moves while its debit is at rest.
LEMMA PurchaseMove ==
    ASSUME PurchaseInv, NEW r \in Debits, NEW p \in PurchaseRow, purchase' = [purchase EXCEPT ![r] = p],
           UNCHANGED <<alerts, expired, active>>,
           queued' \subseteq 1..Len(alerts),
           \A q \in Debits : q # r => debit'[q] = debit[q],
           p.pc = "create" <=> debit'[r].pc # "idle",
           p.pc # "idle" => p.user \in Users /\ p.item \in Items /\ p.key \in DebitKeys,
           p.pc = "create" => debit'[r].user = p.user /\ debit'[r].key = p.key
    PROVE  PurchaseInv'
<1>1. /\ purchase' \in [Debits -> PurchaseRow] /\ purchase'[r] = p
      /\ \A q \in Debits : q # r => purchase'[q] = purchase[q]
  BY PurchaseSlot
<1>2. \A q \in Debits : purchase'[q].pc = "create" <=> debit'[q].pc # "idle"
  BY <1>1 DEF PurchaseInv, PurchaseTypeOK
<1>3. PurchaseTypeOK'
  BY <1>1, <1>2 DEF PurchaseInv, PurchaseTypeOK, PurchaseRow
<1>4. BuyerInv'
  BY <1>1 DEF PurchaseInv, BuyerInv
<1>. QED
  BY <1>3, <1>4 DEF PurchaseInv

\* A purchase whose program state moves on, the rest of its row kept.
LEMMA PurchaseNextPc ==
    ASSUME PurchaseInv, NEW r \in Debits, NEW c \in {"debit", "create", "enqueue"}
    PROVE  /\ [purchase[r] EXCEPT !.pc = c] \in PurchaseRow
           /\ [purchase[r] EXCEPT !.pc = c].pc = c
           /\ [purchase[r] EXCEPT !.pc = c].user = purchase[r].user
           /\ [purchase[r] EXCEPT !.pc = c].item = purchase[r].item
           /\ [purchase[r] EXCEPT !.pc = c].key = purchase[r].key
<1>1. purchase[r] \in PurchaseRow
  BY DEF PurchaseInv, PurchaseTypeOK, PurchaseRow
<1>. QED
  BY <1>1 DEF PurchaseRow

-----------------------------------------------------------------------------
(* The wallet below is used as Wallet allows *)

\* The charge of one slot leaves the other slots and whose slot it is.
LEMMA ChargeSlot ==
    ASSUME WalletInv, NEW r \in Debits, DebitCharge(r)
    PROVE  /\ \A q \in Debits : q # r => debit'[q] = debit[q]
           /\ debit'[r].pc = "charged" /\ debit'[r].entry = Len(ledger) + 1
           /\ debit'[r].user = debit[r].user /\ debit'[r].key = debit[r].key
<1>1. debit \in [Debits -> Debit]
  BY DEF WalletInv, TypeOK
<1>2. debit' = [debit EXCEPT ![r] = [debit[r] EXCEPT !.pc = "charged", !.entry = Len(ledger) + 1]]
  BY DEF DebitCharge
<1>. QED
  BY <1>1, <1>2 DEF Debit

\* Every step of a purchase is a step of the wallet, or does not touch it.
LEMMA WalletStepOrStutter ==
    ASSUME PurchaseInv, [AlertNext]_pvars
    PROVE  [Next]_vars
<1>1. ASSUME NEW r \in Debits, PurchaseDebit(r) PROVE Next
  <2>1. purchase[r].user \in Users /\ purchase[r].key \in DebitKeys
    BY <1>1 DEF PurchaseDebit, PurchaseInv, BuyerInv
  <2>. QED
    BY <1>1, <2>1 DEF PurchaseDebit, Next, DebitCaller
<1>2. ASSUME NEW r \in Debits, PurchaseCreate(r) PROVE Next
  BY <1>2 DEF PurchaseCreate, Next, DebitCaller
<1>3. ASSUME NEW r \in Debits, PurchaseCharge(r) PROVE Next
  BY <1>3 DEF PurchaseCharge, Next, WalletStep, DebitStep
<1>4. ASSUME NEW r \in Debits, PurchaseFail(r) PROVE Next \/ UNCHANGED vars
  BY <1>4 DEF PurchaseFail, Next, WalletStep, DebitStep
<1>5. CASE OtherWalletNext
  BY <1>5 DEF OtherWalletNext, Next, WalletStep
<1>6. ASSUME NEW r \in Debits, NEW req \in Requests, PurchaseStart(r, req[1], req[2], req[3])
      PROVE  UNCHANGED vars
  BY <1>6 DEF PurchaseStart
<1>7. ASSUME NEW r \in Debits, PurchaseCooldown(r) \/ PurchaseEnqueue(r) PROVE UNCHANGED vars
  BY <1>7 DEF PurchaseCooldown, PurchaseEnqueue
<1>8. CASE CooldownEnds \/ (\E i \in Items : ItemRecovered(i)) \/ (\E i \in 1..Len(alerts) : FanoutDone(i))
  BY <1>8 DEF CooldownEnds, ItemRecovered, FanoutDone
<1>9. CASE UNCHANGED pvars
  BY <1>9 DEF pvars
<1>. QED
  BY <1>1, <1>2, <1>3, <1>4, <1>5, <1>6, <1>7, <1>8, <1>9 DEF AlertNext, PurchaseNext

-----------------------------------------------------------------------------
(* Each action keeps what a purchase remembers *)

\* The initial states have the invariant.
LEMMA PurchaseInitInv == PurchaseInit => PurchaseInv
<1> SUFFICES ASSUME PurchaseInit PROVE PurchaseInv
  OBVIOUS
<1>1. alerts \in Seq(Alert) /\ Len(alerts) = 0
  BY DEF PurchaseInit
<1>2. purchase \in [Debits -> PurchaseRow] /\ \A r \in Debits : purchase[r].pc = "idle" /\ debit[r].pc = "idle"
  BY IdlePurchaseIsRow DEF PurchaseInit, Init, IdleDebit
<1>3. PurchaseTypeOK
  BY <1>1, <1>2 DEF PurchaseInit, PurchaseTypeOK, PurchaseRow
<1>. QED
  BY <1>2, <1>3 DEF PurchaseInv, BuyerInv

\* PurchaseStart keeps the invariant.
LEMMA PurchaseStartInv ==
    ASSUME PurchaseInv, NEW r \in Debits, NEW req \in Requests, PurchaseStart(r, req[1], req[2], req[3])
    PROVE  PurchaseInv'
<1> DEFINE p == [pc |-> "cooldown", user |-> req[1], item |-> req[2], key |-> req[3]]
<1>1. req[1] \in Users /\ req[2] \in Items /\ req[3] \in DebitKeys
  BY PurchaseAssumption
<1>2. p \in PurchaseRow /\ p.pc = "cooldown" /\ p.user \in Users /\ p.item \in Items /\ p.key \in DebitKeys
  BY <1>1 DEF PurchaseRow, Keys
<1>3. /\ purchase' = [purchase EXCEPT ![r] = p] /\ UNCHANGED <<alerts, expired, active, queued, debit>>
      /\ purchase[r].pc = "idle"
  BY DEF PurchaseStart, vars
<1>4. debit[r].pc = "idle" /\ queued \subseteq 1..Len(alerts)
  BY <1>3 DEF PurchaseInv, PurchaseTypeOK
<1> HIDE DEF p
<1>. QED
  BY <1>2, <1>3, <1>4, PurchaseMove

\* PurchaseCooldown keeps the invariant.
LEMMA PurchaseCooldownInv ==
    ASSUME PurchaseInv, NEW r \in Debits, PurchaseCooldown(r)
    PROVE  PurchaseInv'
<1> DEFINE p == [purchase[r] EXCEPT !.pc = "debit"]
<1>1. /\ purchase' = [purchase EXCEPT ![r] = p] /\ UNCHANGED <<alerts, expired, active, queued, debit>>
      /\ purchase[r].pc = "cooldown"
  BY DEF PurchaseCooldown, vars
<1>2. p \in PurchaseRow /\ p.pc = "debit" /\ p.user \in Users /\ p.item \in Items /\ p.key \in DebitKeys
  BY <1>1, PurchaseNextPc DEF PurchaseInv, BuyerInv
<1>3. debit[r].pc = "idle" /\ queued \subseteq 1..Len(alerts)
  BY <1>1 DEF PurchaseInv, PurchaseTypeOK
<1> HIDE DEF p
<1>. QED
  BY <1>1, <1>2, <1>3, PurchaseMove

\* PurchaseDebit keeps the invariant.
LEMMA PurchaseDebitInv ==
    ASSUME WalletInv, PurchaseInv, NEW r \in Debits, PurchaseDebit(r)
    PROVE  PurchaseInv'
<1> DEFINE p == [purchase[r] EXCEPT !.pc = "create"]
<1>1. /\ purchase' = [purchase EXCEPT ![r] = p] /\ UNCHANGED <<alerts, expired, active, queued>>
      /\ purchase[r].pc = "debit"
  BY DEF PurchaseDebit
<1>2. /\ p \in PurchaseRow /\ p.pc = "create" /\ p.user \in Users /\ p.item \in Items /\ p.key \in DebitKeys
      /\ p.user = purchase[r].user /\ p.key = purchase[r].key
  BY <1>1, PurchaseNextPc DEF PurchaseInv, BuyerInv
<1>3. debit \in [Debits -> Debit]
  BY DEF WalletInv, TypeOK
<1>4. /\ \A q \in Debits : q # r => debit'[q] = debit[q]
      /\ debit'[r].pc # "idle" /\ debit'[r].user = purchase[r].user /\ debit'[r].key = purchase[r].key
  BY <1>3 DEF PurchaseDebit, DebitLookup
<1>5. queued \subseteq 1..Len(alerts)
  BY DEF PurchaseInv, PurchaseTypeOK
<1> HIDE DEF p
<1>. QED
  BY <1>1, <1>2, <1>4, <1>5, PurchaseMove

\* PurchaseCharge keeps the invariant.
LEMMA PurchaseChargeInv ==
    ASSUME WalletInv, PurchaseInv, NEW r \in Debits, PurchaseCharge(r)
    PROVE  PurchaseInv'
<1>1. DebitCharge(r) /\ UNCHANGED <<alerts, expired, active, queued, purchase>> /\ debit[r].pc = "charge"
  BY DEF PurchaseCharge, alertVars, DebitCharge
<1>2. /\ \A q \in Debits : q # r => debit'[q] = debit[q]
      /\ debit'[r].pc = "charged" /\ debit'[r].user = debit[r].user /\ debit'[r].key = debit[r].key
  BY <1>1, ChargeSlot
<1>3. PurchaseTypeOK'
  <2>1. \A q \in Debits : debit'[q].pc # "idle" <=> debit[q].pc # "idle"
    BY <1>1, <1>2
  <2>. QED
    BY <1>1, <2>1 DEF PurchaseInv, PurchaseTypeOK
<1>4. BuyerInv'
  BY <1>1, <1>2 DEF PurchaseInv, BuyerInv
<1>. QED
  BY <1>3, <1>4 DEF PurchaseInv

\* A slot of debitForAlert that is given back.
LEMMA DebitEnds ==
    ASSUME WalletInv, NEW r \in Debits, DebitFail(r) \/ DebitReturn(r)
    PROVE  debit'[r].pc = "idle" /\ \A q \in Debits : q # r => debit'[q] = debit[q]
  BY DEF WalletInv, TypeOK, DebitFail, DebitReturn, IdleDebit

\* PurchaseEnqueue keeps the invariant.
LEMMA PurchaseEnqueueInv ==
    ASSUME PurchaseInv, NEW r \in Debits, PurchaseEnqueue(r)
    PROVE  PurchaseInv'
<1>1. /\ purchase' = [purchase EXCEPT ![r] = IdlePurchase] /\ UNCHANGED <<alerts, expired, active, debit>>
      /\ purchase[r].pc = "enqueue"
  BY DEF PurchaseEnqueue, vars
<1>2. queued' \subseteq 1..Len(alerts) /\ debit[r].pc = "idle"
  BY <1>1 DEF PurchaseEnqueue, AlertWithKey, PurchaseInv, PurchaseTypeOK
<1>. QED
  BY <1>1, <1>2, PurchaseMove, IdlePurchaseIsRow

\* PurchaseFail keeps the invariant.
LEMMA PurchaseFailInv ==
    ASSUME WalletInv, PurchaseInv, NEW r \in Debits, PurchaseFail(r)
    PROVE  PurchaseInv'
<1>1. purchase' = [purchase EXCEPT ![r] = IdlePurchase] /\ UNCHANGED <<alerts, expired, active, queued>>
  BY DEF PurchaseFail
<1>2. debit'[r].pc = "idle" /\ \A q \in Debits : q # r => debit'[q] = debit[q]
  BY DebitEnds DEF PurchaseFail, vars
<1>3. queued \subseteq 1..Len(alerts)
  BY DEF PurchaseInv, PurchaseTypeOK
<1>. QED
  BY <1>1, <1>2, <1>3, PurchaseMove, IdlePurchaseIsRow

\* The alert a purchase creates.
LEMMA NewAlertType ==
    ASSUME WalletInv, PurchaseInv, NEW r \in Debits, purchase[r].pc = "create"
    PROVE  NewAlert(r) \in Alert
<1>1. debit[r] \in Debit /\ purchase[r].user \in Users /\ purchase[r].item \in Items /\ purchase[r].key \in Keys
  BY DEF WalletInv, TypeOK, PurchaseInv, BuyerInv, Keys
<1>. QED
  BY <1>1 DEF NewAlert, Alert, Debit

\* What a new alert does to the table.
LEMMA AppendAlert ==
    ASSUME NEW l \in Seq(Alert), NEW a \in Alert
    PROVE  /\ Append(l, a) \in Seq(Alert)
           /\ Len(l) \in Nat /\ Len(Append(l, a)) = Len(l) + 1
           /\ Append(l, a)[Len(l) + 1] = a
           /\ \A i \in 1..Len(l) : Append(l, a)[i] = l[i]
OBVIOUS

\* PurchaseCreate keeps the invariant.
LEMMA PurchaseCreateInv ==
    ASSUME WalletInv, PurchaseInv, NEW r \in Debits, PurchaseCreate(r)
    PROVE  PurchaseInv'
<1> DEFINE p == [purchase[r] EXCEPT !.pc = "enqueue"]
<1>1. /\ purchase' = [purchase EXCEPT ![r] = p] /\ UNCHANGED <<expired, active, queued>>
      /\ purchase[r].pc = "create" /\ alerts' = Append(alerts, NewAlert(r))
  BY DEF PurchaseCreate
<1>2. p \in PurchaseRow /\ p.pc = "enqueue" /\ p.user \in Users /\ p.item \in Items /\ p.key \in DebitKeys
  BY <1>1, PurchaseNextPc DEF PurchaseInv, BuyerInv
<1> HIDE DEF p
<1>3. debit'[r].pc = "idle" /\ \A q \in Debits : q # r => debit'[q] = debit[q]
  BY DebitEnds DEF PurchaseCreate
<1>4. /\ purchase' \in [Debits -> PurchaseRow] /\ purchase'[r] = p
      /\ \A q \in Debits : q # r => purchase'[q] = purchase[q]
  BY <1>1, <1>2, PurchaseSlot
<1>5. alerts \in Seq(Alert)
  BY DEF PurchaseInv, PurchaseTypeOK
<1>6. alerts' \in Seq(Alert) /\ Len(alerts') = Len(alerts) + 1 /\ Len(alerts) \in Nat
  BY <1>1, <1>5, NewAlertType, AppendAlert
<1>7. expired' \in 0..Len(alerts') /\ queued' \subseteq 1..Len(alerts')
  BY <1>1, <1>6 DEF PurchaseInv, PurchaseTypeOK
<1>8. \A q \in Debits : purchase'[q].pc = "create" <=> debit'[q].pc # "idle"
  BY <1>2, <1>3, <1>4 DEF PurchaseInv, PurchaseTypeOK
<1>9. PurchaseTypeOK'
  BY <1>1, <1>4, <1>6, <1>7, <1>8 DEF PurchaseInv, PurchaseTypeOK, PurchaseRow
<1>10. BuyerInv'
  BY <1>2, <1>3, <1>4 DEF PurchaseInv, BuyerInv
<1>. QED
  BY <1>9, <1>10 DEF PurchaseInv

\* A SENT alert keeps what it is of.
LEMMA SentAlert ==
    ASSUME NEW l \in Seq(Alert), NEW i \in 1..Len(l)
    PROVE  LET m == [l EXCEPT ![i].status = "SENT"]
           IN  /\ m \in Seq(Alert) /\ Len(m) = Len(l)
               /\ \A j \in 1..Len(l) : /\ m[j].key = l[j].key /\ m[j].item = l[j].item
                                       /\ m[j].user = l[j].user /\ m[j].entry = l[j].entry
<1> DEFINE a == [l[i] EXCEPT !.status = "SENT"]
           m == [l EXCEPT ![i] = a]
<1>1. l[i] \in Alert
  BY ElementOfSeq
<1>2. a \in Alert /\ a.key = l[i].key /\ a.item = l[i].item /\ a.user = l[i].user /\ a.entry = l[i].entry
  BY <1>1 DEF Alert
<1> HIDE DEF a
<1>3. m \in Seq(Alert) /\ Len(m) = Len(l) /\ m[i] = a /\ \A j \in 1..Len(l) : j # i => m[j] = l[j]
  BY <1>2, ExceptSeq
<1>. QED
  BY <1>2, <1>3 DEF a

\* Steps that leave every debit slot and every purchase alone.
LEMMA PurchaseAside ==
    ASSUME PurchaseInv, UNCHANGED <<purchase, debit>>, alerts' \in Seq(Alert), expired' \in 0..Len(alerts'),
           active' \subseteq active, queued' \subseteq 1..Len(alerts')
    PROVE  PurchaseInv'
<1>1. PurchaseTypeOK'
  BY DEF PurchaseInv, PurchaseTypeOK
<1>2. BuyerInv'
  BY DEF PurchaseInv, BuyerInv
<1>. QED
  BY <1>1, <1>2 DEF PurchaseInv

\* The rest of the wallet does not touch a debit in flight.
LEMMA OtherWalletAside ==
    ASSUME OtherWalletNext
    PROVE  UNCHANGED <<debit, alerts, expired, active, queued, purchase>>
  BY DEF OtherWalletNext, alertVars, TopupNext, TopupStart, TopupOrder, TopupCreate, TopupFail,
     RazorpayNext, Capture, Emit, HookNext, HookReceive, HookFind, HookCommit, HookMark, HookFail,
     BalanceNext, BalanceRead, BalanceSum, BalanceReconcile, BalanceFail, slots

\* Every step keeps what a purchase remembers.
LEMMA PurchaseStep ==
    ASSUME WalletInv, PurchaseInv, [AlertNext]_pvars
    PROVE  PurchaseInv'
<1>1. CASE PurchaseNext
  BY <1>1, PurchaseStartInv, PurchaseCooldownInv, PurchaseDebitInv, PurchaseChargeInv, PurchaseCreateInv,
     PurchaseEnqueueInv, PurchaseFailInv DEF PurchaseNext
<1>2. alerts \in Seq(Alert) /\ expired \in 0..Len(alerts) /\ queued \subseteq 1..Len(alerts)
  BY DEF PurchaseInv, PurchaseTypeOK
<1>3. CASE OtherWalletNext
  BY <1>2, <1>3, OtherWalletAside, PurchaseAside
<1>4. CASE CooldownEnds
  <2>1. expired' \in 0..Len(alerts) /\ UNCHANGED <<purchase, debit, alerts, active, queued>>
    BY <1>2, <1>4, LenProperties DEF CooldownEnds, vars
  <2>. QED
    BY <1>2, <2>1, PurchaseAside
<1>5. ASSUME NEW i \in Items, ItemRecovered(i) PROVE PurchaseInv'
  <2>1. active' \subseteq active /\ UNCHANGED <<purchase, debit, alerts, expired, queued>>
    BY <1>5 DEF ItemRecovered, vars
  <2>. QED
    BY <1>2, <2>1, PurchaseAside
<1>6. ASSUME NEW i \in 1..Len(alerts), FanoutDone(i) PROVE PurchaseInv'
  <2>1. alerts' = [alerts EXCEPT ![i].status = "SENT"] /\ UNCHANGED <<purchase, debit, expired, active, queued>>
    BY <1>6 DEF FanoutDone, vars
  <2>2. alerts' \in Seq(Alert) /\ Len(alerts') = Len(alerts)
    BY <1>2, <2>1, SentAlert
  <2>. QED
    BY <1>2, <2>1, <2>2, PurchaseAside
<1>7. CASE UNCHANGED pvars
  BY <1>2, <1>7, PurchaseAside DEF pvars, alertVars, vars
<1>. QED
  BY <1>1, <1>3, <1>4, <1>5, <1>6, <1>7 DEF AlertNext

\* The wallet and the purchases on it keep their invariants together.
THEOREM PurchaseInvariant == PurchaseSpec => [](WalletInv /\ PurchaseInv)
<1>1. PurchaseInit => WalletInv /\ PurchaseInv
  BY WalletInit, PurchaseInitInv DEF PurchaseInit
<1>2. WalletInv /\ PurchaseInv /\ [AlertNext]_pvars => (WalletInv /\ PurchaseInv)'
  BY WalletNext, WalletStepOrStutter, PurchaseStep
<1>. QED
  BY <1>1, <1>2, PTL DEF PurchaseSpec

\* Purchases use the wallet only as debitForAlert allows, so what is proved of the
\* wallet with any caller holds below purchaseAlert (alerts.service.ts).
THEOREM PurchaseImplementsWallet == PurchaseSpec => ImplementsWallet
<1>1. PurchaseInit => Init
  BY DEF PurchaseInit
<1>2. WalletInv /\ PurchaseInv /\ [AlertNext]_pvars => [Next]_vars
  BY WalletStepOrStutter
<1>. QED
  BY <1>1, <1>2, PurchaseInvariant, PTL DEF PurchaseSpec, ImplementsWallet, Spec

\* Rows, requests and the debit slots they share stay in shape.
THEOREM PurchaseTypes == PurchaseSpec => []PurchaseTypeOK
<1>1. PurchaseInv => PurchaseTypeOK
  BY DEF PurchaseInv
<1>. QED
  BY <1>1, PurchaseInvariant, PTL

-----------------------------------------------------------------------------
(* Every alert is paid *)

\* A client's key is for a top-up or for an alert, never for both.
KeysApart == TopupKeys \cap DebitKeys = {}

\* Entry i of ledger l pays for an alert of user u.
PaidEntry(l, i, u) ==
    /\ i \in 1..Len(l)
    /\ l[i].type = "DEBIT"
    /\ l[i].status = "COMPLETED"
    /\ l[i].amount = AlertPrice
    /\ l[i].user = u

\* Debits are made with the keys of alerts only, each COMPLETED and of the price.
TopupKeysInv == \A r \in Topups : topup[r].pc # "idle" => topup[r].key \in TopupKeys

KindsInv ==
    \A i \in 1..Len(ledger) :
        /\ ledger[i].type = "CREDIT" => ledger[i].key \in TopupKeys
        /\ ledger[i].type = "DEBIT" => ledger[i].status = "COMPLETED" /\ ledger[i].amount = AlertPrice

ChargedInv == \A r \in Debits : debit[r].pc = "charged" => PaidEntry(ledger, debit[r].entry, debit[r].user)

EntriesInv == TopupKeysInv /\ KindsInv /\ ChargedInv

\* What a step does to the entries that exist.
LEMMA LedgerStep ==
    ASSUME WalletInv, [Next]_vars
    PROVE  \/ ledger' = ledger
           \/ \E r \in Topups : TopupCreate(r) /\ NewCredit(r) \in Entry /\ ledger' = Append(ledger, NewCredit(r))
           \/ \E r \in Debits : DebitCharge(r) /\ NewDebit(r) \in Entry /\ ledger' = Append(ledger, NewDebit(r))
           \/ \E h \in Hooks : \E i \in 1..Len(ledger) :
                 HookCommit(h) /\ ledger[i].type = "CREDIT" /\ ledger' = Completed(ledger, i)
<1>1. ASSUME NEW r \in Topups, TopupCreate(r)
      PROVE  NewCredit(r) \in Entry /\ ledger' = Append(ledger, NewCredit(r))
  BY <1>1 DEF TopupCreate, WalletInv, TypeOK, TopupInv, NewCredit, Entry, Topup
<1>2. ASSUME NEW r \in Debits, DebitCharge(r)
      PROVE  NewDebit(r) \in Entry /\ ledger' = Append(ledger, NewDebit(r))
  BY <1>2, WalletAssumption DEF DebitCharge, WalletInv, CallerInv, NewDebit, Entry
<1>3. ASSUME NEW h \in Hooks, HookCommit(h)
      PROVE  \E i \in 1..Len(ledger) : ledger[i].type = "CREDIT" /\ ledger' = Completed(ledger, i)
  BY <1>3 DEF HookCommit, WalletInv, HookInv, Completed
<1>4. ASSUME NEW r \in Topups, (\E u \in Users, k \in TopupKeys, a \in Amounts : TopupStart(r, u, k, a))
                               \/ TopupOrder(r) \/ TopupFail(r)
      PROVE  ledger' = ledger
  BY <1>4 DEF TopupStart, TopupOrder, TopupFail, rows
<1>5. ASSUME NEW h \in Hooks, (\E e \in Events : HookReceive(h, e)) \/ HookFind(h) \/ HookMark(h) \/ HookFail(h)
      PROVE  ledger' = ledger
  BY <1>5 DEF HookReceive, HookFind, HookMark, HookFail, rows
<1>6. ASSUME RazorpayNext \/ BalanceNext \/ DebitCaller \/ UNCHANGED vars PROVE ledger' = ledger
  BY <1>6 DEF RazorpayNext, Capture, Emit, BalanceNext, BalanceRead, BalanceSum, BalanceReconcile, BalanceFail,
     DebitCaller, DebitLookup, DebitReturn, vars, rows
<1>7. ASSUME NEW r \in Debits, DebitFail(r) PROVE ledger' = ledger
  BY <1>7 DEF DebitFail, rows
<1>. QED
  BY <1>1, <1>2, <1>3, <1>4, <1>5, <1>6, <1>7 DEF Next, WalletStep, TopupNext, HookNext, DebitStep

\* A payment that was made stays made.
LEMMA PaidStays ==
    ASSUME WalletInv, [Next]_vars, NEW i, NEW u, PaidEntry(ledger, i, u)
    PROVE  PaidEntry(ledger', i, u)
<1>1. ledger \in Seq(Entry) /\ i \in 1..Len(ledger) /\ Len(ledger) \in Nat
  BY LenProperties DEF WalletInv, TypeOK, PaidEntry
<1>2. ASSUME NEW e \in Entry, ledger' = Append(ledger, e) PROVE PaidEntry(ledger', i, u)
  <2>1. Len(ledger') = Len(ledger) + 1 /\ ledger'[i] = ledger[i]
    BY <1>1, <1>2, AppendEntry
  <2>. QED
    BY <1>1, <2>1 DEF PaidEntry
<1>3. ASSUME NEW j \in 1..Len(ledger), ledger[j].type = "CREDIT", ledger' = Completed(ledger, j)
      PROVE  PaidEntry(ledger', i, u)
  <2>1. Len(ledger') = Len(ledger) /\ \A k \in 1..Len(ledger) : k # j => ledger'[k] = ledger[k]
    BY <1>1, <1>3, CompletedEntry
  <2>2. i # j
    BY <1>3 DEF PaidEntry
  <2>. QED
    BY <1>1, <2>1, <2>2 DEF PaidEntry
<1>4. CASE ledger' = ledger
  BY <1>4 DEF PaidEntry
<1>. QED
  BY <1>2, <1>3, <1>4, LedgerStep

\* A request keeps the key it came with.
LEMMA TopupKeysStep ==
    ASSUME WalletInv, TopupKeysInv, [Next]_vars
    PROVE  TopupKeysInv'
<1>0. topup \in [Topups -> Topup]
  BY DEF WalletInv, TypeOK
<1> SUFFICES ASSUME NEW r \in Topups, topup'[r].pc # "idle" PROVE topup'[r].key \in TopupKeys
  BY DEF TopupKeysInv
<1>1. CASE UNCHANGED topup
  BY <1>1 DEF TopupKeysInv
<1>2. ASSUME NEW q \in Topups, NEW u \in Users, NEW k \in TopupKeys, NEW a \in Amounts, TopupStart(q, u, k, a)
      PROVE  topup'[r].key \in TopupKeys
  BY <1>0, <1>2 DEF TopupKeysInv, TopupStart
<1>3. ASSUME NEW q \in Topups, TopupOrder(q) PROVE topup'[r].key \in TopupKeys
  <2>1. PICK o \in Orders : topup' = [topup EXCEPT ![q] = [topup[q] EXCEPT !.pc = "create", !.order = o]]
    BY <1>3 DEF TopupOrder
  <2>2. topup'[r].key = topup[r].key
    BY <1>0, <2>1 DEF Topup
  <2>3. topup[r].pc # "idle"
    BY <1>0, <1>3, <2>1 DEF TopupOrder
  <2>. QED
    BY <2>2, <2>3 DEF TopupKeysInv
<1>4. ASSUME NEW q \in Topups, TopupCreate(q) \/ TopupFail(q) PROVE topup'[r].key \in TopupKeys
  BY <1>0, <1>4 DEF TopupKeysInv, TopupCreate, TopupFail, IdleTopup
<1>5. UNCHANGED topup \/ TopupNext
  BY DEF Next, WalletStep, RazorpayNext, Capture, Emit, HookNext, HookReceive, HookFind, HookCommit, HookMark,
     HookFail, DebitStep, DebitCharge, DebitFail, BalanceNext, BalanceRead, BalanceSum, BalanceReconcile,
     BalanceFail, DebitCaller, DebitLookup, DebitReturn, slots, vars
<1>. QED
  BY <1>1, <1>2, <1>3, <1>4, <1>5 DEF TopupNext

\* A new row is of one of the two kinds, with a key of its kind.
LEMMA KindsStep ==
    ASSUME WalletInv, TopupKeysInv, KindsInv, [Next]_vars
    PROVE  KindsInv'
<1>0. ledger \in Seq(Entry) /\ Len(ledger) \in Nat
  BY LenProperties DEF WalletInv, TypeOK
<1>1. CASE ledger' = ledger
  BY <1>1 DEF KindsInv
<1>2. ASSUME NEW e \in Entry, ledger' = Append(ledger, e),
             e.type = "CREDIT" => e.key \in TopupKeys,
             e.type = "DEBIT" => e.status = "COMPLETED" /\ e.amount = AlertPrice
      PROVE  KindsInv'
  <2>1. /\ Len(ledger') = Len(ledger) + 1 /\ ledger'[Len(ledger) + 1] = e
        /\ \A i \in 1..Len(ledger) : ledger'[i] = ledger[i]
    BY <1>0, <1>2, AppendEntry
  <2>2. \A i \in 1..Len(ledger') : i = Len(ledger) + 1 \/ i \in 1..Len(ledger)
    BY <1>0, <2>1
  <2>. QED
    BY <1>2, <2>1, <2>2 DEF KindsInv
<1>3. ASSUME NEW r \in Topups, TopupCreate(r), NewCredit(r) \in Entry, ledger' = Append(ledger, NewCredit(r))
      PROVE  KindsInv'
  <2>1. NewCredit(r).type = "CREDIT" /\ NewCredit(r).key \in TopupKeys
    BY <1>3 DEF NewCredit, TopupCreate, TopupKeysInv
  <2>. QED
    BY <1>2, <1>3, <2>1
<1>4. ASSUME NEW r \in Debits, NewDebit(r) \in Entry, ledger' = Append(ledger, NewDebit(r))
      PROVE  KindsInv'
  <2>1. NewDebit(r).type = "DEBIT" /\ NewDebit(r).status = "COMPLETED" /\ NewDebit(r).amount = AlertPrice
    BY DEF NewDebit
  <2>. QED
    BY <1>2, <1>4, <2>1
<1>5. ASSUME NEW i \in 1..Len(ledger), ledger[i].type = "CREDIT", ledger' = Completed(ledger, i)
      PROVE  KindsInv'
  <2>1. /\ Len(ledger') = Len(ledger) /\ ledger'[i] = [ledger[i] EXCEPT !.status = "COMPLETED"]
        /\ \A j \in 1..Len(ledger) : j # i => ledger'[j] = ledger[j]
    BY <1>0, <1>5, CompletedEntry
  <2>2. ledger[i] \in Entry
    BY <1>0, ElementOfSeq
  <2>3. ledger'[i].type = "CREDIT" /\ ledger'[i].key = ledger[i].key
    BY <1>5, <2>1, <2>2 DEF Entry
  <2>4. \A j \in 1..Len(ledger') : j = i \/ (j \in 1..Len(ledger) /\ ledger'[j] = ledger[j])
    BY <2>1
  <2>5. ledger[i].key \in TopupKeys
    BY <1>5 DEF KindsInv
  <2>. QED
    BY <2>3, <2>4, <2>5 DEF KindsInv
<1>. QED
  BY <1>1, <1>3, <1>4, <1>5, LedgerStep

\* A call of debitForAlert answers with a debit of its user, made now or before.
LEMMA ChargedStep ==
    ASSUME KeysApart, WalletInv, KindsInv, ChargedInv, [Next]_vars
    PROVE  ChargedInv'
<1>0. ledger \in Seq(Entry) /\ Len(ledger) \in Nat /\ debit \in [Debits -> Debit]
  BY LenProperties DEF WalletInv, TypeOK
<1> SUFFICES ASSUME NEW r \in Debits, debit'[r].pc = "charged"
             PROVE  PaidEntry(ledger', debit'[r].entry, debit'[r].user)
  BY DEF ChargedInv, PaidEntry
<1>1. CASE debit'[r] = debit[r]
  <2>1. PaidEntry(ledger, debit[r].entry, debit[r].user)
    BY <1>1 DEF ChargedInv
  <2>. QED
    BY <1>1, <2>1, PaidStays
<1>2. ASSUME NEW q \in Debits, NEW u \in Users, NEW k \in DebitKeys, DebitLookup(q, u, k)
      PROVE  PaidEntry(ledger', debit'[r].entry, debit'[r].user)
  <2>1. CASE r # q
    <3>1. debit'[r] = debit[r]
      BY <1>0, <1>2, <2>1 DEF DebitLookup
    <3>. QED
      BY <1>1, <3>1
  <2>2. CASE r = q
    <3>1. PICK i \in ExistingEntry(u, k) : debit'[r].entry = i /\ debit'[r].user = u
      BY <1>0, <1>2, <2>2 DEF DebitLookup
    <3>2. i \in 1..Len(ledger) /\ ledger[i].key = k /\ ledger[i].user = u
      BY <3>1 DEF ExistingEntry, EntriesWithKey
    <3>3. ledger[i].type = "DEBIT"
      <4>1. ledger[i] \in Entry
        BY <1>0, <3>2, ElementOfSeq
      <4>2. ledger[i].type # "CREDIT"
        BY <3>2 DEF KindsInv, KeysApart
      <4>. QED
        BY <4>1, <4>2 DEF Entry
    <3>4. ledger' = ledger
      BY <1>2 DEF DebitLookup, rows
    <3>. QED
      BY <3>1, <3>2, <3>3, <3>4 DEF KindsInv, PaidEntry
  <2>. QED
    BY <2>1, <2>2
<1>3. ASSUME NEW q \in Debits, DebitCharge(q) PROVE PaidEntry(ledger', debit'[r].entry, debit'[r].user)
  <2>1. /\ \A p \in Debits : p # q => debit'[p] = debit[p]
        /\ debit'[q].entry = Len(ledger) + 1 /\ debit'[q].user = debit[q].user
    BY <1>3, ChargeSlot
  <2>2. CASE r # q
    BY <1>1, <2>1, <2>2
  <2>3. CASE r = q
    <3>1. NewDebit(q) \in Entry /\ ledger' = Append(ledger, NewDebit(q))
      BY <1>3, WalletAssumption DEF DebitCharge, WalletInv, CallerInv, NewDebit, Entry
    <3>2. Len(ledger') = Len(ledger) + 1 /\ ledger'[Len(ledger) + 1] = NewDebit(q)
      BY <1>0, <3>1, AppendEntry
    <3>. QED
      BY <1>0, <2>1, <2>3, <3>2 DEF NewDebit, PaidEntry
  <2>. QED
    BY <2>2, <2>3
<1>4. ASSUME NEW q \in Debits, DebitFail(q) \/ DebitReturn(q) PROVE PaidEntry(ledger', debit'[r].entry, debit'[r].user)
  <2>1. r # q /\ debit'[r] = debit[r]
    BY <1>4, DebitEnds
  <2>. QED
    BY <1>1, <2>1
<1>5. UNCHANGED debit \/ DebitStep \/ DebitCaller
  BY DEF Next, WalletStep, TopupNext, TopupStart, TopupOrder, TopupCreate, TopupFail,
     RazorpayNext, Capture, Emit, HookNext, HookReceive, HookFind, HookCommit, HookMark,
     HookFail, BalanceNext, BalanceRead, BalanceSum, BalanceReconcile, BalanceFail, slots, vars
<1>. QED
  BY <1>1, <1>2, <1>3, <1>4, <1>5 DEF DebitStep, DebitCaller

\* There is no entry yet.
LEMMA EntriesInit == Init => EntriesInv
<1> SUFFICES ASSUME Init PROVE EntriesInv
  OBVIOUS
<1>1. 1..Len(ledger) = {} /\ \A r \in Topups : topup[r].pc = "idle"
  BY DEF Init, IdleTopup
<1>2. \A r \in Debits : debit[r].pc = "idle"
  BY DEF Init, IdleDebit
<1>. QED
  BY <1>1, <1>2 DEF EntriesInv, TopupKeysInv, KindsInv, ChargedInv

\* A new alert is of the entry its purchase was charged with, and no other has it.
LEMMA AlertPaidStep ==
    ASSUME WalletInv, PurchaseInv, EntriesInv, AlertPaid, [AlertNext]_pvars
    PROVE  AlertPaid'
<1>0. alerts \in Seq(Alert) /\ Len(alerts) \in Nat
  BY LenProperties DEF PurchaseInv, PurchaseTypeOK
<1>1. [Next]_vars
  BY WalletStepOrStutter
<1>2. \A i \in 1..Len(alerts) : PaidEntry(ledger, alerts[i].entry, alerts[i].user)
  BY DEF AlertPaid, PaidEntry
<1>4. ASSUME NEW i \in 1..Len(alerts)
      PROVE  /\ alerts[i].entry \in 1..Len(ledger')
             /\ ledger'[alerts[i].entry].type = "DEBIT"
             /\ ledger'[alerts[i].entry].status = "COMPLETED"
             /\ ledger'[alerts[i].entry].amount = AlertPrice
             /\ ledger'[alerts[i].entry].user = alerts[i].user
  <2>1. PaidEntry(ledger', alerts[i].entry, alerts[i].user)
    BY <1>1, <1>2, PaidStays
  <2>. QED
    BY <2>1 DEF PaidEntry
<1>5. ASSUME Len(alerts') = Len(alerts),
             \A i \in 1..Len(alerts) : alerts'[i].entry = alerts[i].entry /\ alerts'[i].user = alerts[i].user
      PROVE  AlertPaid'
  BY <1>4, <1>5 DEF AlertPaid
<1>6. ASSUME NEW r \in Debits, PurchaseCreate(r) PROVE AlertPaid'
  <2>1. /\ alerts' = Append(alerts, NewAlert(r)) /\ debit[r].pc = "charged" /\ purchase[r].pc = "create"
        /\ \A j \in 1..Len(alerts) : alerts[j].entry # debit[r].entry
        /\ ledger' = ledger
    BY <1>6 DEF PurchaseCreate, DebitReturn, UniqueAlert, rows
  <2>2. /\ Len(alerts') = Len(alerts) + 1 /\ alerts'[Len(alerts) + 1] = NewAlert(r)
        /\ \A i \in 1..Len(alerts) : alerts'[i] = alerts[i]
    BY <1>0, <2>1, NewAlertType, AppendAlert
  <2>3. NewAlert(r).entry = debit[r].entry /\ NewAlert(r).user = debit[r].user
    BY <2>1 DEF NewAlert, PurchaseInv, BuyerInv
  <2>4. PaidEntry(ledger, debit[r].entry, debit[r].user)
    BY <2>1 DEF EntriesInv, ChargedInv
  <2>5. \A i \in 1..Len(alerts') : i = Len(alerts) + 1 \/ i \in 1..Len(alerts)
    BY <1>0, <2>2
  <2>. QED
    BY <1>4, <2>1, <2>2, <2>3, <2>4, <2>5 DEF AlertPaid, PaidEntry
<1>7. ASSUME NEW i \in 1..Len(alerts), FanoutDone(i) PROVE AlertPaid'
  <2>1. alerts' = [alerts EXCEPT ![i].status = "SENT"]
    BY <1>7 DEF FanoutDone
  <2>. QED
    BY <1>0, <1>5, <2>1, SentAlert
<1>8. ASSUME UNCHANGED alerts PROVE AlertPaid'
  BY <1>5, <1>8
<1>. QED
  BY <1>6, <1>7, <1>8, OtherWalletAside DEF AlertNext, PurchaseNext, PurchaseStart, PurchaseCooldown, PurchaseDebit,
     PurchaseCharge, PurchaseEnqueue, PurchaseFail, CooldownEnds, ItemRecovered, alertVars, pvars

\* Every alert is paid by its buyer with one COMPLETED debit of the price that pays
\* for nothing else, for any number of purchases in flight, retries and crashes
\* (alerts.service.ts, purchaseAlert).  A client that used the key of a top-up for
\* an alert would be answered with the top-up's entry: debitForAlert looks a key up
\* whatever the entry is for.
THEOREM AlertsArePaid ==
    ASSUME KeysApart
    PROVE  PurchaseSpec => []AlertPaid
<1>1. PurchaseInit => EntriesInv /\ AlertPaid
  BY EntriesInit DEF PurchaseInit, AlertPaid
<1>2. WalletInv /\ PurchaseInv /\ EntriesInv /\ [AlertNext]_pvars => EntriesInv'
  BY WalletStepOrStutter, TopupKeysStep, KindsStep, ChargedStep DEF EntriesInv
<1>. QED
  BY <1>1, <1>2, AlertPaidStep, PurchaseInvariant, PTL DEF PurchaseSpec

-----------------------------------------------------------------------------
(* The cooldown *)

\* No two purchases for one item are between the cooldown check and the alert row.
PurchasesApart ==
    \A q, r \in Debits :
        /\ purchase[q].pc \in {"debit", "create"} /\ purchase[r].pc \in {"debit", "create"}
        /\ purchase[q].item = purchase[r].item
        => q = r

\* None of alerts l after the first n is of item x.
NoneRecent(l, n, x) == \A i \in n + 1 .. Len(l) : l[i].item # x

CooldownInv ==
    /\ CooldownRespected
    /\ \A r \in Debits :
          purchase[r].pc \in {"debit", "create"} => NoneRecent(alerts, expired, purchase[r].item)

\* A check that nobody overtakes is still true when the alert is created.
LEMMA CooldownStep ==
    ASSUME WalletInv, PurchaseInv, CooldownInv, PurchasesApart, [AlertNext]_pvars
    PROVE  CooldownInv'
<1>0. /\ alerts \in Seq(Alert) /\ Len(alerts) \in Nat /\ expired \in 0..Len(alerts)
      /\ purchase \in [Debits -> PurchaseRow]
  BY LenProperties DEF PurchaseInv, PurchaseTypeOK, PurchaseRow
<1>1. ASSUME Len(alerts') = Len(alerts), \A i \in 1..Len(alerts) : alerts'[i].item = alerts[i].item,
             expired' \in Nat, expired' >= expired,
             \A r \in Debits : purchase'[r].pc \in {"debit", "create"} =>
                purchase'[r].item = purchase[r].item
                /\ (purchase[r].pc \in {"debit", "create"} \/ NoneRecent(alerts, expired, purchase[r].item))
      PROVE  CooldownInv'
  <2>1. \A i \in expired' + 1 .. Len(alerts') : i \in expired + 1 .. Len(alerts) /\ i \in 1..Len(alerts)
    <3>1. expired \in Nat /\ Len(alerts) \in Nat
      BY <1>0
    <3>2. expired' \in Nat /\ expired' >= expired /\ Len(alerts') = Len(alerts)
      BY <1>1
    <3>3. PICK m \in Nat, n \in Nat, k \in Nat : m = expired /\ n = expired' /\ k = Len(alerts)
      BY <3>1, <3>2
    <3>4. n >= m
      BY <3>2, <3>3
    <3>5. \A i \in n + 1 .. k : i \in m + 1 .. k /\ i \in 1..k
      BY <3>4
    <3>. QED
      BY <3>2, <3>3, <3>5
  <2>2. CooldownRespected'
    BY <1>1, <2>1 DEF CooldownInv, CooldownRespected
  <2>3. ASSUME NEW x, NoneRecent(alerts, expired, x) PROVE NoneRecent(alerts', expired', x)
    BY <1>1, <2>1, <2>3 DEF NoneRecent
  <2>4. ASSUME NEW r \in Debits, purchase'[r].pc \in {"debit", "create"}
        PROVE  NoneRecent(alerts', expired', purchase'[r].item)
    <3>1. NoneRecent(alerts, expired, purchase[r].item) /\ purchase'[r].item = purchase[r].item
      BY <1>1, <2>4 DEF CooldownInv
    <3>. QED
      BY <2>3, <3>1
  <2>. QED
    BY <2>2, <2>4 DEF CooldownInv
<1>2. ASSUME NEW r \in Debits, PurchaseCreate(r) PROVE CooldownInv'
  <2>1. /\ alerts' = Append(alerts, NewAlert(r)) /\ purchase[r].pc = "create" /\ expired' = expired
        /\ purchase' = [purchase EXCEPT ![r] = [purchase[r] EXCEPT !.pc = "enqueue"]]
    BY <1>2 DEF PurchaseCreate
  <2>2. /\ Len(alerts') = Len(alerts) + 1 /\ alerts'[Len(alerts) + 1].item = purchase[r].item
        /\ \A i \in 1..Len(alerts) : alerts'[i] = alerts[i]
    BY <1>0, <2>1, NewAlertType, AppendAlert DEF NewAlert
  <2>3. \A i \in expired' + 1 .. Len(alerts') : i = Len(alerts) + 1 \/ i \in expired + 1 .. Len(alerts)
    BY <1>0, <2>1, <2>2
  <2>4. \A i \in expired + 1 .. Len(alerts) : i \in 1..Len(alerts) /\ alerts[i].item # purchase[r].item
    BY <1>0, <2>1 DEF CooldownInv, NoneRecent
  <2>5. CooldownRespected'
    BY <2>2, <2>3, <2>4 DEF CooldownInv, CooldownRespected
  <2>6. ASSUME NEW q \in Debits, purchase'[q].pc \in {"debit", "create"}
        PROVE  NoneRecent(alerts', expired', purchase'[q].item)
    <3>1. q # r
      BY <1>0, <2>1, <2>6 DEF PurchaseRow
    <3>2. purchase'[q] = purchase[q]
      BY <1>0, <2>1, <3>1
    <3>3. purchase[q].item # purchase[r].item
      BY <2>1, <2>6, <3>1, <3>2 DEF PurchasesApart
    <3>4. NoneRecent(alerts, expired, purchase[q].item)
      BY <2>6, <3>2 DEF CooldownInv
    <3>. QED
      BY <2>2, <2>3, <2>4, <3>2, <3>3, <3>4 DEF NoneRecent
  <2>. QED
    BY <2>5, <2>6 DEF CooldownInv
<1>3. ASSUME NEW i \in 1..Len(alerts), FanoutDone(i) PROVE CooldownInv'
  <2>1. alerts' = [alerts EXCEPT ![i].status = "SENT"] /\ UNCHANGED <<expired, purchase>>
    BY <1>3 DEF FanoutDone
  <2>2. Len(alerts') = Len(alerts) /\ \A j \in 1..Len(alerts) : alerts'[j].item = alerts[j].item
    BY <1>0, <2>1, SentAlert
  <2>. QED
    BY <1>0, <1>1, <2>1, <2>2
<1>4. ASSUME NEW r \in Debits,
             \/ \E req \in Requests : PurchaseStart(r, req[1], req[2], req[3])
             \/ PurchaseEnqueue(r) \/ PurchaseFail(r)
      PROVE  CooldownInv'
  <2>1. UNCHANGED <<alerts, expired>>
    BY <1>4 DEF PurchaseStart, PurchaseEnqueue, PurchaseFail
  <2>2. ASSUME NEW q \in Debits, purchase'[q].pc \in {"debit", "create"} PROVE purchase'[q] = purchase[q]
    BY <1>0, <1>4, <2>2 DEF PurchaseStart, PurchaseEnqueue, PurchaseFail, IdlePurchase
  <2>. QED
    BY <1>0, <1>1, <2>1, <2>2
<1>5. ASSUME NEW r \in Debits, PurchaseCooldown(r) \/ PurchaseDebit(r) PROVE CooldownInv'
  <2>1. /\ UNCHANGED <<alerts, expired>>
        /\ \/ purchase[r].pc = "cooldown" /\ NoneRecent(alerts, expired, purchase[r].item)
              /\ purchase' = [purchase EXCEPT ![r] = [purchase[r] EXCEPT !.pc = "debit"]]
           \/ purchase[r].pc = "debit"
              /\ purchase' = [purchase EXCEPT ![r] = [purchase[r] EXCEPT !.pc = "create"]]
    BY <1>5 DEF PurchaseCooldown, PurchaseDebit, RecentAlerts, NoneRecent
  <2>2. /\ [purchase[r] EXCEPT !.pc = "debit"].item = purchase[r].item
        /\ [purchase[r] EXCEPT !.pc = "create"].item = purchase[r].item
    BY PurchaseNextPc
  <2>3. ASSUME NEW q \in Debits, purchase'[q].pc \in {"debit", "create"}
        PROVE  /\ purchase'[q].item = purchase[q].item
               /\ purchase[q].pc \in {"debit", "create"} \/ NoneRecent(alerts, expired, purchase[q].item)
    BY <1>0, <2>1, <2>2, <2>3
  <2>. QED
    BY <1>0, <1>1, <2>1, <2>3
<1>6. CASE CooldownEnds
  BY <1>0, <1>1, <1>6 DEF CooldownEnds
<1>7. CASE UNCHANGED <<alerts, expired, purchase>>
  BY <1>0, <1>1, <1>7
<1>. QED
  BY <1>2, <1>3, <1>4, <1>5, <1>6, <1>7, OtherWalletAside
     DEF AlertNext, PurchaseNext, PurchaseCharge, ItemRecovered, alertVars, pvars

\* Only two purchases for one item that overtake each other between the check of
\* the cooldown and the alert row ever put two alerts into one window
\* (alerts.service.ts, enforceCooldown).
THEOREM CooldownBreaksOnlyInARace == PurchaseSpec /\ []PurchasesApart => []CooldownRespected
<1>1. PurchaseInit => CooldownInv
  BY DEF PurchaseInit, CooldownInv, CooldownRespected, IdlePurchase
<1>2. CooldownInv => CooldownRespected
  BY DEF CooldownInv
<1>. QED
  BY <1>1, <1>2, CooldownStep, PurchaseInvariant, PTL DEF PurchaseSpec

-----------------------------------------------------------------------------
(* The fan-out: one alert and the attempts to send it *)

\* The tokens that were reached so far.
ReachedBy(p) == {t \in Tokens : p[t] > 0}

\* What an attempt holds: its devices were read, one for a token; a token is left, reached or
\* failed; those it found dead are; those it told are told; and what it owes it has, or cannot.
AttemptOf(r, g, n, rd, m, reached) ==
    /\ r.dead \subseteq g
    /\ r.told \subseteq n
    /\ r.devices \subseteq rd
    /\ \A d, e \in r.devices : d[1] = e[1] => d = e
    /\ {d[1] : d \in r.devices} = r.ok \cup r.failed \cup r.rest
    /\ r.ok \cap r.failed = {} /\ r.ok \cap r.rest = {} /\ r.failed \cap r.rest = {}
    /\ r.ok \subseteq reached
    /\ \A d \in r.owed : d \in r.devices \/ d[1] \in g \cup m
    /\ r.pc \in {"invalidate", "notify", "update"} => r.rest = {}
    /\ r.pc = "update" => {d[2] : d \in r.devices} \subseteq r.told
    /\ r.pc \in {"idle", "alert", "devices"} =>
          r.devices = {} /\ r.ok = {} /\ r.failed = {} /\ r.dead = {} /\ r.told = {}

AttemptsInv == \A w \in Workers : AttemptOf(runner[w], gone, notified, read, moved, ReachedBy(pushes))

\* A row that is there is somebody's; what was read was of the university, and still is the
\* same user's unless the token moved.
DevicesInv ==
    /\ \A t \in Tokens :
          /\ device[t].status = "ABSENT" => device[t].user = NoOne
          /\ device[t].status = "ACTIVE" => device[t].user \in People
    /\ \A d \in read : TenantOf[d[2]] = Home /\ (device[d[1]].user = d[2] \/ d[1] \in moved)

Given == IF job.state = "failed" THEN 1 ELSE 0

\* Whatever is counted as redone used up an attempt or a stall, or gave the job up.
JobInv ==
    /\ redone \in Nat /\ redone <= job.tries + job.stalls + Given
    /\ job.state \in {"none", "waiting", "active"} => job.tries < Attempts

\* The attempts that may still push to a token.
Pushers(t, run, status) ==
    {w \in Workers :
        \/ run[w].pc = "alert" /\ status # "SENT"
        \/ run[w].pc = "devices"
        \/ run[w].pc = "send" /\ t \in run[w].rest}

\* And the attempt that is still to be taken.
ToTake(state, status) == IF state \in {"none", "waiting"} /\ status # "SENT" THEN 1 ELSE 0

\* A token is pushed to by one attempt that was not redone.
PushBudget ==
    \A t \in Tokens :
        pushes[t] + Cardinality(Pushers(t, runner, sentOut.status)) + ToTake(job.state, sentOut.status) <= 1 + redone

FanoutInv ==
    /\ FanTypeOK /\ AttemptsInv /\ DevicesInv /\ JobInv /\ PushBudget
    /\ sentOut.sent \in Nat
    /\ OutcomeIsRecorded /\ InvalidIsDead /\ TenantIsolation

-----------------------------------------------------------------------------

\* An attempt holds what it holds when more is read, told, reached or gone.
LEMMA AttemptStays ==
    ASSUME NEW r, NEW g, NEW n, NEW rd, NEW m, NEW x, AttemptOf(r, g, n, rd, m, x),
           NEW g2, NEW n2, NEW rd2, NEW m2, NEW x2,
           g \subseteq g2, n \subseteq n2, rd \subseteq rd2, m \subseteq m2, x \subseteq x2
    PROVE  AttemptOf(r, g2, n2, rd2, m2, x2)
BY DEF AttemptOf

\* There are finitely many attempts at a time.
LEMMA PushersAreFinite ==
    ASSUME NEW t, NEW run, NEW status
    PROVE  /\ IsFiniteSet(Pushers(t, run, status))
           /\ Cardinality(Pushers(t, run, status)) \in Nat
<1>1. Pushers(t, run, status) \subseteq Workers
  BY DEF Pushers
<1>2. IsFiniteSet(Workers)
  BY AlertFanoutAssumption
<1>3. IsFiniteSet(Pushers(t, run, status))
  BY <1>1, <1>2, FS_Subset
<1>. QED
  BY <1>3, FS_CardinalityType

\* Fewer attempts that may push are fewer pushes to come.
LEMMA FewerPushers ==
    ASSUME NEW t, NEW run, NEW status, NEW run2, NEW status2,
           Pushers(t, run2, status2) \subseteq Pushers(t, run, status)
    PROVE  Cardinality(Pushers(t, run2, status2)) <= Cardinality(Pushers(t, run, status))
BY PushersAreFinite, FS_Subset

\* Nothing about the pushes changes for the worse.
LEMMA BudgetStays ==
    ASSUME FanoutInv, UNCHANGED pushes, redone' \in Nat,
           \A t \in Tokens : Pushers(t, runner', sentOut'.status) \subseteq Pushers(t, runner, sentOut.status),
           ToTake(job'.state, sentOut'.status) + redone <= ToTake(job.state, sentOut.status) + redone'
    PROVE  PushBudget'
<1> SUFFICES ASSUME NEW t \in Tokens
             PROVE  pushes[t] + Cardinality(Pushers(t, runner', sentOut'.status)) + ToTake(job'.state, sentOut'.status)
                        <= 1 + redone'
  BY DEF PushBudget
<1>1. Cardinality(Pushers(t, runner', sentOut'.status)) <= Cardinality(Pushers(t, runner, sentOut.status))
  BY FewerPushers
<1>2. /\ Cardinality(Pushers(t, runner', sentOut'.status)) \in Nat
      /\ Cardinality(Pushers(t, runner, sentOut.status)) \in Nat
  BY PushersAreFinite
<1>3. /\ ToTake(job'.state, sentOut'.status) \in Nat /\ ToTake(job.state, sentOut.status) \in Nat
      /\ redone \in Nat /\ pushes[t] \in Nat
  BY DEF ToTake, FanoutInv, JobInv, FanTypeOK
<1>4. pushes[t] + Cardinality(Pushers(t, runner, sentOut.status)) + ToTake(job.state, sentOut.status) <= 1 + redone
  BY DEF FanoutInv, PushBudget
<1>. QED
  BY <1>1, <1>2, <1>3, <1>4

\* The initial states have the invariant.
LEMMA FanoutInitInv == FanoutInit => FanoutInv
<1> SUFFICES ASSUME FanoutInit PROVE FanoutInv
  OBVIOUS
<1>1. \A w \in Workers : runner[w] = Idle
  BY DEF FanoutInit
<1>2. FanTypeOK
  BY AlertFanoutAssumption DEF FanoutInit, FanTypeOK, Device, Job, Runner, Idle
<1>3. AttemptsInv
  BY <1>1 DEF AttemptsInv, AttemptOf, Idle
<1>4. DevicesInv /\ JobInv
  BY AlertFanoutAssumption DEF FanoutInit, DevicesInv, JobInv, Given
<1>5. PushBudget
  <2>1. \A t \in Tokens : Pushers(t, runner, sentOut.status) = {}
    BY <1>1 DEF Pushers, Idle
  <2>2. \A t \in Tokens : Cardinality(Pushers(t, runner, sentOut.status)) = 0
    BY <2>1, FS_EmptySet
  <2>3. \A t \in Tokens : pushes[t] = 0
    BY DEF FanoutInit
  <2>4. redone = 0 /\ ToTake(job.state, sentOut.status) = 1
    BY DEF FanoutInit, ToTake
  <2>. QED
    BY <2>2, <2>3, <2>4 DEF PushBudget
<1>6. sentOut.sent \in Nat /\ OutcomeIsRecorded /\ InvalidIsDead /\ TenantIsolation
  BY DEF FanoutInit, OutcomeIsRecorded, EveryoneIsTold, CountsAddUp, InvalidIsDead, TenantIsolation
<1>. QED
  BY <1>2, <1>3, <1>4, <1>5, <1>6 DEF FanoutInv

\* Devices come and go without touching the alert.
LEMMA RegisterDeviceInv ==
    ASSUME FanoutInv, NEW u \in People, NEW t \in Tokens, RegisterDevice(u, t)
    PROVE  FanoutInv'
<1> DEFINE new == [user |-> u, status |-> "ACTIVE"]
<1> USE DEF FanoutInv
<1>1. /\ device' = [device EXCEPT ![t] = new] /\ new \in Device
      /\ UNCHANGED <<gone, job, runner, sentOut, notified, pushes, redone, read, strangers>>
  BY DEF RegisterDevice, Device
<1>2. /\ device' \in [Tokens -> Device] /\ device'[t] = new
      /\ \A s \in Tokens : s # t => device'[s] = device[s]
  BY <1>1 DEF FanTypeOK
<1>3. /\ moved \subseteq moved'
      /\ \A v \in People : v # u /\ <<t, v>> \in read => t \in moved'
  BY DEF RegisterDevice
<1>4. new.user = u /\ new.status = "ACTIVE"
  OBVIOUS
<1> HIDE DEF new
<1>5. FanTypeOK'
  BY <1>1, <1>2 DEF FanTypeOK
<1>6. AttemptsInv'
  BY <1>1, <1>3, AttemptStays DEF AttemptsInv
<1>7. DevicesInv'
  <2>1. \A s \in Tokens : /\ device'[s].status = "ABSENT" => device'[s].user = NoOne
                          /\ device'[s].status = "ACTIVE" => device'[s].user \in People
    BY <1>2, <1>4 DEF DevicesInv
  <2>2. ASSUME NEW d \in read
        PROVE  TenantOf[d[2]] = Home /\ (device'[d[1]].user = d[2] \/ d[1] \in moved')
    <3>1. d[1] \in Tokens /\ d[2] \in People /\ d = <<d[1], d[2]>>
      BY DEF FanTypeOK
    <3>2. TenantOf[d[2]] = Home /\ (device[d[1]].user = d[2] \/ d[1] \in moved)
      BY DEF DevicesInv
    <3>3. CASE d[1] = t
      BY <1>2, <1>3, <1>4, <3>1, <3>2, <3>3
    <3>4. CASE d[1] # t
      BY <1>2, <1>3, <3>1, <3>2, <3>4
    <3>. QED
      BY <3>3, <3>4
  <2>. QED
    BY <1>1, <2>1, <2>2 DEF DevicesInv
<1>8. JobInv' /\ PushBudget' /\ sentOut'.sent \in Nat
  BY <1>1 DEF JobInv, Given, PushBudget
<1>9. OutcomeIsRecorded'
  BY <1>1, <1>3 DEF OutcomeIsRecorded, EveryoneIsTold, CountsAddUp
<1>10. InvalidIsDead' /\ TenantIsolation'
  BY <1>1, <1>2, <1>3, <1>4 DEF InvalidIsDead, TenantIsolation
<1>. QED
  BY <1>5, <1>6, <1>7, <1>8, <1>9, <1>10

\* An app that is gone changes nothing the server knows.
LEMMA UninstallInv ==
    ASSUME FanoutInv, NEW t \in Tokens, Uninstall(t)
    PROVE  FanoutInv'
<1> USE DEF FanoutInv
<1>1. gone' = gone \cup {t} /\ UNCHANGED <<device, job, runner, sentOut, notified, pushes, redone, read, moved, strangers>>
  BY DEF Uninstall
<1>2. FanTypeOK'
  BY <1>1 DEF FanTypeOK
<1>3. AttemptsInv'
  BY <1>1, AttemptStays DEF AttemptsInv
<1>4. DevicesInv' /\ JobInv' /\ PushBudget' /\ sentOut'.sent \in Nat
  BY <1>1 DEF DevicesInv, JobInv, Given, PushBudget
<1>5. OutcomeIsRecorded' /\ InvalidIsDead' /\ TenantIsolation'
  BY <1>1 DEF OutcomeIsRecorded, EveryoneIsTold, CountsAddUp, InvalidIsDead, TenantIsolation
<1>. QED
  BY <1>2, <1>3, <1>4, <1>5

\* Adding the job.
LEMMA EnqueueInv ==
    ASSUME FanoutInv, Enqueue
    PROVE  FanoutInv'
<1> USE DEF FanoutInv
<1>1. /\ job.state = "none" /\ job \in Job /\ job' = [job EXCEPT !.state = "waiting"]
      /\ UNCHANGED <<device, gone, runner, sentOut, notified, pushes, redone, read, moved, strangers>>
  BY DEF Enqueue, FanTypeOK
<1>2. job' \in Job /\ job'.state = "waiting" /\ job'.holder = job.holder /\ job'.tries = job.tries /\ job'.stalls = job.stalls
  BY <1>1 DEF Job
<1>3. FanTypeOK'
  BY <1>1, <1>2 DEF FanTypeOK
<1>4. AttemptsInv' /\ DevicesInv' /\ sentOut'.sent \in Nat
  BY <1>1 DEF AttemptsInv, DevicesInv
<1>5. JobInv' /\ PushBudget'
  BY <1>1, <1>2 DEF JobInv, Given, PushBudget, ToTake
<1>6. OutcomeIsRecorded' /\ InvalidIsDead' /\ TenantIsolation'
  BY <1>1 DEF OutcomeIsRecorded, EveryoneIsTold, CountsAddUp, InvalidIsDead, TenantIsolation
<1>. QED
  BY <1>3, <1>4, <1>5, <1>6

\* What a step of one worker leaves to the others.
LEMMA OneRunner ==
    ASSUME FanoutInv, NEW w \in Workers, NEW row \in Runner, runner' = [runner EXCEPT ![w] = row],
           AttemptOf(row, gone', notified', read', moved', ReachedBy(pushes')),
           gone \subseteq gone', notified \subseteq notified', read \subseteq read', moved \subseteq moved',
           ReachedBy(pushes) \subseteq ReachedBy(pushes')
    PROVE  /\ runner' \in [Workers -> Runner] /\ runner'[w] = row
           /\ \A v \in Workers : v # w => runner'[v] = runner[v]
           /\ AttemptsInv'
<1>1. /\ runner' \in [Workers -> Runner] /\ runner'[w] = row
      /\ \A v \in Workers : v # w => runner'[v] = runner[v]
  BY DEF FanoutInv, FanTypeOK
<1>2. ASSUME NEW v \in Workers
      PROVE  AttemptOf(runner'[v], gone', notified', read', moved', ReachedBy(pushes'))
  <2>1. CASE v = w
    BY <1>1, <2>1
  <2>2. CASE v # w
    <3>1. AttemptOf(runner[v], gone, notified, read, moved, ReachedBy(pushes))
      BY DEF FanoutInv, AttemptsInv
    <3>2. AttemptOf(runner[v], gone', notified', read', moved', ReachedBy(pushes'))
      BY <3>1, AttemptStays
    <3>. QED
      BY <1>1, <2>2, <3>2
  <2>. QED
    BY <2>1, <2>2
<1>. QED
  BY <1>1, <1>2 DEF AttemptsInv

\* TakeFanout keeps the invariant.
LEMMA TakeFanoutInv ==
    ASSUME FanoutInv, NEW w \in Workers, TakeFanout(w)
    PROVE  FanoutInv'
<1> DEFINE row == [Idle EXCEPT !.pc = "alert"]
<1> USE DEF FanoutInv
<1>1. /\ job.state = "waiting" /\ job \in Job /\ job' = [job EXCEPT !.state = "active", !.holder = w]
      /\ runner[w] = Idle
      /\ UNCHANGED <<device, gone, sentOut, notified, pushes, redone, read, moved, strangers>>
  BY DEF TakeFanout, FanTypeOK
<1>2. runner' = [runner EXCEPT ![w] = row]
  BY <1>1 DEF TakeFanout, FanTypeOK, Idle
<1>3. /\ row \in Runner /\ row.pc = "alert"
      /\ AttemptOf(row, gone, notified, read, moved, ReachedBy(pushes))
  BY DEF Runner, Idle, AttemptOf
<1> HIDE DEF row
<1>4. /\ runner' \in [Workers -> Runner] /\ runner'[w] = row
      /\ \A v \in Workers : v # w => runner'[v] = runner[v]
      /\ AttemptsInv'
  BY <1>1, <1>2, <1>3, OneRunner
<1>5. job' \in Job /\ job'.state = "active" /\ job'.holder = w /\ job'.tries = job.tries /\ job'.stalls = job.stalls
  BY <1>1 DEF Job
<1>6. FanTypeOK'
  BY <1>1, <1>4, <1>5, AlertFanoutAssumption DEF FanTypeOK
<1>7. DevicesInv' /\ sentOut'.sent \in Nat /\ JobInv'
  BY <1>1, <1>5 DEF DevicesInv, JobInv, Given
<1>8. PushBudget'
  <2>1. CASE sentOut.status = "SENT"
    <3>1. \A t \in Tokens : Pushers(t, runner', sentOut'.status) \subseteq Pushers(t, runner, sentOut.status)
      BY <1>1, <1>3, <1>4, <2>1 DEF Pushers
    <3>2. ToTake(job'.state, sentOut'.status) = ToTake(job.state, sentOut.status) /\ redone' = redone /\ redone \in Nat
      BY <1>1, <1>5, <2>1 DEF ToTake, JobInv
    <3>. QED
      BY <1>1, <3>1, <3>2, BudgetStays DEF ToTake
  <2>2. CASE sentOut.status # "SENT"
    <3> SUFFICES ASSUME NEW t \in Tokens
                 PROVE  pushes[t] + Cardinality(Pushers(t, runner', sentOut.status)) + ToTake(job'.state, sentOut.status)
                            <= 1 + redone
      BY <1>1 DEF PushBudget
    <3>1. Pushers(t, runner', sentOut.status) = Pushers(t, runner, sentOut.status) \cup {w}
      BY <1>3, <1>4, <2>2 DEF Pushers
    <3>2. Cardinality(Pushers(t, runner', sentOut.status)) <= Cardinality(Pushers(t, runner, sentOut.status)) + 1
      <4>1. IsFiniteSet(Pushers(t, runner, sentOut.status)) /\ Cardinality(Pushers(t, runner, sentOut.status)) \in Nat
        BY PushersAreFinite
      <4>2. Cardinality(Pushers(t, runner, sentOut.status) \cup {w})
               = IF w \in Pushers(t, runner, sentOut.status) THEN Cardinality(Pushers(t, runner, sentOut.status))
                 ELSE Cardinality(Pushers(t, runner, sentOut.status)) + 1
        BY <4>1, FS_AddElement
      <4>. QED
        BY <3>1, <4>1, <4>2
    <3>3. /\ Cardinality(Pushers(t, runner', sentOut.status)) \in Nat
          /\ Cardinality(Pushers(t, runner, sentOut.status)) \in Nat
      BY PushersAreFinite
    <3>4. ToTake(job'.state, sentOut.status) = 0 /\ ToTake(job.state, sentOut.status) = 1
      BY <1>1, <1>5, <2>2 DEF ToTake
    <3>5. pushes[t] + Cardinality(Pushers(t, runner, sentOut.status)) + ToTake(job.state, sentOut.status) <= 1 + redone
      BY DEF PushBudget
    <3>6. pushes[t] \in Nat /\ redone \in Nat
      BY DEF FanTypeOK, JobInv
    <3>. QED
      BY <3>2, <3>3, <3>4, <3>5, <3>6
  <2>. QED
    BY <2>1, <2>2
<1>9. OutcomeIsRecorded' /\ InvalidIsDead' /\ TenantIsolation'
  BY <1>1 DEF OutcomeIsRecorded, EveryoneIsTold, CountsAddUp, InvalidIsDead, TenantIsolation
<1>. QED
  BY <1>4, <1>6, <1>7, <1>8, <1>9

\* A worker that stops: nothing it holds is left.
LEMMA Stopped ==
    ASSUME FanoutInv, NEW w \in Workers, runner' = [runner EXCEPT ![w] = Idle],
           UNCHANGED <<gone, sentOut, notified, pushes, read, moved>>
    PROVE  /\ runner' \in [Workers -> Runner] /\ AttemptsInv'
           /\ \A t \in Tokens : Pushers(t, runner', sentOut'.status) \subseteq Pushers(t, runner, sentOut.status)
<1>1. Idle \in Runner /\ AttemptOf(Idle, gone, notified, read, moved, ReachedBy(pushes))
  BY DEF Runner, Idle, AttemptOf
<1>2. Idle.pc = "idle"
  BY DEF Idle
<1>3. /\ runner' \in [Workers -> Runner] /\ runner'[w] = Idle
      /\ \A v \in Workers : v # w => runner'[v] = runner[v]
      /\ AttemptsInv'
  BY <1>1, OneRunner
<1>4. \A t \in Tokens : Pushers(t, runner', sentOut'.status) \subseteq Pushers(t, runner, sentOut.status)
  BY <1>2, <1>3 DEF Pushers
<1>. QED
  BY <1>3, <1>4

\* The parts of the invariant that read none of the queue's state.
LEMMA RestStays ==
    ASSUME FanoutInv, UNCHANGED <<device, gone, sentOut, notified, pushes, read, moved, strangers>>
    PROVE  /\ DevicesInv' /\ sentOut'.sent \in Nat
           /\ OutcomeIsRecorded' /\ InvalidIsDead' /\ TenantIsolation'
BY DEF FanoutInv, DevicesInv, OutcomeIsRecorded, EveryoneIsTold, CountsAddUp, InvalidIsDead, TenantIsolation

\* What an attempt that ends before the alert is SENT costs.
LEMMA RedoneIsPaid ==
    ASSUME FanoutInv, NEW j \in Job, redone' = Redone, job' = j,
           job.state = "active",
           \/ /\ j.tries = job.tries + 1 /\ j.stalls = job.stalls
              /\ j.state = IF job.tries + 1 < Attempts THEN "waiting" ELSE "failed"
           \/ /\ j.tries = job.tries /\ j.stalls = job.stalls + 1 /\ j.state = "waiting"
           \/ /\ j.tries = job.tries /\ j.stalls = job.stalls /\ j.state = "failed"
    PROVE  /\ JobInv' /\ redone' \in 0..Attempts + MaxStalled + 1
           /\ ToTake(job'.state, sentOut.status) + redone <= ToTake(job.state, sentOut.status) + redone'
<1>1. /\ redone \in Nat /\ job.tries \in Nat /\ job.stalls \in Nat /\ job.tries < Attempts /\ job.state # "failed"
      /\ redone <= job.tries + job.stalls + 0
      /\ Attempts \in Nat /\ MaxStalled \in Nat
  BY AlertFanoutAssumption DEF FanoutInv, JobInv, FanTypeOK, Job, Given
<1>2. j.tries \in 0..Attempts /\ j.stalls \in 0..MaxStalled
  BY DEF Job
<1>3. /\ redone' \in Nat /\ redone' <= redone + 1 /\ redone <= redone'
      /\ sentOut.status # "SENT" => redone' = redone + 1
  BY <1>1 DEF Redone
<1>4. redone' <= j.tries + j.stalls + (IF j.state = "failed" THEN 1 ELSE 0)
  <2>1. /\ j.tries \in Nat /\ j.stalls \in Nat
        /\ job.tries + job.stalls + 1 <= j.tries + j.stalls + (IF j.state = "failed" THEN 1 ELSE 0)
    BY <1>1, <1>2
  <2>. QED
    BY <1>1, <1>3, <2>1
<1>5. JobInv'
  BY <1>1, <1>2, <1>3, <1>4 DEF JobInv, Given
<1>6. redone' \in 0..Attempts + MaxStalled + 1
  BY <1>1, <1>2, <1>3, <1>4
<1>7. ToTake(job'.state, sentOut.status) + redone <= ToTake(job.state, sentOut.status) + redone'
  BY <1>1, <1>3 DEF ToTake
<1>. QED
  BY <1>5, <1>6, <1>7

\* AttemptFails keeps the invariant.
LEMMA AttemptFailsInv ==
    ASSUME FanoutInv, NEW w \in Workers, AttemptFails(w)
    PROVE  FanoutInv'
<1> USE DEF FanoutInv
<1>1. /\ runner' = [runner EXCEPT ![w] = Idle]
      /\ UNCHANGED <<device, gone, sentOut, notified, pushes, read, moved, strangers>>
  BY DEF AttemptFails
<1>2. /\ runner' \in [Workers -> Runner] /\ AttemptsInv'
      /\ \A t \in Tokens : Pushers(t, runner', sentOut'.status) \subseteq Pushers(t, runner, sentOut.status)
  BY <1>1, Stopped
<1>3. DevicesInv' /\ sentOut'.sent \in Nat /\ OutcomeIsRecorded' /\ InvalidIsDead' /\ TenantIsolation'
  BY <1>1, RestStays
<1>4. /\ job' \in Job /\ JobInv' /\ redone' \in 0..Attempts + MaxStalled + 1
      /\ job'.state = "active" <=> job'.holder # NoOne
      /\ ToTake(job'.state, sentOut.status) + redone <= ToTake(job.state, sentOut.status) + redone'
  <2>1. CASE job.holder = w
    <3> DEFINE j == [job EXCEPT !.state = IF Tries < Attempts THEN "waiting" ELSE "failed",
                                !.holder = NoOne, !.tries = Tries]
    <3>1. job \in Job /\ job.state = "active" /\ job.tries < Attempts /\ Attempts \in Nat /\ job.tries \in Nat
      BY <2>1, AlertFanoutAssumption DEF FanTypeOK, Job, JobInv
    <3>2. job' = j /\ redone' = Redone
      BY <2>1 DEF AttemptFails
    <3>3. /\ j \in Job /\ j.tries = job.tries + 1 /\ j.stalls = job.stalls /\ j.holder = NoOne
          /\ j.state = IF job.tries + 1 < Attempts THEN "waiting" ELSE "failed"
      <4>1. Tries = job.tries + 1 /\ job.tries + 1 \in 0..Attempts
        BY <3>1 DEF Tries
      <4>. QED
        BY <3>1, <4>1 DEF Job
    <3> HIDE DEF j
    <3>4. /\ JobInv' /\ redone' \in 0..Attempts + MaxStalled + 1
          /\ ToTake(job'.state, sentOut.status) + redone <= ToTake(job.state, sentOut.status) + redone'
      BY <3>1, <3>2, <3>3, RedoneIsPaid
    <3>. QED
      BY <3>2, <3>3, <3>4
  <2>2. CASE job.holder # w
    <3>1. job' = job /\ redone' = redone
      BY <2>2 DEF AttemptFails
    <3>. QED
      BY <1>1, <3>1 DEF FanTypeOK, JobInv, Given, ToTake
  <2>. QED
    BY <2>1, <2>2
<1>5. FanTypeOK'
  BY <1>1, <1>2, <1>4 DEF FanTypeOK
<1>6. PushBudget'
  BY <1>1, <1>2, <1>4, BudgetStays DEF JobInv
<1>. QED
  BY <1>2, <1>3, <1>4, <1>5, <1>6

\* WorkerDies keeps the invariant.
LEMMA WorkerDiesInv ==
    ASSUME FanoutInv, NEW w \in Workers, WorkerDies(w)
    PROVE  FanoutInv'
<1> USE DEF FanoutInv
<1>1. /\ runner' = [runner EXCEPT ![w] = Idle]
      /\ UNCHANGED <<device, gone, job, sentOut, notified, pushes, redone, read, moved, strangers>>
  BY DEF WorkerDies
<1>2. /\ runner' \in [Workers -> Runner] /\ AttemptsInv'
      /\ \A t \in Tokens : Pushers(t, runner', sentOut'.status) \subseteq Pushers(t, runner, sentOut.status)
  BY <1>1, Stopped
<1>3. DevicesInv' /\ sentOut'.sent \in Nat /\ OutcomeIsRecorded' /\ InvalidIsDead' /\ TenantIsolation'
  BY <1>1, RestStays
<1>4. FanTypeOK' /\ JobInv'
  BY <1>1, <1>2 DEF FanTypeOK, JobInv, Given
<1>5. PushBudget'
  <2>1. /\ redone' = redone /\ redone \in Nat
        /\ ToTake(job'.state, sentOut'.status) = ToTake(job.state, sentOut.status)
        /\ ToTake(job.state, sentOut.status) \in Nat
    BY <1>1 DEF JobInv, ToTake
  <2>2. ToTake(job'.state, sentOut'.status) + redone <= ToTake(job.state, sentOut.status) + redone'
    BY <2>1
  <2>3. UNCHANGED pushes
    BY <1>1
  <2>. QED
    BY <1>2, <2>1, <2>2, <2>3, BudgetStays
<1>. QED
  BY <1>2, <1>3, <1>4, <1>5

\* Stalled keeps the invariant.
LEMMA StalledInv ==
    ASSUME FanoutInv, Stalled
    PROVE  FanoutInv'
<1> USE DEF FanoutInv
<1>1. /\ job.state = "active" /\ job \in Job /\ redone' = Redone
      /\ UNCHANGED <<device, gone, runner, sentOut, notified, pushes, read, moved, strangers>>
  BY DEF Stalled, FanTypeOK
<1>2. DevicesInv' /\ sentOut'.sent \in Nat /\ OutcomeIsRecorded' /\ InvalidIsDead' /\ TenantIsolation'
  BY <1>1, RestStays
<1>3. /\ job' \in Job /\ JobInv' /\ redone' \in 0..Attempts + MaxStalled + 1
      /\ job'.state # "active" /\ job'.holder = NoOne
      /\ ToTake(job'.state, sentOut.status) + redone <= ToTake(job.state, sentOut.status) + redone'
  <2>1. CASE job.stalls < MaxStalled
    <3> DEFINE j == [job EXCEPT !.state = "waiting", !.holder = NoOne, !.stalls = @ + 1]
    <3>1. job' = j
      BY <2>1 DEF Stalled
    <3>2. j \in Job /\ j.tries = job.tries /\ j.stalls = job.stalls + 1 /\ j.state = "waiting" /\ j.holder = NoOne
      <4>1. job.stalls + 1 \in 0..MaxStalled
        BY <1>1, <2>1, AlertFanoutAssumption DEF Job
      <4>. QED
        BY <1>1, <4>1 DEF Job
    <3> HIDE DEF j
    <3>. QED
      BY <1>1, <3>1, <3>2, RedoneIsPaid
  <2>2. CASE ~(job.stalls < MaxStalled)
    <3> DEFINE j == [job EXCEPT !.state = "failed", !.holder = NoOne]
    <3>1. job' = j
      BY <2>2 DEF Stalled
    <3>2. j \in Job /\ j.tries = job.tries /\ j.stalls = job.stalls /\ j.state = "failed" /\ j.holder = NoOne
      BY <1>1 DEF Job
    <3> HIDE DEF j
    <3>. QED
      BY <1>1, <3>1, <3>2, RedoneIsPaid
  <2>. QED
    BY <2>1, <2>2
<1>4. FanTypeOK'
  BY <1>1, <1>3 DEF FanTypeOK
<1>5. AttemptsInv'
  BY <1>1 DEF AttemptsInv
<1>6. PushBudget'
  BY <1>1, <1>3, BudgetStays DEF JobInv
<1>. QED
  BY <1>2, <1>3, <1>4, <1>5, <1>6

\* A step of process() that leaves the queue, the devices and the outcome alone.
LEMMA ProcessStep ==
    ASSUME FanoutInv, NEW w \in Workers, NEW row \in Runner, runner' = [runner EXCEPT ![w] = row],
           AttemptOf(row, gone, notified, read', moved, ReachedBy(pushes)), read \subseteq read',
           row.pc = "devices" => runner[w].pc = "devices" \/ (runner[w].pc = "alert" /\ sentOut.status # "SENT"),
           row.pc # "alert",
           row.pc = "send" => runner[w].pc = "devices" \/ (runner[w].pc = "send" /\ row.rest \subseteq runner[w].rest),
           UNCHANGED <<gone, job, sentOut, notified, pushes, redone, moved>>
    PROVE  /\ runner' \in [Workers -> Runner] /\ AttemptsInv' /\ PushBudget' /\ JobInv'
<1>1. /\ runner' \in [Workers -> Runner] /\ runner'[w] = row
      /\ \A v \in Workers : v # w => runner'[v] = runner[v]
      /\ AttemptsInv'
  BY OneRunner
<1>2. \A t \in Tokens : Pushers(t, runner', sentOut'.status) \subseteq Pushers(t, runner, sentOut.status)
  BY <1>1 DEF Pushers
<1>3. PushBudget'
  <2>1. /\ redone' = redone /\ redone \in Nat
        /\ ToTake(job'.state, sentOut'.status) = ToTake(job.state, sentOut.status)
        /\ ToTake(job.state, sentOut.status) \in Nat
    BY DEF FanoutInv, JobInv, ToTake
  <2>2. ToTake(job'.state, sentOut'.status) + redone <= ToTake(job.state, sentOut.status) + redone'
    BY <2>1
  <2>3. UNCHANGED pushes
    BY <1>1
  <2>. QED
    BY <1>2, <2>1, <2>2, <2>3, BudgetStays
<1>4. JobInv'
  BY DEF FanoutInv, JobInv, Given
<1>. QED
  BY <1>1, <1>3, <1>4

\* ReadAlert keeps the invariant.
LEMMA ReadAlertInv ==
    ASSUME FanoutInv, NEW w \in Workers, ReadAlert(w)
    PROVE  FanoutInv'
<1> DEFINE row == [runner[w] EXCEPT !.pc = AfterAlert]
<1> USE DEF FanoutInv
<1>1. /\ runner[w] \in Runner /\ runner[w].pc = "alert"
      /\ UNCHANGED <<device, gone, job, sentOut, notified, pushes, redone, read, moved, strangers>>
      /\ AttemptOf(runner[w], gone, notified, read, moved, ReachedBy(pushes))
  BY DEF ReadAlert, FanTypeOK, AttemptsInv
<1>2. runner' = [runner EXCEPT ![w] = row]
  BY <1>1 DEF ReadAlert, FanTypeOK, Runner
<1>3. /\ row \in Runner /\ row.pc = AfterAlert
      /\ row.devices = runner[w].devices /\ row.rest = runner[w].rest /\ row.ok = runner[w].ok
      /\ row.failed = runner[w].failed /\ row.dead = runner[w].dead /\ row.told = runner[w].told
      /\ row.owed = runner[w].owed
  BY <1>1 DEF Runner, AfterAlert
<1> HIDE DEF row
<1>4. AttemptOf(row, gone, notified, read, moved, ReachedBy(pushes))
  BY <1>1, <1>3 DEF AttemptOf, AfterAlert
<1>5. runner' \in [Workers -> Runner] /\ AttemptsInv' /\ PushBudget' /\ JobInv'
  BY <1>1, <1>2, <1>3, <1>4, ProcessStep DEF AfterAlert
<1>6. DevicesInv' /\ sentOut'.sent \in Nat /\ OutcomeIsRecorded' /\ InvalidIsDead' /\ TenantIsolation'
  BY <1>1, RestStays
<1>7. FanTypeOK'
  BY <1>1, <1>5 DEF FanTypeOK
<1>. QED
  BY <1>5, <1>6, <1>7

\* The devices an attempt finds are those of the university, and whoever was read before is
\* among them unless the token is dead or another user's.
LEMMA ReadDevicesInv ==
    ASSUME FanoutInv, NEW w \in Workers, ReadDevices(w)
    PROVE  FanoutInv'
<1> DEFINE found == {<<t, device[t].user>> : t \in EligibleDevices}
<1> DEFINE row == [runner[w] EXCEPT !.pc = "send", !.devices = found, !.rest = EligibleDevices,
                                    !.owed = read \cup found]
<1> USE DEF FanoutInv
<1>1. /\ runner[w] \in Runner /\ runner[w].pc = "devices" /\ read' = read \cup found
      /\ UNCHANGED <<device, gone, job, sentOut, notified, pushes, redone, moved, strangers>>
      /\ AttemptOf(runner[w], gone, notified, read, moved, ReachedBy(pushes))
  BY DEF ReadDevices, FanTypeOK, AttemptsInv
<1>2. runner' = [runner EXCEPT ![w] = row]
  BY <1>1 DEF ReadDevices, FanTypeOK, Runner
<1>3. EligibleDevices \subseteq Tokens /\ found \subseteq Tokens \X People /\ read \subseteq Tokens \X People
  BY DEF EligibleDevices, DevicesInv, FanTypeOK
<1>4. \A d \in found : d[1] \in EligibleDevices /\ d[2] = device[d[1]].user
  OBVIOUS
<1>5. \A t \in EligibleDevices : \E d \in found : d[1] = t /\ d = <<t, device[t].user>>
  OBVIOUS
<1>6. \A d \in read : d \in found \/ d[1] \in gone \cup moved
  <2> SUFFICES ASSUME NEW d \in read, d[1] \notin moved, d[1] \notin gone PROVE d \in found
    OBVIOUS
  <2>1. d[1] \in Tokens /\ d[2] \in People /\ d = <<d[1], d[2]>>
    BY <1>3
  <2>2. TenantOf[d[2]] = Home /\ device[d[1]].user = d[2]
    BY DEF DevicesInv
  <2>3. device[d[1]].status = "ACTIVE"
    BY <2>1, <2>2, AlertFanoutAssumption DEF DevicesInv, InvalidIsDead, FanTypeOK, Device
  <2>4. d[1] \in EligibleDevices
    BY <2>1, <2>2, <2>3 DEF EligibleDevices
  <2>. QED
    BY <2>1, <2>2, <2>4
<1> HIDE DEF found
<1>7. /\ row \in Runner /\ row.pc = "send" /\ row.devices = found /\ row.rest = EligibleDevices
      /\ row.ok = runner[w].ok /\ row.failed = runner[w].failed /\ row.dead = runner[w].dead
      /\ row.told = runner[w].told /\ row.owed = read \cup found
  BY <1>1, <1>3 DEF Runner
<1> HIDE DEF row
<1>8. AttemptOf(row, gone, notified, read', moved, ReachedBy(pushes))
  <2>1. /\ row.ok = {} /\ row.failed = {} /\ row.dead = {} /\ row.told = {}
    BY <1>1, <1>7 DEF AttemptOf
  <2>2. {d[1] : d \in row.devices} = row.ok \cup row.failed \cup row.rest
    BY <1>4, <1>5, <1>7, <2>1
  <2>3. \A d, e \in row.devices : d[1] = e[1] => d = e
    BY <1>3, <1>4, <1>7
  <2>4. \A d \in row.owed : d \in row.devices \/ d[1] \in gone \cup moved
    BY <1>6, <1>7
  <2>. QED
    BY <1>1, <1>7, <2>1, <2>2, <2>3, <2>4 DEF AttemptOf
<1>9. runner' \in [Workers -> Runner] /\ AttemptsInv' /\ PushBudget' /\ JobInv'
  BY <1>1, <1>2, <1>7, <1>8, ProcessStep
<1>10. DevicesInv'
  <2>1. \A d \in found : TenantOf[d[2]] = Home /\ device[d[1]].user = d[2]
    BY <1>4 DEF EligibleDevices
  <2>. QED
    BY <1>1, <2>1 DEF DevicesInv
<1>11. sentOut'.sent \in Nat /\ OutcomeIsRecorded' /\ InvalidIsDead' /\ TenantIsolation'
  BY <1>1 DEF OutcomeIsRecorded, EveryoneIsTold, CountsAddUp, InvalidIsDead, TenantIsolation
<1>12. FanTypeOK'
  BY <1>1, <1>3, <1>9 DEF FanTypeOK
<1>. QED
  BY <1>9, <1>10, <1>11, <1>12

\* One device for a token: as many devices as tokens.
LEMMA DevicesAreTokens ==
    ASSUME NEW D, NEW T, IsFiniteSet(T), T = {d[1] : d \in D}, \A d, e \in D : d[1] = e[1] => d = e
    PROVE  IsFiniteSet(D) /\ Cardinality(D) = Cardinality(T)
<1> DEFINE f == [t \in T |-> CHOOSE d \in D : d[1] = t]
<1> DEFINE h == [d \in D |-> d[1]]
<1>1. \A t \in T : f[t] \in D /\ f[t][1] = t
  OBVIOUS
<1>2. f \in Surjection(T, D)
  <2>1. f \in [T -> D]
    BY <1>1
  <2>2. \A d \in D : d[1] \in T /\ f[d[1]] = d
    BY <1>1
  <2>. QED
    BY <2>1, <2>2 DEF Surjection
<1>3. IsFiniteSet(D) /\ Cardinality(D) <= Cardinality(T)
  BY <1>2, FS_Surjection
<1>4. h \in Surjection(D, T)
  BY DEF Surjection
<1>5. Cardinality(T) <= Cardinality(D)
  BY <1>3, <1>4, FS_Surjection
<1>6. Cardinality(T) \in Nat /\ Cardinality(D) \in Nat
  BY <1>3, FS_CardinalityType
<1>. QED
  BY <1>3, <1>5, <1>6

\* One call to the provider: it reaches some of the batch, and counts as reached only those.
LEMMA SendBatchInv ==
    ASSUME FanoutInv, NEW w \in Workers, SendBatch(w)
    PROVE  FanoutInv'
<1> USE DEF FanoutInv
<1>1. /\ runner[w] \in Runner /\ runner[w].pc = "send"
      /\ UNCHANGED <<device, gone, job, sentOut, notified, redone, read, moved>>
      /\ AttemptOf(runner[w], gone, notified, read, moved, ReachedBy(pushes))
  BY DEF SendBatch, FanTypeOK, AttemptsInv
<1>2. PICK b \in Batches(runner[w].rest), answered \in BOOLEAN : \E delivered \in SUBSET (b \ gone) :
         LET results == ResultsOf(b, delivered, answered)
         IN  /\ runner' = [runner EXCEPT ![w].rest = @ \ b, ![w].ok = @ \cup results.ok,
                                         ![w].failed = @ \cup results.failed,
                                         ![w].dead = @ \cup results.dead]
             /\ pushes' = [t \in Tokens |-> IF t \in delivered THEN pushes[t] + 1 ELSE pushes[t]]
             /\ strangers' = strangers \cup {t \in delivered : TenantOf[device[t].user] # Home}
  BY DEF SendBatch
<1> DEFINE results(d) == ResultsOf(b, d, answered)
<1>3. PICK delivered \in SUBSET (b \ gone) :
         /\ runner' = [runner EXCEPT ![w].rest = @ \ b, ![w].ok = @ \cup results(delivered).ok,
                                     ![w].failed = @ \cup results(delivered).failed,
                                     ![w].dead = @ \cup results(delivered).dead]
         /\ pushes' = [t \in Tokens |-> IF t \in delivered THEN pushes[t] + 1 ELSE pushes[t]]
         /\ strangers' = strangers \cup {t \in delivered : TenantOf[device[t].user] # Home}
  BY <1>2
<1> DEFINE res == results(delivered)
<1>4. /\ b \subseteq runner[w].rest
      /\ res.ok \cup res.failed = b /\ res.ok \cap res.failed = {}
      /\ res.ok \subseteq delivered /\ res.dead \subseteq gone /\ res.dead \subseteq b
  BY DEF Batches, ResultsOf
<1> HIDE DEF results
<1> DEFINE row == [runner[w] EXCEPT !.rest = @ \ b, !.ok = @ \cup res.ok, !.failed = @ \cup res.failed,
                                    !.dead = @ \cup res.dead]
<1>5. runner' = [runner EXCEPT ![w] = row]
  BY <1>1, <1>3 DEF FanTypeOK, Runner
<1> HIDE DEF res
<1>6. /\ row \in Runner /\ row.pc = "send" /\ row.devices = runner[w].devices
      /\ row.rest = runner[w].rest \ b /\ row.ok = runner[w].ok \cup res.ok
      /\ row.failed = runner[w].failed \cup res.failed /\ row.dead = runner[w].dead \cup res.dead
      /\ row.told = runner[w].told /\ row.owed = runner[w].owed
  BY <1>1, <1>4 DEF Runner
<1> HIDE DEF row
<1>7. b \subseteq Tokens /\ delivered \subseteq b /\ pushes \in [Tokens -> Nat]
  BY <1>1, <1>4 DEF Runner, FanTypeOK
<1>8. /\ pushes' \in [Tokens -> Nat]
      /\ \A t \in Tokens : pushes'[t] = IF t \in delivered THEN pushes[t] + 1 ELSE pushes[t]
  BY <1>3, <1>7
<1>9. ReachedBy(pushes) \subseteq ReachedBy(pushes') /\ delivered \subseteq ReachedBy(pushes')
  BY <1>7, <1>8 DEF ReachedBy
<1>10. AttemptOf(row, gone', notified', read', moved', ReachedBy(pushes'))
  <2>1. /\ {d[1] : d \in row.devices} = row.ok \cup row.failed \cup row.rest
        /\ row.ok \cap row.failed = {} /\ row.ok \cap row.rest = {} /\ row.failed \cap row.rest = {}
    BY <1>1, <1>4, <1>6 DEF AttemptOf
  <2>2. row.ok \subseteq ReachedBy(pushes') /\ row.dead \subseteq gone
    BY <1>1, <1>4, <1>6, <1>9 DEF AttemptOf
  <2>. QED
    BY <1>1, <1>6, <2>1, <2>2 DEF AttemptOf
<1>11. /\ runner' \in [Workers -> Runner] /\ runner'[w] = row
       /\ \A v \in Workers : v # w => runner'[v] = runner[v]
       /\ AttemptsInv'
  BY <1>1, <1>5, <1>6, <1>9, <1>10, OneRunner
<1>12. FanTypeOK'
  BY <1>1, <1>8, <1>11 DEF FanTypeOK
<1>13. DevicesInv' /\ JobInv' /\ sentOut'.sent \in Nat /\ InvalidIsDead'
  BY <1>1 DEF DevicesInv, JobInv, Given, InvalidIsDead
<1>14. PushBudget'
  <2> SUFFICES ASSUME NEW t \in Tokens
               PROVE  pushes'[t] + Cardinality(Pushers(t, runner', sentOut.status)) + ToTake(job.state, sentOut.status)
                          <= 1 + redone
    BY <1>1 DEF PushBudget
  <2> DEFINE P == Pushers(t, runner, sentOut.status)
  <2> DEFINE Q == Pushers(t, runner', sentOut.status)
  <2>1. /\ IsFiniteSet(P) /\ Cardinality(P) \in Nat /\ Cardinality(Q) \in Nat
        /\ ToTake(job.state, sentOut.status) \in Nat /\ redone \in Nat /\ pushes[t] \in Nat
        /\ pushes[t] + Cardinality(P) + ToTake(job.state, sentOut.status) <= 1 + redone
    BY <1>7, PushersAreFinite DEF ToTake, JobInv, PushBudget
  <2>2. Q \subseteq P
    BY <1>1, <1>6, <1>11 DEF Pushers
  <2>3. t \in delivered => w \in P /\ w \notin Q
    BY <1>1, <1>4, <1>6, <1>7, <1>11 DEF Pushers
  <2> HIDE DEF P, Q
  <2>4. CASE t \in delivered
    <3>1. IsFiniteSet(P \ {w}) /\ Cardinality(P \ {w}) = Cardinality(P) - 1
      BY <2>1, <2>3, <2>4, FS_RemoveElement
    <3>2. Cardinality(Q) <= Cardinality(P \ {w})
      BY <2>2, <2>3, <2>4, <3>1, FS_Subset
    <3>3. pushes'[t] = pushes[t] + 1
      BY <1>8, <2>4
    <3>4. pushes'[t] + Cardinality(Q) + ToTake(job.state, sentOut.status) <= 1 + redone
      BY <2>1, <3>1, <3>2, <3>3
    <3>. QED
      BY <3>4 DEF Q
  <2>5. CASE t \notin delivered
    <3>1. Cardinality(Q) <= Cardinality(P)
      BY <2>1, <2>2, FS_Subset
    <3>2. pushes'[t] = pushes[t]
      BY <1>8, <2>5
    <3>3. pushes'[t] + Cardinality(Q) + ToTake(job.state, sentOut.status) <= 1 + redone
      BY <2>1, <3>1, <3>2
    <3>. QED
      BY <3>3 DEF Q
  <2>. QED
    BY <2>4, <2>5
<1>15. OutcomeIsRecorded'
  <2>1. EveryoneIsTold'
    BY <1>1 DEF OutcomeIsRecorded, EveryoneIsTold
  <2>2. /\ IsFiniteSet(ReachedBy(pushes')) /\ Cardinality(ReachedBy(pushes')) \in Nat
        /\ Cardinality(ReachedBy(pushes)) \in Nat /\ Cardinality(ReachedBy(pushes)) <= Cardinality(ReachedBy(pushes'))
    BY <1>9, AlertFanoutAssumption, FS_Subset, FS_CardinalityType DEF ReachedBy
  <2>3. CountsAddUp'
    BY <1>1, <2>2 DEF OutcomeIsRecorded, CountsAddUp, ReachedBy
  <2>. QED
    BY <2>1, <2>3 DEF OutcomeIsRecorded
<1>16. TenantIsolation'
  <2>1. ASSUME NEW t \in delivered, TenantOf[device[t].user] # Home
        PROVE  t \in moved
    <3>1. t \in {d[1] : d \in runner[w].devices}
      BY <1>1, <1>4 DEF AttemptOf
    <3>2. PICK d \in runner[w].devices : t = d[1]
      BY <3>1
    <3>3. d \in read
      BY <1>1 DEF AttemptOf
    <3>. QED
      BY <2>1, <3>2, <3>3 DEF DevicesInv
  <2>. QED
    BY <1>1, <1>3, <2>1 DEF TenantIsolation
<1>. QED
  BY <1>11, <1>12, <1>13, <1>14, <1>15, <1>16

\* AllSent keeps the invariant.
LEMMA AllSentInv ==
    ASSUME FanoutInv, NEW w \in Workers, AllSent(w)
    PROVE  FanoutInv'
<1> DEFINE row == [runner[w] EXCEPT !.pc = "invalidate", !.dead = runner[w].dead]
<1> USE DEF FanoutInv
<1>1. /\ runner[w] \in Runner /\ runner[w].pc = "send" /\ runner[w].rest = {}
      /\ UNCHANGED <<device, gone, job, sentOut, notified, pushes, redone, read, moved, strangers>>
      /\ AttemptOf(runner[w], gone, notified, read, moved, ReachedBy(pushes))
  BY DEF AllSent, FanTypeOK, AttemptsInv
<1>2. runner' = [runner EXCEPT ![w] = row]
  BY <1>1 DEF AllSent, Invalidated, FanTypeOK, Runner
<1>3. /\ row \in Runner /\ row.pc = "invalidate"
      /\ row.devices = runner[w].devices /\ row.rest = runner[w].rest /\ row.ok = runner[w].ok
      /\ row.failed = runner[w].failed /\ row.dead = runner[w].dead /\ row.told = runner[w].told
      /\ row.owed = runner[w].owed
  BY <1>1 DEF Runner
<1> HIDE DEF row
<1>4. AttemptOf(row, gone, notified, read, moved, ReachedBy(pushes))
  BY <1>1, <1>3 DEF AttemptOf
<1>5. runner' \in [Workers -> Runner] /\ AttemptsInv' /\ PushBudget' /\ JobInv'
  BY <1>1, <1>2, <1>3, <1>4, ProcessStep
<1>6. DevicesInv' /\ sentOut'.sent \in Nat /\ OutcomeIsRecorded' /\ InvalidIsDead' /\ TenantIsolation'
  BY <1>1, RestStays
<1>7. FanTypeOK'
  BY <1>1, <1>5 DEF FanTypeOK
<1>. QED
  BY <1>5, <1>6, <1>7

\* MarkTokenInvalid keeps the invariant.
LEMMA MarkTokenInvalidInv ==
    ASSUME FanoutInv, NEW w \in Workers, MarkTokenInvalid(w)
    PROVE  FanoutInv'
<1> USE DEF FanoutInv
<1>1. /\ runner[w] \in Runner /\ runner[w].pc = "invalidate"
      /\ UNCHANGED <<gone, job, sentOut, notified, pushes, redone, read, moved, strangers>>
      /\ AttemptOf(runner[w], gone, notified, read, moved, ReachedBy(pushes))
  BY DEF MarkTokenInvalid, FanTypeOK, AttemptsInv
<1>2. CASE runner[w].dead = {}
  <2> DEFINE row == [runner[w] EXCEPT !.pc = "notify"]
  <2>1. runner' = [runner EXCEPT ![w] = row] /\ UNCHANGED device
    BY <1>1, <1>2 DEF MarkTokenInvalid, FanTypeOK, Runner
  <2>2. /\ row \in Runner /\ row.pc = "notify"
        /\ row.devices = runner[w].devices /\ row.rest = runner[w].rest /\ row.ok = runner[w].ok
        /\ row.failed = runner[w].failed /\ row.dead = runner[w].dead /\ row.told = runner[w].told
        /\ row.owed = runner[w].owed
    BY <1>1 DEF Runner
  <2> HIDE DEF row
  <2>3. AttemptOf(row, gone, notified, read, moved, ReachedBy(pushes))
    BY <1>1, <2>2 DEF AttemptOf
  <2>4. runner' \in [Workers -> Runner] /\ AttemptsInv' /\ PushBudget' /\ JobInv'
    BY <1>1, <2>1, <2>2, <2>3, ProcessStep
  <2>5. DevicesInv' /\ sentOut'.sent \in Nat /\ OutcomeIsRecorded' /\ InvalidIsDead' /\ TenantIsolation'
    BY <1>1, <2>1, RestStays
  <2>6. FanTypeOK'
    BY <1>1, <2>1, <2>4 DEF FanTypeOK
  <2>. QED
    BY <2>4, <2>5, <2>6
<1>3. CASE runner[w].dead # {}
  <2>1. PICK t \in runner[w].dead : /\ device' = [device EXCEPT ![t].status = "INVALID"]
                                    /\ runner' = [runner EXCEPT ![w].dead = @ \ {t}]
    BY <1>3 DEF MarkTokenInvalid
  <2> DEFINE row == [runner[w] EXCEPT !.dead = @ \ {t}]
  <2>2. runner' = [runner EXCEPT ![w] = row]
    BY <1>1, <2>1 DEF FanTypeOK, Runner
  <2>3. /\ row \in Runner /\ row.pc = "invalidate"
        /\ row.devices = runner[w].devices /\ row.rest = runner[w].rest /\ row.ok = runner[w].ok
        /\ row.failed = runner[w].failed /\ row.dead = runner[w].dead \ {t} /\ row.told = runner[w].told
        /\ row.owed = runner[w].owed
    BY <1>1 DEF Runner
  <2> HIDE DEF row
  <2>4. AttemptOf(row, gone, notified, read, moved, ReachedBy(pushes))
    BY <1>1, <2>3 DEF AttemptOf
  <2>5. runner' \in [Workers -> Runner] /\ AttemptsInv' /\ PushBudget' /\ JobInv'
    BY <1>1, <2>2, <2>3, <2>4, ProcessStep
  <2>6. t \in Tokens /\ t \in gone /\ device[t] \in Device /\ device \in [Tokens -> Device]
    BY <1>1 DEF Runner, AttemptOf, FanTypeOK
  <2>7. /\ device' \in [Tokens -> Device]
        /\ device'[t].status = "INVALID" /\ device'[t].user = device[t].user
        /\ \A s \in Tokens : s # t => device'[s] = device[s]
    <3> DEFINE dev == [device[t] EXCEPT !.status = "INVALID"]
    <3>1. device' = [device EXCEPT ![t] = dev]
      BY <2>1, <2>6
    <3>2. dev \in Device /\ dev.status = "INVALID" /\ dev.user = device[t].user
      BY <2>6 DEF Device
    <3> HIDE DEF dev
    <3>. QED
      BY <2>6, <3>1, <3>2
  <2>8. DevicesInv' /\ InvalidIsDead'
    <3>1. \A s \in Tokens : /\ device'[s].user = device[s].user
                            /\ device'[s].status = device[s].status \/ (device'[s].status = "INVALID" /\ s \in gone)
      BY <2>6, <2>7
    <3>2. \A d \in read : d[1] \in Tokens
      BY DEF FanTypeOK
    <3>. QED
      BY <1>1, <3>1, <3>2 DEF DevicesInv, InvalidIsDead
  <2>9. sentOut'.sent \in Nat /\ OutcomeIsRecorded' /\ TenantIsolation'
    BY <1>1 DEF OutcomeIsRecorded, EveryoneIsTold, CountsAddUp, TenantIsolation
  <2>10. FanTypeOK'
    BY <1>1, <2>5, <2>7 DEF FanTypeOK
  <2>. QED
    BY <2>5, <2>8, <2>9, <2>10
<1>. QED
  BY <1>2, <1>3

\* NotifyRecipient keeps the invariant.
LEMMA NotifyRecipientInv ==
    ASSUME FanoutInv, NEW w \in Workers, NotifyRecipient(w)
    PROVE  FanoutInv'
<1> USE DEF FanoutInv
<1>1. /\ runner[w] \in Runner /\ runner[w].pc = "notify"
      /\ UNCHANGED <<device, gone, job, sentOut, pushes, redone, read, moved, strangers>>
      /\ AttemptOf(runner[w], gone, notified, read, moved, ReachedBy(pushes))
  BY DEF NotifyRecipient, FanTypeOK, AttemptsInv
<1>2. CASE Recipients(w) \subseteq runner[w].told
  <2> DEFINE row == [runner[w] EXCEPT !.pc = "update"]
  <2>1. runner' = [runner EXCEPT ![w] = row] /\ UNCHANGED notified
    BY <1>1, <1>2 DEF NotifyRecipient, FanTypeOK, Runner
  <2>2. /\ row \in Runner /\ row.pc = "update"
        /\ row.devices = runner[w].devices /\ row.rest = runner[w].rest /\ row.ok = runner[w].ok
        /\ row.failed = runner[w].failed /\ row.dead = runner[w].dead /\ row.told = runner[w].told
        /\ row.owed = runner[w].owed
    BY <1>1 DEF Runner
  <2> HIDE DEF row
  <2>3. AttemptOf(row, gone, notified, read, moved, ReachedBy(pushes))
    BY <1>1, <1>2, <2>2 DEF AttemptOf, Recipients
  <2>4. runner' \in [Workers -> Runner] /\ AttemptsInv' /\ PushBudget' /\ JobInv'
    BY <1>1, <2>1, <2>2, <2>3, ProcessStep
  <2>5. DevicesInv' /\ sentOut'.sent \in Nat /\ OutcomeIsRecorded' /\ InvalidIsDead' /\ TenantIsolation'
    BY <1>1, <2>1, RestStays
  <2>6. FanTypeOK'
    BY <1>1, <2>1, <2>4 DEF FanTypeOK
  <2>. QED
    BY <2>4, <2>5, <2>6
<1>3. CASE ~(Recipients(w) \subseteq runner[w].told)
  <2>1. PICK u \in Recipients(w) : /\ notified' = notified \cup {u}
                                   /\ runner' = [runner EXCEPT ![w].told = @ \cup {u}]
    BY <1>3 DEF NotifyRecipient
  <2> DEFINE row == [runner[w] EXCEPT !.told = @ \cup {u}]
  <2>2. runner' = [runner EXCEPT ![w] = row]
    BY <1>1, <2>1 DEF FanTypeOK, Runner
  <2>3. PICK d \in runner[w].devices : u = d[2]
    BY DEF Recipients
  <2>4. d \in read /\ u \in People /\ TenantOf[u] = Home
    BY <1>1, <2>3 DEF AttemptOf, FanTypeOK, DevicesInv
  <2>5. /\ row \in Runner /\ row.pc = "notify"
        /\ row.devices = runner[w].devices /\ row.rest = runner[w].rest /\ row.ok = runner[w].ok
        /\ row.failed = runner[w].failed /\ row.dead = runner[w].dead /\ row.told = runner[w].told \cup {u}
        /\ row.owed = runner[w].owed
    BY <1>1, <2>4 DEF Runner
  <2> HIDE DEF row
  <2>6. AttemptOf(row, gone', notified', read', moved', ReachedBy(pushes'))
    BY <1>1, <2>1, <2>5 DEF AttemptOf
  <2>7. /\ runner' \in [Workers -> Runner] /\ runner'[w] = row
        /\ \A v \in Workers : v # w => runner'[v] = runner[v]
        /\ AttemptsInv'
    BY <1>1, <2>1, <2>2, <2>5, <2>6, OneRunner
  <2>8. PushBudget'
    <3>1. \A t \in Tokens : Pushers(t, runner', sentOut'.status) \subseteq Pushers(t, runner, sentOut.status)
      BY <1>1, <2>5, <2>7 DEF Pushers
    <3>2. /\ redone' = redone /\ redone \in Nat /\ UNCHANGED pushes
          /\ ToTake(job'.state, sentOut'.status) = ToTake(job.state, sentOut.status)
          /\ ToTake(job.state, sentOut.status) \in Nat
      BY <1>1 DEF JobInv, ToTake
    <3>3. ToTake(job'.state, sentOut'.status) + redone <= ToTake(job.state, sentOut.status) + redone'
      BY <3>2
    <3>. QED
      BY <3>1, <3>2, <3>3, BudgetStays
  <2>9. DevicesInv' /\ JobInv' /\ InvalidIsDead' /\ sentOut'.sent \in Nat
    BY <1>1 DEF DevicesInv, JobInv, Given, InvalidIsDead
  <2>10. OutcomeIsRecorded' /\ TenantIsolation'
    BY <1>1, <2>1, <2>4 DEF OutcomeIsRecorded, EveryoneIsTold, CountsAddUp, TenantIsolation
  <2>11. FanTypeOK'
    BY <1>1, <2>1, <2>4, <2>7 DEF FanTypeOK
  <2>. QED
    BY <2>7, <2>8, <2>9, <2>10, <2>11
<1>. QED
  BY <1>2, <1>3

\* The alert becomes SENT with what this attempt did, whichever attempt it is.
LEMMA UpdateAlertInv ==
    ASSUME FanoutInv, NEW w \in Workers, UpdateAlert(w)
    PROVE  FanoutInv'
<1> DEFINE row == [runner[w] EXCEPT !.pc = "complete"]
<1> USE DEF FanoutInv
<1>1. /\ runner[w] \in Runner /\ runner[w].pc = "update"
      /\ UNCHANGED <<device, gone, job, notified, pushes, redone, read, moved, strangers>>
      /\ AttemptOf(runner[w], gone, notified, read, moved, ReachedBy(pushes))
  BY DEF UpdateAlert, FanTypeOK, AttemptsInv
<1>2. runner' = [runner EXCEPT ![w] = row]
  BY <1>1 DEF UpdateAlert, FanTypeOK, Runner
<1>3. /\ row \in Runner /\ row.pc = "complete"
      /\ row.devices = runner[w].devices /\ row.rest = runner[w].rest /\ row.ok = runner[w].ok
      /\ row.failed = runner[w].failed /\ row.dead = runner[w].dead /\ row.told = runner[w].told
      /\ row.owed = runner[w].owed
  BY <1>1 DEF Runner
<1> HIDE DEF row
<1>4. AttemptOf(row, gone', notified', read', moved', ReachedBy(pushes'))
  BY <1>1, <1>3 DEF AttemptOf
<1>5. /\ runner' \in [Workers -> Runner] /\ runner'[w] = row
      /\ \A v \in Workers : v # w => runner'[v] = runner[v]
      /\ AttemptsInv'
  BY <1>1, <1>2, <1>3, <1>4, OneRunner
<1>6. /\ sentOut'.status = "SENT" /\ sentOut'.eligible = Cardinality(runner[w].devices)
      /\ sentOut'.sent = Cardinality(runner[w].ok) /\ sentOut'.failed = Cardinality(runner[w].failed)
      /\ sentOut'.owed = runner[w].owed
  BY DEF UpdateAlert
<1>7. /\ IsFiniteSet(runner[w].ok) /\ IsFiniteSet(runner[w].failed) /\ IsFiniteSet(ReachedBy(pushes))
      /\ runner[w].ok \cap runner[w].failed = {} /\ runner[w].ok \subseteq ReachedBy(pushes)
  BY <1>1, AlertFanoutAssumption, FS_Subset DEF Runner, AttemptOf, ReachedBy
<1>8. /\ Cardinality(runner[w].ok) \in Nat /\ Cardinality(runner[w].failed) \in Nat
      /\ Cardinality(runner[w].ok) <= Cardinality(ReachedBy(pushes))
  BY <1>7, FS_CardinalityType, FS_Subset
<1>9. Cardinality(runner[w].ok) + Cardinality(runner[w].failed) = Cardinality(runner[w].devices)
  <2> DEFINE T == runner[w].ok \cup runner[w].failed
  <2>1. IsFiniteSet(T) /\ Cardinality(T) = Cardinality(runner[w].ok) + Cardinality(runner[w].failed)
    <3>1. IsFiniteSet(T) /\ Cardinality(T) = Cardinality(runner[w].ok) + Cardinality(runner[w].failed) - Cardinality({})
      BY <1>7, FS_Union
    <3>. QED
      BY <1>8, <3>1, FS_EmptySet
  <2>2. T = {d[1] : d \in runner[w].devices}
    BY <1>1 DEF AttemptOf
  <2>3. \A d, e \in runner[w].devices : d[1] = e[1] => d = e
    BY <1>1 DEF AttemptOf
  <2> HIDE DEF T
  <2>4. Cardinality(runner[w].devices) = Cardinality(T)
    BY <2>1, <2>2, <2>3, DevicesAreTokens
  <2>. QED
    BY <2>1, <2>4
<1>10. OutcomeIsRecorded' /\ sentOut'.sent \in Nat
  <2>1. EveryoneIsTold'
    <3> SUFFICES ASSUME NEW d \in runner[w].owed PROVE d[2] \in notified \/ d[1] \in gone \cup moved
      BY <1>1, <1>6 DEF EveryoneIsTold
    <3>1. d \in runner[w].devices => d[2] \in {e[2] : e \in runner[w].devices}
      OBVIOUS
    <3>. QED
      BY <1>1, <3>1 DEF AttemptOf
  <2>2. CountsAddUp'
    BY <1>1, <1>6, <1>8, <1>9 DEF CountsAddUp, ReachedBy
  <2>. QED
    BY <1>6, <1>8, <2>1, <2>2 DEF OutcomeIsRecorded
<1>11. DevicesInv' /\ JobInv' /\ InvalidIsDead' /\ TenantIsolation'
  BY <1>1 DEF DevicesInv, JobInv, Given, InvalidIsDead, TenantIsolation
<1>12. PushBudget'
  <2>1. \A t \in Tokens : Pushers(t, runner', sentOut'.status) \subseteq Pushers(t, runner, sentOut.status)
    BY <1>3, <1>5, <1>6 DEF Pushers
  <2>2. redone' = redone /\ redone \in Nat /\ UNCHANGED pushes
    BY <1>1 DEF JobInv
  <2>3. ToTake(job'.state, sentOut'.status) = 0 /\ ToTake(job.state, sentOut.status) \in Nat
    BY <1>6 DEF ToTake
  <2>4. ToTake(job'.state, sentOut'.status) + redone <= ToTake(job.state, sentOut.status) + redone'
    BY <2>2, <2>3
  <2>. QED
    BY <2>1, <2>2, <2>4, BudgetStays
<1>13. FanTypeOK'
  BY <1>1, <1>5 DEF FanTypeOK
<1>. QED
  BY <1>5, <1>10, <1>11, <1>12, <1>13

\* CompleteFanout keeps the invariant.
LEMMA CompleteFanoutInv ==
    ASSUME FanoutInv, NEW w \in Workers, CompleteFanout(w)
    PROVE  FanoutInv'
<1> USE DEF FanoutInv
<1>1. /\ runner' = [runner EXCEPT ![w] = Idle]
      /\ UNCHANGED <<device, gone, sentOut, notified, pushes, redone, read, moved, strangers>>
  BY DEF CompleteFanout
<1>2. /\ runner' \in [Workers -> Runner] /\ AttemptsInv'
      /\ \A t \in Tokens : Pushers(t, runner', sentOut'.status) \subseteq Pushers(t, runner, sentOut.status)
  BY <1>1, Stopped
<1>3. DevicesInv' /\ sentOut'.sent \in Nat /\ OutcomeIsRecorded' /\ InvalidIsDead' /\ TenantIsolation'
  BY <1>1, RestStays
<1>4. /\ job' \in Job /\ (job'.state = "active" <=> job'.holder # NoOne)
      /\ job'.tries = job.tries /\ job'.stalls = job.stalls
      /\ job' = job \/ (job.state = "active" /\ job'.state = "done")
  <2>1. job \in Job /\ (job.state = "active" <=> job.holder # NoOne)
    BY DEF FanTypeOK
  <2>2. CASE job.holder = w
    <3>1. job' = [job EXCEPT !.state = "done", !.holder = NoOne] /\ job.state = "active"
      BY <2>1, <2>2, AlertFanoutAssumption DEF CompleteFanout
    <3>. QED
      BY <2>1, <3>1 DEF Job
  <2>3. CASE job.holder # w
    BY <2>1, <2>3 DEF CompleteFanout
  <2>. QED
    BY <2>2, <2>3
<1>5. FanTypeOK'
  BY <1>1, <1>2, <1>4 DEF FanTypeOK
<1>6. JobInv'
  BY <1>1, <1>4 DEF JobInv, Given
<1>7. PushBudget'
  <2>1. redone' = redone /\ redone \in Nat /\ UNCHANGED pushes
    BY <1>1 DEF JobInv
  <2>2. ToTake(job'.state, sentOut'.status) = ToTake(job.state, sentOut.status) /\ ToTake(job.state, sentOut.status) \in Nat
    BY <1>1, <1>4 DEF ToTake
  <2>3. ToTake(job'.state, sentOut'.status) + redone <= ToTake(job.state, sentOut.status) + redone'
    BY <2>1, <2>2
  <2>. QED
    BY <1>2, <2>1, <2>3, BudgetStays
<1>. QED
  BY <1>2, <1>3, <1>5, <1>6, <1>7

\* What an attempt holds, what is still owed and how often a token may yet be pushed to.
THEOREM FanoutInvariant == FanoutSpec => []FanoutInv
<1>1. FanoutInit => FanoutInv
  BY FanoutInitInv
<1>2. FanoutInv /\ [FanoutNext]_fanoutVars => FanoutInv'
  <2> SUFFICES ASSUME FanoutInv, [FanoutNext]_fanoutVars PROVE FanoutInv'
    OBVIOUS
  <2>1. CASE DeviceSteps
    BY <2>1, UninstallInv, RegisterDeviceInv DEF DeviceSteps
  <2>2. CASE Enqueue
    BY <2>2, EnqueueInv
  <2>3. CASE Stalled
    BY <2>3, StalledInv
  <2>4. ASSUME NEW w \in Workers, TakeFanout(w) \/ WorkerStep(w) \/ AttemptFails(w) \/ WorkerDies(w)
        PROVE  FanoutInv'
    <3>1. CASE WorkerStep(w)
      BY <3>1, ReadAlertInv, ReadDevicesInv, SendBatchInv, AllSentInv, MarkTokenInvalidInv, NotifyRecipientInv,
         UpdateAlertInv, CompleteFanoutInv DEF WorkerStep
    <3>. QED
      BY <2>4, <3>1, TakeFanoutInv, AttemptFailsInv, WorkerDiesInv
  <2>5. CASE UNCHANGED fanoutVars
    <3>1. UNCHANGED <<device, gone, job, runner, sentOut, notified, pushes, redone, read, moved, strangers>>
      BY <2>5 DEF fanoutVars
    <3>2. FanTypeOK' /\ AttemptsInv' /\ JobInv' /\ PushBudget'
      BY <3>1 DEF FanoutInv, FanTypeOK, AttemptsInv, JobInv, Given, PushBudget
    <3>3. DevicesInv' /\ sentOut'.sent \in Nat /\ OutcomeIsRecorded' /\ InvalidIsDead' /\ TenantIsolation'
      BY <3>1, RestStays
    <3>. QED
      BY <3>2, <3>3 DEF FanoutInv
  <2>. QED
    BY <2>1, <2>2, <2>3, <2>4, <2>5 DEF FanoutNext
<1>. QED
  BY <1>1, <1>2, PTL DEF FanoutSpec

\* What an alert's row says of its fan-out is what happened to its devices, whatever worker died,
\* stalled or tried again (alert-fanout.processor.ts, fcm.provider.ts).
THEOREM OutcomeIsTrue == FanoutSpec => []OutcomeIsRecorded
BY FanoutInvariant, PTL DEF FanoutInv

\* A device gets an alert twice only after an attempt that failed or was given up, and only a
\* device of a recipient gets one.
THEOREM NobodyIsPushedToForNothing == FanoutSpec => []PushesAreJustified
<1>1. FanoutInv => PushesAreJustified
  <2> SUFFICES ASSUME FanoutInv PROVE PushedAgainAfterFailureOnly
    BY DEF FanoutInv, PushesAreJustified
  <2> SUFFICES ASSUME NEW t \in Tokens PROVE pushes[t] <= 1 + redone
    BY DEF PushedAgainAfterFailureOnly
  <2>1. Cardinality(Pushers(t, runner, sentOut.status)) \in Nat
    BY PushersAreFinite
  <2>2. ToTake(job.state, sentOut.status) \in Nat /\ redone \in Nat /\ pushes[t] \in Nat
    BY DEF ToTake, FanoutInv, JobInv, FanTypeOK
  <2>3. pushes[t] + Cardinality(Pushers(t, runner, sentOut.status)) + ToTake(job.state, sentOut.status) <= 1 + redone
    BY DEF FanoutInv, PushBudget
  <2>. QED
    BY <2>1, <2>2, <2>3
<1>. QED
  BY <1>1, FanoutInvariant, PTL

\* Devices, the job and its attempts keep their shape (alert-fanout.processor.ts).
THEOREM FanoutTypes == FanoutSpec => []FanTypeOK
BY FanoutInvariant, PTL DEF FanoutInv

-----------------------------------------------------------------------------
(* The wallet page and the payments of its visitor *)

\* What the page remembers of one top-up.
TopupRow == [phase: {"new", "posting", "loading", "open", "ended"}, mount: Nat,
             paid: BOOLEAN, credited: BOOLEAN, late: BOOLEAN]

PanelStateInv ==
    /\ payment \in [Payments -> TopupRow]
    /\ script \in [element: {"none", "loading", "loaded", "failed"}, razorpay: BOOLEAN]
    /\ page \in [mount: Nat, message: BOOLEAN, error: BOOLEAN]
    /\ query \in [shown: SUBSET Payments, fetch: {"idle", "sent", "read"}, read: SUBSET Payments]
    /\ timers \in Nat

\* A top-up belongs to a mount that has been, and a visit has one at a time.
OneAtATime ==
    /\ \A k \in Payments : payment[k].phase # "new" => payment[k].mount \in 1..page.mount
    /\ \A k \in Payments : payment[k].phase = "new" => payment[k].mount = 0
    /\ \A j, k \in Payments :
          /\ OnScreen(j) /\ payment[j].phase \in Waiting \cup {"open"}
          /\ OnScreen(k) /\ payment[k].phase \in Waiting \cup {"open"}
          => j = k

\* What the last fetch read is what the page will show.
ReadInv == timers = 0 /\ query.fetch = "read" => Credited \ unseen \subseteq query.read

PanelInv == PanelStateInv /\ PanelTypeOK /\ OneAtATime /\ ReadInv /\ PanelIsTruthful

\* The initial states have the invariant.
LEMMA PanelInitInv == PanelInit => PanelInv
<1> SUFFICES ASSUME PanelInit PROVE PanelInv
  OBVIOUS
<1>1. \A k \in Payments : payment[k] = [phase |-> "new", mount |-> 0, paid |-> FALSE, credited |-> FALSE, late |-> FALSE]
  BY DEF PanelInit
<1>2. PanelStateInv
  BY DEF PanelInit, PanelStateInv, TopupRow
<1>3. PanelTypeOK
  BY <1>1, WalletPanelAssumption DEF PanelInit, PanelTypeOK
<1>4. OneAtATime
  BY <1>1 DEF PanelInit, OneAtATime, Waiting
<1>5. ReadInv /\ PanelIsTruthful
  BY <1>1 DEF PanelInit, ReadInv, PanelIsTruthful, MessageIsOfThisPayment, PaidIsShown, Credited
<1>. QED
  BY <1>2, <1>3, <1>4, <1>5 DEF PanelInv

\* What an action that changes one top-up leaves.
LEMMA OneTopup ==
    ASSUME PanelInv, NEW k \in Payments, NEW row \in TopupRow, payment' = [payment EXCEPT ![k] = row]
    PROVE  /\ payment' \in [Payments -> TopupRow] /\ payment'[k] = row
           /\ \A j \in Payments : j # k => payment'[j] = payment[j]
BY DEF PanelInv, PanelStateInv

\* StartTopup keeps the invariant.
LEMMA StartTopupInv ==
    ASSUME PanelInv, NEW k \in Payments, StartTopup(k)
    PROVE  PanelInv'
<1> DEFINE row == [payment[k] EXCEPT !.phase = "posting", !.mount = page.mount]
<1> USE DEF PanelInv
<1>1. payment[k] \in TopupRow /\ page \in [mount: Nat, message: BOOLEAN, error: BOOLEAN]
  BY DEF PanelStateInv
<1>2. /\ row \in TopupRow /\ row.phase = "posting" /\ row.mount = page.mount
      /\ row.paid = payment[k].paid /\ row.credited = payment[k].credited
  BY <1>1 DEF TopupRow
<1>3. payment' = [payment EXCEPT ![k] = row] /\ UNCHANGED <<script, query, timers, unseen>>
  BY <1>1 DEF StartTopup, PanelStateInv, TopupRow
<1> HIDE DEF row
<1>4. /\ payment' \in [Payments -> TopupRow] /\ payment'[k] = row
      /\ \A j \in Payments : j # k => payment'[j] = payment[j]
  BY <1>2, <1>3, OneTopup
<1>5. page' \in [mount: Nat, message: BOOLEAN, error: BOOLEAN] /\ page'.mount = page.mount /\ ~page'.message
  BY <1>1 DEF StartTopup, Cleared
<1>6. PanelStateInv' /\ PanelTypeOK'
  BY <1>1, <1>2, <1>3, <1>4, <1>5 DEF PanelStateInv, PanelTypeOK
<1>7. MayStart /\ page.mount \in 1..MaxMounts
  BY DEF StartTopup, PanelTypeOK
<1>8. OneAtATime'
  BY <1>1, <1>2, <1>4, <1>5, <1>7, WalletPanelAssumption DEF OneAtATime, MayStart, OnScreen, Waiting
<1>9. Credited' = Credited
  BY <1>2, <1>4 DEF Credited
<1>10. ReadInv' /\ PanelIsTruthful'
  BY <1>3, <1>5, <1>9 DEF ReadInv, PanelIsTruthful, MessageIsOfThisPayment, PaidIsShown
<1>. QED
  BY <1>6, <1>8, <1>10

\* A step of one top-up that is answered, paid, dismissed or refused: it keeps its mount, it
\* starts nothing, and nothing is credited.
LEMMA TopupGoesOn ==
    ASSUME PanelInv, NEW k \in Payments, NEW row \in TopupRow,
           payment' = [payment EXCEPT ![k] = row],
           payment[k].phase \in Waiting \cup {"open"},
           row.phase # "new", row.mount = payment[k].mount,
           payment[k].paid => row.paid, row.credited = payment[k].credited,
           page' \in [mount: Nat, message: BOOLEAN, error: BOOLEAN], page'.mount = page.mount,
           timers' \in Nat, timers' = 0 => timers = 0,
           UNCHANGED <<query, unseen>>
    PROVE  /\ payment' \in [Payments -> TopupRow] /\ payment'[k] = row
           /\ \A j \in Payments : j # k => payment'[j] = payment[j]
           /\ OneAtATime' /\ ReadInv' /\ PaidIsShown'
           /\ page'.mount \in 1..MaxMounts
<1> USE DEF PanelInv
<1>1. /\ payment' \in [Payments -> TopupRow] /\ payment'[k] = row
      /\ \A j \in Payments : j # k => payment'[j] = payment[j]
  BY OneTopup
<1>2. OneAtATime'
  BY <1>1 DEF OneAtATime, OnScreen, Waiting, PanelStateInv, TopupRow
<1>3. Credited' = Credited
  BY <1>1 DEF Credited
<1>4. ReadInv' /\ PaidIsShown'
  BY <1>3 DEF ReadInv, PanelIsTruthful, PaidIsShown
<1>. QED
  BY <1>1, <1>2, <1>4 DEF PanelTypeOK

\* OrderFails keeps the invariant.
LEMMA OrderFailsInv ==
    ASSUME PanelInv, NEW k \in Payments, OrderFails(k)
    PROVE  PanelInv'
<1> DEFINE row == [payment[k] EXCEPT !.phase = "ended"]
<1> USE DEF PanelInv
<1>1. payment[k] \in TopupRow /\ page \in [mount: Nat, message: BOOLEAN, error: BOOLEAN]
  BY DEF PanelStateInv
<1>2. /\ row \in TopupRow /\ row.phase = "ended" /\ row.mount = payment[k].mount
      /\ row.paid = payment[k].paid /\ row.credited = payment[k].credited
  BY <1>1 DEF TopupRow
<1>3. /\ payment' = [payment EXCEPT ![k] = row] /\ UNCHANGED <<script, query, timers, unseen>>
      /\ payment[k].phase = "posting"
  BY <1>1 DEF OrderFails, PanelStateInv, TopupRow
<1> HIDE DEF row
<1>4. /\ page' \in [mount: Nat, message: BOOLEAN, error: BOOLEAN] /\ page'.mount = page.mount
      /\ (page' = page /\ ~OnScreen(k)) \/ ~page'.message
  BY <1>1 DEF OrderFails, Notice
<1>5. timers \in Nat
  BY DEF PanelStateInv
<1>6. /\ payment' \in [Payments -> TopupRow] /\ payment'[k] = row
      /\ \A j \in Payments : j # k => payment'[j] = payment[j]
      /\ OneAtATime' /\ ReadInv' /\ PaidIsShown' /\ page'.mount \in 1..MaxMounts
  BY <1>2, <1>3, <1>4, <1>5, TopupGoesOn DEF Waiting
<1>7. PanelStateInv' /\ PanelTypeOK'
  BY <1>1, <1>2, <1>3, <1>4, <1>6 DEF PanelStateInv, PanelTypeOK
<1>8. MessageIsOfThisPayment'
  BY <1>2, <1>3, <1>4, <1>6 DEF PanelIsTruthful, MessageIsOfThisPayment, OnScreen, Waiting
<1>. QED
  BY <1>6, <1>7, <1>8 DEF PanelIsTruthful

\* OrderAnswered keeps the invariant.
LEMMA OrderAnsweredInv ==
    ASSUME PanelInv, NEW k \in Payments, OrderAnswered(k)
    PROVE  PanelInv'
<1> DEFINE row == [payment[k] EXCEPT !.phase = IF Ready THEN "open" ELSE "loading",
                                     !.late = ~script.razorpay /\ script.element \in {"loaded", "failed"}]
<1> USE DEF PanelInv
<1>1. /\ payment[k] \in TopupRow /\ page \in [mount: Nat, message: BOOLEAN, error: BOOLEAN] /\ timers \in Nat
      /\ script \in [element: {"none", "loading", "loaded", "failed"}, razorpay: BOOLEAN]
  BY DEF PanelStateInv
<1>2. /\ row \in TopupRow /\ row.phase \in {"open", "loading"} /\ row.mount = payment[k].mount
      /\ row.paid = payment[k].paid /\ row.credited = payment[k].credited
      /\ row.phase = "loading" =>
            /\ ~script.razorpay
            /\ row.late \/ script.element \in {"none", "loading"}
  BY <1>1 DEF TopupRow, Ready
<1>3. /\ payment' = [payment EXCEPT ![k] = row] /\ UNCHANGED <<page, query, timers, unseen>>
      /\ payment[k].phase = "posting"
  BY <1>1 DEF OrderAnswered, PanelStateInv, TopupRow
<1>4. /\ script' \in [element: {"none", "loading", "loaded", "failed"}, razorpay: BOOLEAN]
      /\ script'.razorpay = script.razorpay
      /\ script'.element # script.element => script'.element = "loading" /\ script.element = "none"
      /\ row.phase = "loading" => script'.element # "none"
  <2>1. /\ script' = IF ~script.razorpay /\ script.element = "none"
                     THEN [script EXCEPT !.element = "loading"] ELSE script
        /\ row.phase = "loading" => ~script.razorpay
    BY <1>1, <1>2 DEF OrderAnswered, Ready
  <2>. QED
    BY <1>1, <2>1
<1> HIDE DEF row
<1>6. /\ payment' \in [Payments -> TopupRow] /\ payment'[k] = row
      /\ \A j \in Payments : j # k => payment'[j] = payment[j]
      /\ OneAtATime' /\ ReadInv' /\ PaidIsShown' /\ page'.mount \in 1..MaxMounts
  BY <1>1, <1>2, <1>3, TopupGoesOn DEF Waiting
<1>7. PanelStateInv' /\ PanelTypeOK'
  BY <1>1, <1>2, <1>3, <1>4, <1>6 DEF PanelStateInv, PanelTypeOK
<1>8. MessageIsOfThisPayment'
  BY <1>2, <1>3, <1>6 DEF PanelIsTruthful, MessageIsOfThisPayment, OnScreen, Waiting
<1>. QED
  BY <1>6, <1>7, <1>8 DEF PanelIsTruthful

\* ScriptEvent keeps the invariant.
LEMMA ScriptEventInv ==
    ASSUME PanelInv, NEW outcome \in {"loaded", "failed"}, NEW defines \in BOOLEAN,
           defines => outcome = "loaded", ScriptEvent(outcome, defines)
    PROVE  PanelInv'
<1> USE DEF PanelInv
<1>1. /\ payment \in [Payments -> TopupRow] /\ page \in [mount: Nat, message: BOOLEAN, error: BOOLEAN]
      /\ script.element = "loading" /\ script' = [element |-> outcome, razorpay |-> defines]
      /\ UNCHANGED <<query, timers, unseen>>
  BY DEF PanelStateInv, ScriptEvent
<1>2. ASSUME NEW k \in Payments
      PROVE  /\ payment'[k] \in TopupRow /\ payment'[k].mount = payment[k].mount
             /\ payment'[k].paid = payment[k].paid /\ payment'[k].credited = payment[k].credited
             /\ payment[k].phase = "loading" => payment'[k].phase \in {"open", "ended"}
             /\ payment[k].phase # "loading" => payment'[k] = payment[k]
  <2>1. payment[k] \in TopupRow
    BY <1>1
  <2>. QED
    BY <1>1, <2>1 DEF ScriptEvent, TopupRow
<1>3. payment' \in [Payments -> TopupRow]
  <2>1. payment' = [k \in Payments |-> payment'[k]]
    BY DEF ScriptEvent
  <2>. QED
    BY <1>2, <2>1
<1>4. /\ page' \in [mount: Nat, message: BOOLEAN, error: BOOLEAN] /\ page'.mount = page.mount
      /\ page' = page \/ ~page'.message
  BY <1>1 DEF ScriptEvent
<1>5. PanelStateInv' /\ PanelTypeOK'
  BY <1>1, <1>2, <1>3, <1>4 DEF PanelStateInv, PanelTypeOK
<1>6. OneAtATime'
  BY <1>2, <1>4 DEF OneAtATime, OnScreen, Waiting
<1>7. Credited' = Credited
  BY <1>2 DEF Credited
<1>8. ReadInv' /\ PaidIsShown'
  BY <1>1, <1>7 DEF ReadInv, PanelIsTruthful, PaidIsShown
<1>9. MessageIsOfThisPayment'
  BY <1>2, <1>4 DEF PanelIsTruthful, MessageIsOfThisPayment, OnScreen, Waiting
<1>. QED
  BY <1>5, <1>6, <1>8, <1>9 DEF PanelIsTruthful

\* Paid keeps the invariant.
LEMMA PaidInv ==
    ASSUME PanelInv, NEW k \in Payments, Paid(k)
    PROVE  PanelInv'
<1> DEFINE row == [payment[k] EXCEPT !.phase = "ended", !.paid = TRUE]
<1> USE DEF PanelInv
<1>1. payment[k] \in TopupRow /\ page \in [mount: Nat, message: BOOLEAN, error: BOOLEAN] /\ timers \in Nat
  BY DEF PanelStateInv
<1>2. /\ row \in TopupRow /\ row.phase = "ended" /\ row.mount = payment[k].mount
      /\ row.paid /\ row.credited = payment[k].credited
  BY <1>1 DEF TopupRow
<1>3. /\ payment' = [payment EXCEPT ![k] = row] /\ UNCHANGED <<script, query, unseen>>
      /\ payment[k].phase = "open" /\ timers' = timers + 2
  BY <1>1 DEF Paid, PanelStateInv, TopupRow
<1> HIDE DEF row
<1>4. /\ page' \in [mount: Nat, message: BOOLEAN, error: BOOLEAN] /\ page'.mount = page.mount
      /\ (page' = page /\ ~OnScreen(k)) \/ (OnScreen(k) /\ ~page'.error)
  BY <1>1 DEF Paid, Notice
<1>5. timers' \in Nat /\ timers' # 0
  BY <1>1, <1>3
<1>6. /\ payment' \in [Payments -> TopupRow] /\ payment'[k] = row
      /\ \A j \in Payments : j # k => payment'[j] = payment[j]
      /\ OneAtATime' /\ ReadInv' /\ PaidIsShown' /\ page'.mount \in 1..MaxMounts
  BY <1>2, <1>3, <1>4, <1>5, TopupGoesOn DEF Waiting
<1>7. PanelStateInv' /\ PanelTypeOK'
  BY <1>1, <1>2, <1>3, <1>4, <1>5, <1>6 DEF PanelStateInv, PanelTypeOK
<1>8. MessageIsOfThisPayment'
  BY <1>2, <1>3, <1>4, <1>6
  DEF PanelIsTruthful, MessageIsOfThisPayment, OnScreen, OneAtATime, Waiting
<1>. QED
  BY <1>6, <1>7, <1>8 DEF PanelIsTruthful

\* PaymentFails keeps the invariant.
LEMMA PaymentFailsInv ==
    ASSUME PanelInv, NEW k \in Payments, PaymentFails(k)
    PROVE  PanelInv'
<1> USE DEF PanelInv
<1>1. /\ page' \in [mount: Nat, message: BOOLEAN, error: BOOLEAN] /\ page'.mount = page.mount
      /\ page' = page \/ ~page'.message
      /\ UNCHANGED <<payment, script, query, timers, unseen>>
  BY DEF PaymentFails, Notice, PanelStateInv
<1>2. PanelStateInv' /\ PanelTypeOK' /\ OneAtATime'
  BY <1>1 DEF PanelStateInv, PanelTypeOK, OneAtATime, OnScreen
<1>3. ReadInv' /\ PanelIsTruthful'
  BY <1>1 DEF ReadInv, PanelIsTruthful, MessageIsOfThisPayment, PaidIsShown, Credited, OnScreen
<1>. QED
  BY <1>2, <1>3

\* Dismiss keeps the invariant.
LEMMA DismissInv ==
    ASSUME PanelInv, NEW k \in Payments, Dismiss(k)
    PROVE  PanelInv'
<1> DEFINE row == [payment[k] EXCEPT !.phase = "ended"]
<1> USE DEF PanelInv
<1>1. payment[k] \in TopupRow /\ page \in [mount: Nat, message: BOOLEAN, error: BOOLEAN] /\ timers \in Nat
  BY DEF PanelStateInv
<1>2. /\ row \in TopupRow /\ row.phase = "ended" /\ row.mount = payment[k].mount
      /\ row.paid = payment[k].paid /\ row.credited = payment[k].credited
  BY <1>1 DEF TopupRow
<1>3. /\ payment' = [payment EXCEPT ![k] = row] /\ UNCHANGED <<script, query, timers, unseen>>
      /\ payment[k].phase = "open"
  BY <1>1 DEF Dismiss, PanelStateInv, TopupRow
<1> HIDE DEF row
<1>4. /\ page' \in [mount: Nat, message: BOOLEAN, error: BOOLEAN] /\ page'.mount = page.mount
      /\ page' = page \/ ~page'.message
  BY <1>1 DEF Dismiss, Notice
<1>6. /\ payment' \in [Payments -> TopupRow] /\ payment'[k] = row
      /\ \A j \in Payments : j # k => payment'[j] = payment[j]
      /\ OneAtATime' /\ ReadInv' /\ PaidIsShown' /\ page'.mount \in 1..MaxMounts
  BY <1>1, <1>2, <1>3, <1>4, TopupGoesOn DEF Waiting
<1>7. PanelStateInv' /\ PanelTypeOK'
  BY <1>1, <1>2, <1>3, <1>4, <1>6 DEF PanelStateInv, PanelTypeOK
<1>8. MessageIsOfThisPayment'
  BY <1>2, <1>3, <1>4, <1>6 DEF PanelIsTruthful, MessageIsOfThisPayment, OnScreen, Waiting
<1>. QED
  BY <1>6, <1>7, <1>8 DEF PanelIsTruthful

\* Credit keeps the invariant.
LEMMA CreditInv ==
    ASSUME PanelInv, NEW k \in Payments, Credit(k)
    PROVE  PanelInv'
<1> DEFINE row == [payment[k] EXCEPT !.credited = TRUE]
<1> USE DEF PanelInv
<1>1. payment[k] \in TopupRow
  BY DEF PanelStateInv
<1>2. /\ row \in TopupRow /\ row.phase = payment[k].phase /\ row.mount = payment[k].mount
      /\ row.paid = payment[k].paid /\ row.credited /\ row.late = payment[k].late
  BY <1>1 DEF TopupRow
<1>3. /\ payment' = [payment EXCEPT ![k] = row] /\ UNCHANGED <<script, page, query, timers>>
      /\ payment[k].paid /\ unseen' = IF timers = 0 THEN unseen \cup {k} ELSE unseen
  BY <1>1 DEF Credit, PanelStateInv, TopupRow
<1> HIDE DEF row
<1>4. /\ payment' \in [Payments -> TopupRow] /\ payment'[k] = row
      /\ \A j \in Payments : j # k => payment'[j] = payment[j]
  BY <1>2, <1>3, OneTopup
<1>5. PanelStateInv' /\ PanelTypeOK'
  BY <1>2, <1>3, <1>4 DEF PanelStateInv, PanelTypeOK
<1>6. OneAtATime'
  BY <1>2, <1>3, <1>4 DEF OneAtATime, OnScreen
<1>7. Credited' = Credited \cup {k}
  BY <1>2, <1>4 DEF Credited
<1>8. ReadInv' /\ PaidIsShown'
  BY <1>3, <1>7 DEF ReadInv, PanelIsTruthful, PaidIsShown
<1>9. MessageIsOfThisPayment'
  BY <1>2, <1>3, <1>4 DEF PanelIsTruthful, MessageIsOfThisPayment, OnScreen
<1>. QED
  BY <1>5, <1>6, <1>8, <1>9 DEF PanelIsTruthful

\* ShownBalance keeps the invariant.
LEMMA ShownBalanceInv ==
    ASSUME PanelInv, BalanceSteps
    PROVE  PanelInv'
<1> USE DEF PanelInv
<1>1. UNCHANGED <<payment, script, page>>
  BY DEF BalanceSteps, TimerFires, ReadBalance, ShowBalance, BalanceFails
<1>2. /\ query \in [shown: SUBSET Payments, fetch: {"idle", "sent", "read"}, read: SUBSET Payments]
      /\ timers \in Nat /\ Credited \subseteq Payments /\ Credited' = Credited
  BY <1>1 DEF PanelStateInv, Credited
<1>3. /\ query' \in [shown: SUBSET Payments, fetch: {"idle", "sent", "read"}, read: SUBSET Payments]
      /\ timers' \in Nat /\ ReadInv' /\ PaidIsShown'
  <2>1. CASE TimerFires
    <3>1. query' = [query EXCEPT !.fetch = "sent", !.read = {}] /\ timers > 0 /\ timers' = timers - 1
      BY <2>1 DEF TimerFires, Refetched
    <3>2. /\ query' \in [shown: SUBSET Payments, fetch: {"idle", "sent", "read"}, read: SUBSET Payments]
          /\ query'.fetch = "sent"
      BY <1>2, <3>1
    <3>3. timers' \in Nat
      BY <1>2, <3>1
    <3>. QED
      BY <3>2, <3>3 DEF ReadInv, PaidIsShown
  <2>2. CASE ReadBalance
    BY <1>2, <2>2 DEF ReadBalance, ReadInv, PaidIsShown
  <2>3. CASE ShowBalance
    BY <1>2, <2>3 DEF ShowBalance, ReadInv, PaidIsShown
  <2>4. CASE BalanceFails
    BY <1>2, <2>4 DEF BalanceFails, ReadInv, PaidIsShown
  <2>. QED
    BY <2>1, <2>2, <2>3, <2>4 DEF BalanceSteps
<1>4. PanelStateInv' /\ PanelTypeOK' /\ OneAtATime'
  BY <1>1, <1>3 DEF PanelStateInv, PanelTypeOK, OneAtATime, OnScreen
<1>5. MessageIsOfThisPayment'
  BY <1>1 DEF PanelIsTruthful, MessageIsOfThisPayment, OnScreen
<1>. QED
  BY <1>3, <1>4, <1>5 DEF PanelIsTruthful

\* Remount keeps the invariant.
LEMMA RemountInv ==
    ASSUME PanelInv, Remount
    PROVE  PanelInv'
<1> USE DEF PanelInv
<1>1. /\ page' = [mount |-> page.mount + 1, message |-> FALSE, error |-> FALSE] /\ page.mount < MaxMounts
      /\ UNCHANGED <<payment, script, timers, unseen>>
      /\ query' = query \/ query' = [query EXCEPT !.fetch = "sent", !.read = {}]
  BY DEF Remount, Refetched
<1>2. /\ query \in [shown: SUBSET Payments, fetch: {"idle", "sent", "read"}, read: SUBSET Payments]
      /\ page.mount \in 1..MaxMounts /\ Credited' = Credited
  BY <1>1 DEF PanelStateInv, PanelTypeOK, Credited
<1>3. /\ query' \in [shown: SUBSET Payments, fetch: {"idle", "sent", "read"}, read: SUBSET Payments]
      /\ query' = query \/ query'.fetch = "sent"
  BY <1>1, <1>2
<1>4. page'.mount = page.mount + 1 /\ page'.mount \in 1..MaxMounts /\ ~page'.message
      /\ page' \in [mount: Nat, message: BOOLEAN, error: BOOLEAN]
  BY <1>1, <1>2, WalletPanelAssumption
<1>5. PanelStateInv' /\ PanelTypeOK'
  BY <1>1, <1>3, <1>4 DEF PanelStateInv, PanelTypeOK
<1>6. OneAtATime'
  <2>1. \A k \in Payments : payment[k].mount # page'.mount
    BY <1>2, <1>4 DEF OneAtATime, PanelStateInv, TopupRow
  <2>. QED
    BY <1>1, <1>2, <1>4, <2>1 DEF OneAtATime, OnScreen, PanelStateInv, TopupRow
<1>7. ReadInv' /\ PanelIsTruthful'
  BY <1>1, <1>2, <1>3, <1>4 DEF ReadInv, PanelIsTruthful, MessageIsOfThisPayment, PaidIsShown
<1>. QED
  BY <1>5, <1>6, <1>7

\* The page, the payments and the balance keep to their invariant.
THEOREM PanelInvariant == PanelSpec => []PanelInv
<1>1. PanelInit => PanelInv
  BY PanelInitInv
<1>2. PanelInv /\ [PanelNext]_panelVars => PanelInv'
  <2> SUFFICES ASSUME PanelInv, [PanelNext]_panelVars PROVE PanelInv'
    OBVIOUS
  <2>1. CASE TopupSteps
    BY <2>1, StartTopupInv, OrderFailsInv, OrderAnsweredInv, PaidInv, PaymentFailsInv, DismissInv, CreditInv
    DEF TopupSteps
  <2>2. CASE ScriptSettles
    BY <2>2, ScriptEventInv DEF ScriptSettles
  <2>3. CASE BalanceSteps
    BY <2>3, ShownBalanceInv
  <2>4. CASE Remount
    BY <2>4, RemountInv
  <2>5. CASE UNCHANGED panelVars
    BY <2>5 DEF panelVars, PanelInv, PanelStateInv, PanelTypeOK, OneAtATime, ReadInv, PanelIsTruthful,
       MessageIsOfThisPayment, PaidIsShown, Credited, OnScreen
  <2>. QED
    BY <2>1, <2>2, <2>3, <2>4, <2>5 DEF PanelNext
<1>. QED
  BY <1>1, <1>2, PTL DEF PanelSpec

\* The page says of a payment what the server would, wherever an answer, a callback of the
\* script and a remount fall (wallet-panel.tsx, wallet.service.ts).
THEOREM PanelTellsTheTruth == PanelSpec => []PanelIsTruthful
BY PanelInvariant, PTL DEF PanelInv

\* The payments of a visitor, the script and the cached balance keep their shape (wallet-panel.tsx).
THEOREM PanelTypes == PanelSpec => []PanelTypeOK
BY PanelInvariant, PTL DEF PanelInv

-----------------------------------------------------------------------------
(* The suite, MCAlerts *)

\* However the suite interleaves its components, each does only what it does alone: what is proved of
\* a component holds in the suite.
THEOREM SuiteIsOfItsComponents == SuiteSpec => PurchaseSpec /\ FanoutSpec /\ PanelSpec
<1>1. SuiteInit => PurchaseInit /\ FanoutInit /\ PanelInit
  BY DEF SuiteInit
<1>2. ASSUME [SuiteNext]_SuiteVars
      PROVE  /\ [AlertNext]_pvars
             /\ [FanoutNext]_fanoutVars
             /\ [PanelNext]_panelVars
  <2>1. CASE SuiteNext
    BY <2>1 DEF SuiteNext, FanoutFocus
  <2>2. CASE UNCHANGED SuiteVars
    BY <2>2 DEF SuiteVars
  <2>. QED
    BY <1>2, <2>1, <2>2
<1>. QED
  BY <1>1, <1>2, PTL DEF SuiteSpec, PurchaseSpec, FanoutSpec, PanelSpec

\* Every component of the suite keeps its shape.
THEOREM SuiteTypes == SuiteSpec => []SuiteTypeOK
  BY SuiteIsOfItsComponents, PurchaseTypes, FanoutTypes, PanelTypes, PTL DEF SuiteTypeOK

=============================================================================
