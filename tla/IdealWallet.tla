---------------------------- MODULE IdealWallet ----------------------------
(***************************************************************************)
(* What a wallet promises, without handlers, events or caches: money that  *)
(* a customer paid is credited once, an alert is charged once per key and  *)
(* only when the balance covers it, and nothing else moves a balance.      *)
(***************************************************************************)
EXTENDS Integers

CONSTANTS Users, Orders, Keys, AlertPrice

VARIABLES
    balance,   \* what each user owns
    payment,   \* per order: whether the customer paid, who and how much
    credited,  \* orders whose payment has been added to a balance
    charged    \* keys an alert has been charged under

ivars == <<balance, payment, credited, charged>>

IdealInit ==
    /\ balance = [u \in Users |-> 0]
    /\ \A o \in Orders : payment[o].state # "captured"
    /\ credited = {}
    /\ charged = {}

\* Orders come and go until they are paid; a payment is final.
Pay ==
    /\ \A o \in Orders : payment[o].state = "captured" => payment'[o] = payment[o]
    /\ UNCHANGED <<balance, credited, charged>>

Credit(o) ==
    /\ payment[o].state = "captured"
    /\ o \notin credited
    /\ credited' = credited \cup {o}
    /\ balance' = [balance EXCEPT ![payment[o].user] = @ + payment[o].amount]
    /\ UNCHANGED <<payment, charged>>

Charge(u, k) ==
    /\ k \notin charged
    /\ balance[u] >= AlertPrice
    /\ charged' = charged \cup {k}
    /\ balance' = [balance EXCEPT ![u] = @ - AlertPrice]
    /\ UNCHANGED <<payment, credited>>

IdealNext ==
    \/ Pay
    \/ \E o \in Orders : Credit(o)
    \/ \E u \in Users, k \in Keys : Charge(u, k)

IdealSpec == IdealInit /\ [][IdealNext]_ivars

=============================================================================
