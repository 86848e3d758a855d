----------------------------- MODULE MCAlerts -----------------------------
(***************************************************************************)
(* A paid alert, the job that sends it and the page its money came from,   *)
(* for TLC.  What they share, the order that is credited and the alert     *)
(* that is queued, each takes as an event of its environment, so a         *)
(* behaviour is of one of them: the one in focus moves and the others stay *)
(* where they start.                                                       *)
(***************************************************************************)
EXTENDS MCAlertPurchase, AlertFanout, WalletPanel

CONSTANTS t1, t2, v1, x1, w1, w2, home, away

VARIABLE focus

\* A student of the alert's university and one of another.
Universities == v1 :> home @@ x1 :> away
OneUniversity == v1 :> home

\* A second device registers while one worker is busy at most, with one retry.
FanoutFocus ==
    /\ FanoutNext
    /\ t2 \in Tokens /\ device'[t2].status # "ABSENT" =>
          /\ runner'[w2] = Idle
          /\ job'.tries + job'.stalls <= 1

SuiteInit ==
    /\ focus \in {"purchase", "fanout", "page"}
    /\ PurchaseInit /\ FanoutInit /\ PanelInit

SuiteNext ==
    /\ UNCHANGED focus
    /\ \/ focus = "purchase" /\ AlertNext /\ UNCHANGED <<fanoutVars, panelVars>>
       \/ focus = "fanout" /\ FanoutFocus /\ UNCHANGED <<pvars, panelVars>>
       \/ focus = "page" /\ PanelNext /\ UNCHANGED <<pvars, fanoutVars>>

SuiteVars == <<focus, pvars, fanoutVars, panelVars>>

SuiteSpec == SuiteInit /\ [][SuiteNext]_SuiteVars

InPurchase == focus = "purchase"

\* RetryFairness where purchases are in focus.  The fair steps of the other two
\* are disabled where they start, so their fairness asks nothing out of focus.
PurchaseFairness ==
    /\ \A req \in Requests :
          SF_pvars(InPurchase /\ \E r \in Debits : PurchaseStart(r, req[1], req[2], req[3]))
    /\ \A k \in DebitKeys :
          /\ SF_pvars(InPurchase /\ \E r \in Debits : purchase[r].key = k /\ PurchaseCooldown(r))
          /\ SF_pvars(InPurchase /\ \E r \in Debits : purchase[r].key = k /\ PurchaseDebit(r))
          /\ SF_pvars(InPurchase /\ \E r \in Debits : purchase[r].key = k /\ PurchaseCreate(r))
          /\ SF_pvars(InPurchase /\ \E r \in Debits : purchase[r].key = k /\ PurchaseEnqueue(r))
    /\ \A r \in Debits : WF_pvars(InPurchase /\ PurchaseFail(r))
    /\ WF_pvars(InPurchase /\ CooldownEnds)

FairSuiteSpec == SuiteSpec /\ PurchaseFairness /\ FanoutFairness /\ PanelFairness

\* Every component keeps its rows, requests and pages in shape, in whatever order
\* the steps of concurrent requests come.
SuiteTypeOK == PurchaseTypeOK /\ FanTypeOK /\ PanelTypeOK
=============================================================================
