---------------------------- MODULE WalletPanel ----------------------------
(***************************************************************************)
(* The wallet page of the web application: a top-up posts an order, loads  *)
(* the checkout script of Razorpay once for the document, opens the        *)
(* checkout and, when it reports a payment, invalidates the balance twice, *)
(* while the webhook credits the order on the server at its own time.  The *)
(* page may be left and entered again; a mutation that is running goes on  *)
(* without it.  What Razorpay and the server do is external.               *)
(***************************************************************************)
EXTENDS Naturals, FiniteSets

CONSTANTS
    Payments,   \* the top-ups a student starts
    MaxMounts   \* bound: times the page is entered

ASSUME WalletPanelAssumption == MaxMounts \in Nat \ {0}

VARIABLES
    payment,    \* phase, the mount that started it, paid and credited
    script,     \* the script element, and whether window.Razorpay is defined
    page,       \* the mount on the screen, its message and error
    query,      \* the balance: shown, the fetch in flight and what it read
    timers,     \* refetches scheduled
    unseen      \* observation: orders credited when no refetch was to come, or whose fetch failed

panelVars == <<payment, script, page, query, timers, unseen>>

Waiting == {"posting", "loading"}

Credited == {k \in Payments : payment[k].credited}

PanelInit ==
    /\ payment = [k \in Payments |-> [phase |-> "new", mount |-> 0, paid |-> FALSE, credited |-> FALSE, late |-> FALSE]]
    /\ script = [element |-> "none", razorpay |-> FALSE]
    /\ page = [mount |-> 1, message |-> FALSE, error |-> FALSE]
    /\ query = [shown |-> {}, fetch |-> "idle", read |-> {}]
    /\ timers = 0
    /\ unseen = {}

-----------------------------------------------------------------------------
(* What the handlers of a mutation do to the page, if it is still there. *)

OnScreen(k) == payment[k].mount = page.mount

Notice(k, message, error) ==
    page' = IF OnScreen(k) THEN [page EXCEPT !.message = message, !.error = error] ELSE page

\* The buttons are disabled while the mutation of this mount is pending; a
\* checkout that is open covers the page.
MayStart ==
    /\ \A k \in Payments : payment[k].phase \in Waiting => ~OnScreen(k)
    /\ \A k \in Payments : payment[k].phase # "open"

\* onMutate.
Cleared == [page EXCEPT !.message = FALSE, !.error = FALSE]

StartTopup(k) ==
    /\ payment[k].phase = "new" /\ MayStart
    /\ payment' = [payment EXCEPT ![k].phase = "posting", ![k].mount = page.mount]
    /\ page' = Cleared
    /\ UNCHANGED <<script, query, timers, unseen>>

\* onError; or an order that exists, is missing or is a mock.
OrderFails(k) ==
    /\ payment[k].phase = "posting"
    /\ payment' = [payment EXCEPT ![k].phase = "ended"]
    /\ Notice(k, FALSE, TRUE)
    /\ UNCHANGED <<script, query, timers, unseen>>

\* Variant: only the element counts.
Bug_Ready == FALSE

Ready == script.razorpay

\* loadRazorpayCheckout: ready, wait for the element that is there, add one.
OrderAnswered(k) ==
    /\ payment[k].phase = "posting"
    /\ payment' = [payment EXCEPT ![k].phase = IF Ready THEN "open" ELSE "loading",
                              ![k].late = ~script.razorpay /\ script.element \in {"loaded", "failed"}]
    /\ script' = IF ~Ready /\ script.element = "none" THEN [script EXCEPT !.element = "loading"] ELSE script
    /\ UNCHANGED <<page, query, timers, unseen>>

\* Everybody who waits for the element goes on; a script that does not define
\* window.Razorpay ends in an error, like one that is not loaded.
ScriptEvent(outcome, defines) ==
    LET waiting == {k \in Payments : payment[k].phase = "loading"}
    IN  /\ script.element = "loading"
        /\ script' = [element |-> outcome, razorpay |-> defines]
        /\ payment' = [k \in Payments |->
              IF k \in waiting THEN [payment[k] EXCEPT !.phase = IF defines THEN "open" ELSE "ended"] ELSE payment[k]]
        /\ page' = IF ~defines /\ \E k \in waiting : OnScreen(k)
                   THEN [page EXCEPT !.message = FALSE, !.error = TRUE] ELSE page
        /\ UNCHANGED <<query, timers, unseen>>

ScriptSettles == ScriptEvent("loaded", TRUE) \/ ScriptEvent("loaded", FALSE) \/ ScriptEvent("failed", FALSE)

-----------------------------------------------------------------------------
(* The checkout *)

\* handler: the payment is made; two refetches are scheduled.
Paid(k) ==
    /\ payment[k].phase = "open"
    /\ payment' = [payment EXCEPT ![k].phase = "ended", ![k].paid = TRUE]
    /\ Notice(k, TRUE, FALSE)
    /\ timers' = timers + 2
    /\ UNCHANGED <<script, query, unseen>>

\* payment.failed: the checkout stays, for another try.
PaymentFails(k) ==
    /\ payment[k].phase = "open"
    /\ Notice(k, FALSE, TRUE)
    /\ UNCHANGED <<payment, script, query, timers, unseen>>

Dismiss(k) ==
    /\ payment[k].phase = "open"
    /\ payment' = [payment EXCEPT ![k].phase = "ended"]
    /\ Notice(k, FALSE, page.error)
    /\ UNCHANGED <<script, query, timers, unseen>>

\* The webhook.
Credit(k) ==
    /\ payment[k].paid /\ ~payment[k].credited
    /\ payment' = [payment EXCEPT ![k].credited = TRUE]
    /\ unseen' = IF timers = 0 THEN unseen \cup {k} ELSE unseen
    /\ UNCHANGED <<script, page, query, timers>>

-----------------------------------------------------------------------------
(* The balance *)

\* Variant: a fetch in flight is as good as a new one.
Bug_Refetched == IF query.fetch = "read" THEN query ELSE [query EXCEPT !.fetch = "sent"]

\* An invalidation drops the fetch in flight for a new one.
Refetched == [query EXCEPT !.fetch = "sent", !.read = {}]

TimerFires ==
    /\ timers > 0
    /\ timers' = timers - 1
    /\ query' = Refetched
    /\ UNCHANGED <<payment, script, page, unseen>>

ReadBalance ==
    /\ query.fetch = "sent"
    /\ query' = [query EXCEPT !.fetch = "read", !.read = Credited]
    /\ UNCHANGED <<payment, script, page, timers, unseen>>

ShowBalance ==
    /\ query.fetch = "read"
    /\ query' = [query EXCEPT !.fetch = "idle", !.shown = query.read]
    /\ UNCHANGED <<payment, script, page, timers, unseen>>

\* The retries are used up.
BalanceFails ==
    /\ query.fetch # "idle"
    /\ query' = [query EXCEPT !.fetch = "idle"]
    /\ unseen' = unseen \cup Credited
    /\ UNCHANGED <<payment, script, page, timers>>

\* Left and entered again: the state of the component is new, the balance is
\* fetched again once it is stale, and the document keeps the script.
Remount ==
    /\ page.mount < MaxMounts
    /\ page' = [mount |-> page.mount + 1, message |-> FALSE, error |-> FALSE]
    /\ query' = query \/ (query.fetch = "idle" /\ query' = Refetched)
    /\ UNCHANGED <<payment, script, timers, unseen>>

-----------------------------------------------------------------------------
TopupSteps ==
    \E k \in Payments :
        \/ StartTopup(k) \/ OrderFails(k) \/ OrderAnswered(k)
        \/ Paid(k) \/ PaymentFails(k) \/ Dismiss(k) \/ Credit(k)

BalanceSteps == TimerFires \/ ReadBalance \/ ShowBalance \/ BalanceFails

PanelNext == TopupSteps \/ ScriptSettles \/ BalanceSteps \/ Remount

PanelSpec == PanelInit /\ [][PanelNext]_panelVars

\* The order is answered and the browser reports what became of the script.
PanelFairness ==
    /\ \A k \in Payments : WF_panelVars(OrderAnswered(k) \/ OrderFails(k))
    /\ WF_panelVars(ScriptSettles)

FairPanelSpec == PanelSpec /\ PanelFairness

-----------------------------------------------------------------------------
(* Type: one script element, and nobody waits for a script that is not     *)
(* loading unless its fate was known when they came                        *)
(* (wallet-panel.tsx, loadRazorpayCheckout).                               *)
PanelTypeOK ==
    /\ \A k \in Payments :
          /\ payment[k].phase \in {"new", "posting", "loading", "open", "ended"}
          /\ payment[k].phase = "loading" => script.element = "loading" \/ payment[k].late
          /\ payment[k].credited => payment[k].paid
    /\ script.razorpay => script.element = "loaded"
    /\ page.mount \in 1..MaxMounts
    /\ query.shown \subseteq Payments /\ query.fetch \in {"idle", "sent", "read"}

(* "Payment received" stands for a payment of this visit, and of the last  *)
(* top-up started in it (wallet-panel.tsx, onMutate and handler).          *)
MessageIsOfThisPayment ==
    page.message =>
        /\ \E k \in Payments : OnScreen(k) /\ payment[k].paid
        /\ ~page.error
        /\ \A k \in Payments : OnScreen(k) => payment[k].phase \notin Waiting

(* A payment that is credited before the last scheduled refetch is on the  *)
(* screen when that refetch is done, unless the fetch failed               *)
(* (wallet-panel.tsx, the two timers of handler).                          *)
PaidIsShown == timers = 0 /\ query.fetch = "idle" => Credited \ unseen \subseteq query.shown

\* The page reports the payment and the balance of its visitor (wallet-panel.tsx).
PanelIsTruthful ==
    /\ MessageIsOfThisPayment
    /\ PaidIsShown

(* A top-up does not keep the buttons disabled for good, unless it waits   *)
(* for a script whose fate was known before (wallet-panel.tsx,             *)
(* loadRazorpayCheckout with an existing element).                         *)
TopupEnds == \A k \in Payments : payment[k].phase \in Waiting ~> payment[k].phase \notin Waiting \/ payment[k].late
=============================================================================
