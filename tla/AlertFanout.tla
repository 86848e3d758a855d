---------------------------- MODULE AlertFanout ----------------------------
(***************************************************************************)
(* The worker behind a paid alert: AlertFanoutProcessor with DevicesService *)
(* and FcmProvider in apps/api/src/notifications.                          *)
(*                                                                         *)
(* One alert of the university Home.  Its job is in a queue that gives it  *)
(* to one worker at a time, tries it again when an attempt fails, and hands *)
(* it to another worker when the first has not renewed its lock, be it dead *)
(* or only slow.  Every await of process() is a step, and so is every call *)
(* to the push provider, which may fail after it delivered.                *)
(***************************************************************************)
EXTENDS Naturals, FiniteSets

CONSTANTS
    Tokens,     \* push tokens
    People,     \* who may register one
    TenantOf,   \* the university of each user
    Home,       \* the university of the alert
    Workers,
    Attempts,   \* attempts a job has
    MaxStalled, \* times a job may be taken from a worker that lost its lock
    BatchSize,  \* tokens in a call to the provider
    NoOne

ASSUME AlertFanoutAssumption ==
    /\ DOMAIN TenantOf = People
    /\ NoOne \notin People \cup Workers
    /\ Attempts \in Nat \ {0} /\ BatchSize \in Nat \ {0} /\ MaxStalled \in Nat
    /\ IsFiniteSet(Tokens) /\ IsFiniteSet(Workers)

VARIABLES
    device,   \* rows of devices, by their unique token
    gone,     \* tokens that belong to no installed app any more
    job,      \* the job in the queue
    runner,   \* process() in each worker
    sentOut,  \* the alert's status and counts
    notified, \* users with the alert's in-app notification
    pushes,   \* history: pushes that reached the app behind each token
    redone,   \* history: attempts that ended or lost their lock before SENT
    read,     \* history: <<token, user>> of devices an attempt was to push to
    moved,    \* history: tokens registered by another user after such a read
    strangers \* history: tokens pushed to that were another university's by then

fanoutVars == <<device, gone, job, runner, sentOut, notified, pushes, redone, read, moved, strangers>>

-----------------------------------------------------------------------------

Device == [user: People \cup {NoOne}, status: {"ABSENT", "ACTIVE", "INVALID"}]

Job == [state: {"none", "waiting", "active", "done", "failed"}, holder: Workers \cup {NoOne},
        tries: 0..Attempts, stalls: 0..MaxStalled]

\* rest: tokens to push to; ok, failed, dead: results; told: users in the loop;
\* owed: what this attempt and those before it have read.
Runner == [pc: {"idle", "alert", "devices", "send", "invalidate", "notify", "update", "complete"},
           devices: SUBSET (Tokens \X People), rest: SUBSET Tokens, ok: SUBSET Tokens,
           failed: SUBSET Tokens, dead: SUBSET Tokens, told: SUBSET People,
           owed: SUBSET (Tokens \X People)]

Idle == [pc |-> "idle", devices |-> {}, rest |-> {}, ok |-> {}, failed |-> {}, dead |-> {},
         told |-> {}, owed |-> {}]

FanoutInit ==
    /\ device = [t \in Tokens |-> [user |-> NoOne, status |-> "ABSENT"]]
    /\ gone = {}
    /\ job = [state |-> "none", holder |-> NoOne, tries |-> 0, stalls |-> 0]
    /\ runner = [w \in Workers |-> Idle]
    /\ sentOut = [status |-> "PENDING", eligible |-> 0, sent |-> 0, failed |-> 0, owed |-> {}]
    /\ notified = {}
    /\ pushes = [t \in Tokens |-> 0]
    /\ redone = 0
    /\ read = {}
    /\ moved = {}
    /\ strangers = {}

-----------------------------------------------------------------------------
(* Devices *)

\* registerDevice: the row is the token's, whoever had it before.
RegisterDevice(u, t) ==
    /\ device' = [device EXCEPT ![t] = [user |-> u, status |-> "ACTIVE"]]
    /\ device' # device
    /\ moved' = IF \E v \in People \ {u} : <<t, v>> \in read THEN moved \cup {t} ELSE moved
    /\ UNCHANGED <<gone, job, runner, sentOut, notified, pushes, redone, read, strangers>>

\* The app is uninstalled; the server is not told.
Uninstall(t) ==
    /\ t \notin gone
    /\ gone' = gone \cup {t}
    /\ UNCHANGED <<device, job, runner, sentOut, notified, pushes, redone, read, moved, strangers>>

-----------------------------------------------------------------------------
(* The queue *)

\* Variant: a job without an identifier is added again at every repetition.
Bug_Enqueue ==
    /\ job.state \in {"none", "active"}
    /\ job' = [job EXCEPT !.state = "waiting"]
    /\ UNCHANGED <<device, gone, runner, sentOut, notified, pushes, redone, read, moved, strangers>>

\* enqueueUniversityAlertFanout: with the identifier of a job that is there, or
\* that has run, nothing is added.
Enqueue ==
    /\ job.state = "none"
    /\ job' = [job EXCEPT !.state = "waiting"]
    /\ UNCHANGED <<device, gone, runner, sentOut, notified, pushes, redone, read, moved, strangers>>

TakeFanout(w) ==
    /\ job.state = "waiting"
    /\ runner[w] = Idle
    /\ job' = [job EXCEPT !.state = "active", !.holder = w]
    /\ runner' = [runner EXCEPT ![w].pc = "alert"]
    /\ UNCHANGED <<device, gone, sentOut, notified, pushes, redone, read, moved, strangers>>

Redone == IF sentOut.status = "SENT" THEN redone ELSE redone + 1

\* Variant: the attempts that were made are not counted.
Bug_Tries == job.tries

Tries == job.tries + 1

\* An await throws.  The attempt counts, unless the job is another worker's by now.
AttemptFails(w) ==
    /\ runner[w] # Idle
    /\ runner' = [runner EXCEPT ![w] = Idle]
    /\ job' = IF job.holder = w
              THEN [job EXCEPT !.state = IF Tries < Attempts THEN "waiting" ELSE "failed",
                               !.holder = NoOne, !.tries = Tries]
              ELSE job
    /\ redone' = IF job.holder = w THEN Redone ELSE redone
    /\ UNCHANGED <<device, gone, sentOut, notified, pushes, read, moved, strangers>>

\* The process dies; the queue still thinks the worker has the job.
WorkerDies(w) ==
    /\ runner[w] # Idle
    /\ runner' = [runner EXCEPT ![w] = Idle]
    /\ UNCHANGED <<device, gone, job, sentOut, notified, pushes, redone, read, moved, strangers>>

\* The lock is not renewed; the worker, if it lives, goes on.
Stalled ==
    /\ job.state = "active"
    /\ job' = IF job.stalls < MaxStalled
              THEN [job EXCEPT !.state = "waiting", !.holder = NoOne, !.stalls = @ + 1]
              ELSE [job EXCEPT !.state = "failed", !.holder = NoOne]
    /\ redone' = Redone
    /\ UNCHANGED <<device, gone, runner, sentOut, notified, pushes, read, moved, strangers>>

-----------------------------------------------------------------------------
(* process *)

\* Variant: it is not looked at whether the alert was sent.
Bug_AfterAlert == "devices"

\* "idempotent - already processed"
AfterAlert == IF sentOut.status = "SENT" THEN "complete" ELSE "devices"

ReadAlert(w) ==
    /\ runner[w].pc = "alert"
    /\ runner' = [runner EXCEPT ![w].pc = AfterAlert]
    /\ UNCHANGED <<device, gone, job, sentOut, notified, pushes, redone, read, moved, strangers>>

\* getEligibleDevices; a row has the university of the user who registered it.
EligibleDevices ==
    {t \in Tokens : device[t].status = "ACTIVE" /\ TenantOf[device[t].user] = Home}

ReadDevices(w) ==
    LET found == {<<t, device[t].user>> : t \in EligibleDevices}
    IN  /\ runner[w].pc = "devices"
        /\ runner' = [runner EXCEPT ![w].pc = "send", ![w].devices = found, ![w].rest = EligibleDevices,
                                         ![w].owed = read \cup found]
        /\ read' = read \cup found
        /\ UNCHANGED <<device, gone, job, sentOut, notified, pushes, redone, moved, strangers>>

Batches(rest) ==
    {b \in SUBSET rest :
        Cardinality(b) = IF Cardinality(rest) < BatchSize THEN Cardinality(rest) ELSE BatchSize}

\* A token that is gone is told from one that failed otherwise, unless the whole
\* call failed, in which case nobody counts as reached.
ResultsOf(b, delivered, answered) ==
    IF answered THEN [ok |-> delivered, failed |-> b \ delivered, dead |-> b \cap gone]
    ELSE [ok |-> {}, failed |-> b, dead |-> {}]

\* sendBatch, one call to sendEachForMulticast
SendBatch(w) ==
    /\ runner[w].pc = "send" /\ runner[w].rest # {}
    /\ \E b \in Batches(runner[w].rest), answered \in BOOLEAN :
          \E delivered \in SUBSET (b \ gone) :
             LET results == ResultsOf(b, delivered, answered)
             IN  /\ runner' = [runner EXCEPT ![w].rest = @ \ b, ![w].ok = @ \cup results.ok,
                                             ![w].failed = @ \cup results.failed,
                                             ![w].dead = @ \cup results.dead]
                 /\ pushes' = [t \in Tokens |-> IF t \in delivered THEN pushes[t] + 1 ELSE pushes[t]]
                 /\ strangers' = strangers \cup {t \in delivered : TenantOf[device[t].user] # Home}
    /\ UNCHANGED <<device, gone, job, sentOut, notified, redone, read, moved>>

\* The tokens the provider says are not registered.
Invalidated(w) == runner[w].dead

AllSent(w) ==
    /\ runner[w].pc = "send" /\ runner[w].rest = {}
    /\ runner' = [runner EXCEPT ![w].pc = "invalidate", ![w].dead = Invalidated(w)]
    /\ UNCHANGED <<device, gone, job, sentOut, notified, pushes, redone, read, moved, strangers>>

\* markTokenInvalid of one result after the other, by token.
MarkTokenInvalid(w) ==
    /\ runner[w].pc = "invalidate"
    /\ IF runner[w].dead = {}
       THEN runner' = [runner EXCEPT ![w].pc = "notify"] /\ UNCHANGED device
       ELSE \E t \in runner[w].dead :
               /\ device' = [device EXCEPT ![t].status = "INVALID"]
               /\ runner' = [runner EXCEPT ![w].dead = @ \ {t}]
    /\ UNCHANGED <<gone, job, sentOut, notified, pushes, redone, read, moved, strangers>>

\* Variant: only those who could be pushed to.
Bug_Recipients(w) == {d[2] : d \in {e \in runner[w].devices : e[1] \in runner[w].ok}}

\* Whoever has a device that was read, pushed to or not.
Recipients(w) == {d[2] : d \in runner[w].devices}

\* The upsert of the next recipient's notification.
NotifyRecipient(w) ==
    /\ runner[w].pc = "notify"
    /\ IF Recipients(w) \subseteq runner[w].told
       THEN runner' = [runner EXCEPT ![w].pc = "update"] /\ UNCHANGED notified
       ELSE \E u \in Recipients(w) \ runner[w].told :
               /\ notified' = notified \cup {u}
               /\ runner' = [runner EXCEPT ![w].told = @ \cup {u}]
    /\ UNCHANGED <<device, gone, job, sentOut, pushes, redone, read, moved, strangers>>

\* The alert is SENT.
UpdateAlert(w) ==
    /\ runner[w].pc = "update"
    /\ sentOut' = [status |-> "SENT", eligible |-> Cardinality(runner[w].devices),
                   sent |-> Cardinality(runner[w].ok), failed |-> Cardinality(runner[w].failed),
                   owed |-> runner[w].owed]
    /\ runner' = [runner EXCEPT ![w].pc = "complete"]
    /\ UNCHANGED <<device, gone, job, notified, pushes, redone, read, moved, strangers>>

\* process() returns, and the queue hears of it from the holder.
CompleteFanout(w) ==
    /\ runner[w].pc = "complete"
    /\ runner' = [runner EXCEPT ![w] = Idle]
    /\ job' = IF job.holder = w THEN [job EXCEPT !.state = "done", !.holder = NoOne] ELSE job
    /\ UNCHANGED <<device, gone, sentOut, notified, pushes, redone, read, moved, strangers>>

-----------------------------------------------------------------------------

WorkerStep(w) ==
    \/ ReadAlert(w) \/ ReadDevices(w) \/ SendBatch(w) \/ AllSent(w) \/ MarkTokenInvalid(w)
    \/ NotifyRecipient(w) \/ UpdateAlert(w) \/ CompleteFanout(w)

DeviceSteps ==
    \E t \in Tokens : Uninstall(t) \/ \E u \in People : RegisterDevice(u, t)

FanoutNext ==
    \/ DeviceSteps
    \/ Enqueue
    \/ Stalled
    \/ \E w \in Workers : TakeFanout(w) \/ WorkerStep(w) \/ AttemptFails(w) \/ WorkerDies(w)

FanoutSpec == FanoutInit /\ [][FanoutNext]_fanoutVars

\* A waiting job is taken by some worker, a worker goes on until it is done, fails
\* or dies, and a job whose holder died is found to have stalled.
FanoutFairness ==
    /\ WF_fanoutVars(\E w \in Workers : TakeFanout(w))
    /\ \A w \in Workers : WF_fanoutVars(WorkerStep(w))
    /\ WF_fanoutVars(job.holder \in Workers /\ runner[job.holder] = Idle /\ Stalled)

FairFanoutSpec == FanoutSpec /\ FanoutFairness

-----------------------------------------------------------------------------
(* Properties *)

\* Rows keep their shape, one user's device is one row, and what an attempt has
\* left to push to is among the devices it read.
FanTypeOK ==
    /\ device \in [Tokens -> Device]
    /\ gone \subseteq Tokens
    /\ job \in Job
    /\ job.state = "active" <=> job.holder # NoOne
    /\ runner \in [Workers -> Runner]
    /\ notified \subseteq People
    /\ pushes \in [Tokens -> Nat]
    /\ redone \in 0..Attempts + MaxStalled + 1
    /\ read \subseteq Tokens \X People

\* Once the alert is SENT, whoever the attempt that sent it or one before it was
\* going to push to has the in-app notification: also those whose push failed and
\* those whom an attempt that died had read, but for tokens that were dead or
\* another user's when the next attempt looked.
EveryoneIsTold ==
    \A d \in sentOut.owed : d[2] \in notified \/ d[1] \in gone \cup moved

\* The counts of a SENT alert add up, and nobody counts as reached who was not:
\* "queuing alone never counts as delivered".
CountsAddUp ==
    sentOut.status = "SENT" =>
        /\ sentOut.sent + sentOut.failed = sentOut.eligible
        /\ sentOut.sent <= Cardinality({t \in Tokens : pushes[t] > 0})

\* What a SENT alert says happened did happen: those it was for were told, and those
\* it counts were reached (alert-fanout.processor.ts).
OutcomeIsRecorded ==
    /\ EveryoneIsTold
    /\ CountsAddUp

\* A device gets the alert once, and once more for every attempt that ended or
\* lost its lock before the alert was SENT; repeating the purchase, or running the
\* job again after that, pushes to nobody.
PushedAgainAfterFailureOnly == \A t \in Tokens : pushes[t] <= 1 + redone

\* A token is given up only when its app is gone: a provider that is down, or a
\* result that comes after the token was registered anew, costs nobody a device.
InvalidIsDead == \A t \in Tokens : device[t].status = "INVALID" => t \in gone

\* The alert stays in its university: a push reaches a device of another only when
\* its token changed hands after the devices were read, an in-app notification never.
TenantIsolation ==
    /\ strangers \subseteq moved
    /\ \A u \in notified : TenantOf[u] = Home

\* A push repeats only a failed attempt, its result is held against dead tokens
\* only, and it stays in the university (alert-fanout.processor.ts).
PushesAreJustified ==
    /\ PushedAgainAfterFailureOnly
    /\ InvalidIsDead
    /\ TenantIsolation

\* Every fan-out ends, whatever fails: its job is done or given up.
FanoutEnds == [](job.state # "none" => <>(job.state \in {"done", "failed"}))

=============================================================================
