----------------------------- MODULE ItemProofs -----------------------------
(***************************************************************************)
(* Lost and found items, from the form to the match, and their             *)
(* administration, for any number of items, forms, uploads, workers and    *)
(* administrators.                                                         *)
(*                                                                         *)
(* No worker acts on what another one took, because a job is taken by one  *)
(* worker and a row is notified by the worker that created it. A reader    *)
(* that pages through the items has a page of newer ones before every item *)
(* it has yet to see. What an administrator's request checked of an        *)
(* account is still true when it writes, but for a status that another     *)
(* request changed in between.                                             *)
(***************************************************************************)
EXTENDS MCItems, RunningTotalLemmas, FiniteSetTheorems, TLAPS

-----------------------------------------------------------------------------
(* Matching: workers, jobs and rows *)

\* No two workers have one job, and a candidate was read as it was then.
WorkersInv ==
    \A w \in Workers :
        /\ worker[w].pc = "idle" => worker[w] = Idle
        /\ worker[w].pc # "idle" => worker[w].job \in Job
        /\ \A v \in Workers : worker[w].pc # "idle" /\ worker[v].job = worker[w].job => v = w
        /\ worker[w].pc \in {"notify_lost", "notify_found", "mark"} => worker[w].key \in MatchKey
        /\ \A c \in worker[w].todo :
              c.item \in OtherKind(worker[w].job.item) /\ c.revision <= item[c.item].revision

\* A job is never of a revision that is still to come.
JobsInv ==
    \A j \in Job :
        /\ jobs[j].state # "absent" => j.revision <= item[j.item].revision
        /\ jobs[j].state \notin {"completed", "failed"} => jobs[j].attempts < MaxAttempts

\* Every edit of a lost item is a revision; found items are not edited.
ContentInv ==
    /\ \A l \in LostItems : item[l].content = item[l].revision
    /\ \A f \in FoundItems : item[f].content = IF item[f].revision = 0 THEN 0 ELSE 1
    /\ \A i \in Items : item[i].active => item[i].revision # 0
    /\ \A i \in Items, p \in Photos : photo[<<i, p>>] # "none" => item[i].revision # 0

\* A row was scored from a text at least as new as the revision it is filed under.
RowsInv ==
    \A m \in matches :
        /\ m.key.lostRevision <= m.lostContent.text /\ m.lostContent.text <= item[m.key.lost].revision
        /\ m.foundContent.text = 1

\* A worker notifies the owner, then the finder, then marks the row.
NotifyInv ==
    /\ notifications \in [MatchKey \X {"lost", "found"} -> 0..1]
    /\ \A w \in Workers :
          /\ worker[w].pc \in {"notify_found", "mark"} => notifications[<<worker[w].key, "lost">>] = 1
          /\ worker[w].pc = "mark" => notifications[<<worker[w].key, "found">>] = 1

MatchingInv == TypeOK /\ WorkersInv /\ JobsInv /\ ContentInv /\ RowsInv /\ NotifyInv /\ NotifiedOnce

\* The initial states have the invariant.
LEMMA MatchingInitInv == Init => MatchingInv
<1> SUFFICES ASSUME Init PROVE MatchingInv
  OBVIOUS
<1>1. MaxRevision \in Nat /\ MaxAttempts \in Nat /\ 0 < MaxAttempts /\ None \notin Job
  BY MatchingAssumption
<1>2. Idle \in Worker /\ Idle.job = None /\ Idle.pc = "idle" /\ Idle.todo = {}
  BY DEF Idle, Worker
<1>3. TypeOK
  BY <1>1, <1>2 DEF Init, TypeOK
<1>4. WorkersInv
  BY <1>2 DEF Init, WorkersInv
<1>5. JobsInv
  BY <1>1 DEF Init, JobsInv
<1>6. ContentInv /\ RowsInv
  BY DEF Init, ContentInv, RowsInv, Items
<1>7. NotifyInv /\ NotifiedOnce
  BY <1>2 DEF Init, NotifyInv, NotifiedOnce
<1>. QED
  BY <1>3, <1>4, <1>5, <1>6, <1>7 DEF MatchingInv

-----------------------------------------------------------------------------
(* Requests *)

ItemRow == [revision: 0..MaxRevision, content: 0..MaxRevision, active: BOOLEAN]

\* What a request does to the queue.
LEMMA EnqueueJob ==
    ASSUME MatchingInv, NEW j \in Job, Enqueue(j) \/ UNCHANGED jobs
    PROVE  /\ jobs' \in [Job -> [state: {"absent", "waiting", "active", "completed", "failed"},
                                 attempts: 0..MaxAttempts, knew: SUBSET Photos]]
           /\ \A k \in Job : /\ jobs'[k].attempts = jobs[k].attempts /\ jobs'[k].knew = jobs[k].knew
                             /\ \/ jobs'[k].state = jobs[k].state
                                \/ k = j /\ jobs[k].state = "absent" /\ jobs'[k].state = "waiting"
  BY DEF MatchingInv, TypeOK, Enqueue

\* A request that moves one item on.
LEMMA ItemStep ==
    ASSUME MatchingInv, NEW i \in Items, NEW x \in ItemRow, item' = [item EXCEPT ![i] = x],
           x.revision >= item[i].revision, x.active => x.revision # 0,
           i \in LostItems => x.content = x.revision,
           i \in FoundItems => x.content = IF x.revision = 0 THEN 0 ELSE 1,
           NEW j \in Job, Enqueue(j) \/ UNCHANGED jobs, j.item = i, jobs' # jobs => j.revision <= x.revision,
           UNCHANGED <<photo, worker, matches, notifications>>
    PROVE  MatchingInv'
<1>1. /\ item' \in [Items -> ItemRow] /\ item'[i] = x
      /\ \A k \in Items : k # i => item'[k] = item[k]
  BY DEF MatchingInv, TypeOK, ItemRow
<1>2. \A k \in Items : item[k].revision <= item'[k].revision /\ item[k].revision \in Nat /\ item'[k].revision \in Nat
  BY <1>1, MatchingAssumption DEF MatchingInv, TypeOK, ItemRow
<1>3. /\ jobs' \in [Job -> [state: {"absent", "waiting", "active", "completed", "failed"},
                            attempts: 0..MaxAttempts, knew: SUBSET Photos]]
      /\ \A k \in Job : /\ jobs'[k].attempts = jobs[k].attempts
                        /\ \/ jobs'[k].state = jobs[k].state
                           \/ k = j /\ jobs[k].state = "absent" /\ jobs'[k].state = "waiting"
  BY EnqueueJob
<1>4. TypeOK'
  BY <1>1, <1>3 DEF MatchingInv, TypeOK, ItemRow
<1>5. WorkersInv'
  <2>1. ASSUME NEW w \in Workers, NEW c \in worker[w].todo PROVE c.revision <= item'[c.item].revision
    <3>1. c \in Candidate /\ c.revision <= item[c.item].revision
      BY DEF MatchingInv, TypeOK, WorkersInv, Worker
    <3>. QED
      BY <1>2, <3>1, MatchingAssumption DEF Candidate, Revision
  <2>. QED
    BY <2>1 DEF MatchingInv, WorkersInv
<1>6. JobsInv'
  <2> SUFFICES ASSUME NEW k \in Job
               PROVE  /\ jobs'[k].state # "absent" => k.revision <= item'[k.item].revision
                      /\ jobs'[k].state \notin {"completed", "failed"} => jobs'[k].attempts < MaxAttempts
    BY DEF JobsInv
  <2>1. k.revision \in Nat /\ k.item \in Items
    BY MatchingAssumption DEF Job, Revision
  <2>2. CASE jobs'[k].state = jobs[k].state
    BY <1>2, <1>3, <2>1, <2>2 DEF MatchingInv, JobsInv
  <2>3. CASE jobs'[k].state # jobs[k].state
    <3>1. k = j /\ jobs' # jobs /\ jobs[k].state = "absent"
      BY <1>3, <2>3
    <3>. QED
      BY <1>1, <1>3, <3>1 DEF MatchingInv, JobsInv
  <2>. QED
    BY <2>2, <2>3
<1>7. ContentInv'
  <2>1. \A k \in Items : item[k].revision # 0 => item'[k].revision # 0
    BY <1>2
  <2>. QED
    BY <1>1, <2>1 DEF MatchingInv, ContentInv, Items
<1>8. RowsInv'
  <2>1. ASSUME NEW m \in matches PROVE m.lostContent.text <= item'[m.key.lost].revision
    <3>1. m \in Match /\ m.lostContent.text <= item[m.key.lost].revision
      BY DEF MatchingInv, TypeOK, RowsInv
    <3>2. m.lostContent.text \in Nat /\ m.key.lost \in Items
      BY <3>1, MatchingAssumption DEF Match, MatchKey, Content, Revision, Items
    <3>. QED
      BY <1>2, <3>1, <3>2
  <2>. QED
    BY <2>1 DEF MatchingInv, RowsInv
<1>9. NotifyInv' /\ NotifiedOnce'
  BY DEF MatchingInv, NotifyInv, NotifiedOnce
<1>. QED
  BY <1>4, <1>5, <1>6, <1>7, <1>8, <1>9 DEF MatchingInv

\* The job of a revision.
LEMMA JobForType ==
    ASSUME NEW i \in Items, NEW n \in Revision, NEW x \in Photos \cup {None}
    PROVE  /\ JobFor(i, n, x) \in Job /\ JobFor(i, n, x).item = i
           /\ JobFor(i, n, x).revision = n
  BY DEF JobFor, Job

\* A request of an owner keeps what the workers rely on.
LEMMA RequestInv ==
    ASSUME MatchingInv, RequestNext
    PROVE  MatchingInv'
<1>0. item \in [Items -> ItemRow] /\ MaxRevision \in Nat /\ 1 <= MaxRevision /\ LostItems \cap FoundItems = {}
      /\ \A i \in Items : item[i].revision \in Nat /\ item[i].revision <= MaxRevision
  BY MatchingAssumption DEF MatchingInv, TypeOK, ItemRow
<1>01. 1 \in Revision /\ None \in Photos \cup {None}
  BY <1>0 DEF Revision
<1>1. ASSUME NEW i \in Items, Create(i) PROVE MatchingInv'
  <2> DEFINE x == [revision |-> 1, content |-> 1, active |-> TRUE]
  <2>1. x \in ItemRow /\ x.revision = 1 /\ x.content = 1
    BY <1>0 DEF ItemRow
  <2>2. item' = [item EXCEPT ![i] = x] /\ Enqueue(JobFor(i, 1, None)) /\ item[i].revision = 0
        /\ UNCHANGED <<photo, worker, matches, notifications>>
    BY <1>1 DEF Create
  <2>3. JobFor(i, 1, None) \in Job /\ JobFor(i, 1, None).item = i /\ JobFor(i, 1, None).revision = 1
    BY <1>01, JobForType
  <2> HIDE DEF x
  <2>4. x.revision >= item[i].revision /\ 1 <= x.revision /\ x.revision # 0
    BY <2>1, <2>2
  <2>. QED
    BY <2>1, <2>2, <2>3, <2>4, ItemStep
<1>2. ASSUME NEW i \in Items, Edit(i) PROVE MatchingInv'
  <2> DEFINE n == item[i].revision + 1
             x == [item[i] EXCEPT !.revision = @ + 1, !.content = @ + 1]
  <2>1. i \in LostItems /\ item[i].revision \in 1..(MaxRevision - 1) /\ item[i].content = item[i].revision
    BY <1>2 DEF Edit, MatchingInv, ContentInv
  <2>2. n \in Revision /\ n \in 0..MaxRevision /\ item[i].content + 1 = n /\ n # 0 /\ n >= item[i].revision
    BY <1>0, <2>1 DEF Revision
  <2>3. x \in ItemRow /\ x.revision = n /\ x.content = n
    BY <1>0, <2>2 DEF ItemRow
  <2>4. item' = [item EXCEPT ![i] = x] /\ Enqueue(JobFor(i, n, None))
        /\ UNCHANGED <<photo, worker, matches, notifications>>
    BY <1>2 DEF Edit
  <2>5. JobFor(i, n, None) \in Job /\ JobFor(i, n, None).item = i /\ JobFor(i, n, None).revision = n
    BY <2>2, JobForType
  <2>6. i \notin FoundItems
    BY <1>0, <2>1
  <2> HIDE DEF x, n
  <2>7. n <= n
    BY <2>2, <1>0 DEF Revision
  <2>. QED
    BY <2>1, <2>2, <2>3, <2>4, <2>5, <2>6, <2>7, ItemStep
<1>3. ASSUME NEW i \in Items, UpdateCustody(i) PROVE MatchingInv'
  <2> DEFINE n == item[i].revision + 1
             x == [item[i] EXCEPT !.revision = @ + 1]
  <2>1. i \in FoundItems /\ item[i].revision \in 1..(MaxRevision - 1) /\ item[i].content = 1
    BY <1>3 DEF UpdateCustody, MatchingInv, ContentInv
  <2>2. n \in Revision /\ n \in 0..MaxRevision /\ n # 0 /\ n >= item[i].revision
    BY <1>0, <2>1 DEF Revision
  <2>3. x \in ItemRow /\ x.revision = n /\ x.content = 1
    BY <1>0, <2>1, <2>2 DEF ItemRow
  <2>4. item' = [item EXCEPT ![i] = x] /\ UNCHANGED <<photo, jobs, worker, matches, notifications>>
    BY <1>3 DEF UpdateCustody
  <2>5. JobFor(i, n, None) \in Job /\ JobFor(i, n, None).item = i
    BY <2>2, JobForType
  <2>6. i \notin LostItems
    BY <1>0, <2>1
  <2> HIDE DEF x, n
  <2>. QED
    BY <2>2, <2>3, <2>4, <2>5, <2>6, ItemStep
<1>4. ASSUME NEW i \in Items, ItemClaimed(i) PROVE MatchingInv'
  <2> DEFINE x == [item[i] EXCEPT !.active = FALSE]
  <2>1. x \in ItemRow /\ x.revision = item[i].revision /\ x.content = item[i].content /\ ~x.active
    BY <1>0 DEF ItemRow
  <2>2. item' = [item EXCEPT ![i] = x] /\ UNCHANGED <<photo, jobs, worker, matches, notifications>>
    BY <1>4 DEF ItemClaimed
  <2>3. JobFor(i, 1, None) \in Job /\ JobFor(i, 1, None).item = i
    BY <1>01, JobForType
  <2> HIDE DEF x
  <2>4. /\ i \in LostItems => x.content = x.revision
        /\ i \in FoundItems => x.content = IF x.revision = 0 THEN 0 ELSE 1
        /\ x.revision >= item[i].revision
    BY <1>0, <2>1 DEF MatchingInv, ContentInv
  <2>. QED
    BY <2>1, <2>2, <2>3, <2>4, ItemStep
<1>5. ASSUME NEW i \in Items, NEW p \in Photos, EnqueuePhoto(i, p) PROVE MatchingInv'
  <2> DEFINE n == item[i].revision
  <2>1. n \in Revision /\ n # 0
    BY <1>0, <1>5 DEF EnqueuePhoto, Revision, MatchingInv, ContentInv
  <2>2. JobFor(i, n, p) \in Job /\ JobFor(i, n, p).item = i /\ JobFor(i, n, p).revision = n
    BY <2>1, JobForType
  <2>3. item' = [item EXCEPT ![i] = item[i]] /\ Enqueue(JobFor(i, n, p))
        /\ UNCHANGED <<photo, worker, matches, notifications>>
    <3>1. item' = [item EXCEPT ![i] = item[i]] /\ UNCHANGED <<photo, worker, matches, notifications>>
      BY <1>0, <1>5 DEF EnqueuePhoto
    <3>2. jobs[JobFor(i, n, p)].state = "absent" /\ jobs' = [jobs EXCEPT ![JobFor(i, n, p)].state = "waiting"]
      BY <1>5, <2>1 DEF EnqueuePhoto
    <3>. QED
      BY <3>1, <3>2 DEF Enqueue
  <2>4. /\ i \in LostItems => item[i].content = item[i].revision
        /\ i \in FoundItems => item[i].content = IF item[i].revision = 0 THEN 0 ELSE 1
        /\ item[i].revision >= item[i].revision /\ n <= n
        /\ item[i] \in ItemRow
    BY <1>0 DEF MatchingInv, ContentInv
  <2>. QED
    BY <2>1, <2>2, <2>3, <2>4, ItemStep
<1>6. ASSUME NEW i \in Items, NEW p \in Photos, StorePhoto(i, p) PROVE MatchingInv'
  <2>1. UNCHANGED <<item, jobs, worker, matches, notifications>> /\ item[i].revision # 0
        /\ photo' = [photo EXCEPT ![<<i, p>>] = "stored"]
    BY <1>0, <1>6 DEF StorePhoto
  <2>2. TypeOK' /\ ContentInv'
    BY <2>1 DEF MatchingInv, TypeOK, ContentInv
  <2>. QED
    BY <2>1, <2>2 DEF MatchingInv, WorkersInv, JobsInv, RowsInv, NotifyInv, NotifiedOnce, OtherKind
<1>. QED
  BY <1>1, <1>2, <1>3, <1>4, <1>5, <1>6 DEF RequestNext

-----------------------------------------------------------------------------
(* The worker *)

JobRow == [state: {"absent", "waiting", "active", "completed", "failed"}, attempts: 0..MaxAttempts,
           knew: SUBSET Photos]

\* What one worker's move keeps of WorkersInv.
LEMMA WorkersStep ==
    ASSUME MatchingInv, NEW w \in Workers, NEW x \in Worker, worker' = [worker EXCEPT ![w] = x],
           UNCHANGED item, x.pc = "idle" => x = Idle, x.pc # "idle" => x.job \in Job,
           x.pc # "idle" => \A v \in Workers : worker[v].job = x.job => v = w,
           x.pc \in {"notify_lost", "notify_found", "mark"} => x.key \in MatchKey,
           \A c \in x.todo : c.item \in OtherKind(x.job.item) /\ c.revision <= item[c.item].revision
    PROVE  /\ worker' \in [Workers -> Worker] /\ worker'[w] = x
           /\ \A v \in Workers : v # w => worker'[v] = worker[v]
           /\ WorkersInv'
<1>1. /\ worker' \in [Workers -> Worker] /\ worker'[w] = x
      /\ \A v \in Workers : v # w => worker'[v] = worker[v]
  BY DEF MatchingInv, TypeOK
<1>2. None \notin Job /\ Idle.job = None /\ Idle.pc = "idle"
  BY MatchingAssumption DEF Idle
<1>3. ASSUME NEW u \in Workers, NEW v \in Workers, worker'[u].pc # "idle", worker'[v].job = worker'[u].job
      PROVE  v = u
  <2>1. CASE u = w
    BY <1>1, <1>3, <2>1
  <2>2. CASE u # w /\ v # w
    BY <1>1, <1>3, <2>2 DEF MatchingInv, WorkersInv
  <2>3. CASE u # w /\ v = w
    <3>1. worker[u].job \in Job /\ worker[u].job = x.job
      BY <1>1, <1>3, <2>3 DEF MatchingInv, WorkersInv
    <3>2. x.pc # "idle"
      BY <1>2, <3>1
    <3>. QED
      BY <2>3, <3>1, <3>2
  <2>. QED
    BY <2>1, <2>2, <2>3
<1>4. ASSUME NEW u \in Workers
      PROVE  /\ worker'[u].pc = "idle" => worker'[u] = Idle
             /\ worker'[u].pc # "idle" => worker'[u].job \in Job
             /\ worker'[u].pc \in {"notify_lost", "notify_found", "mark"} => worker'[u].key \in MatchKey
             /\ \A c \in worker'[u].todo : /\ c.item \in OtherKind(worker'[u].job.item)
                                           /\ c.revision <= item'[c.item].revision
  <2>1. CASE u = w
    BY <1>1, <2>1
  <2>2. CASE u # w
    BY <1>1, <2>2 DEF MatchingInv, WorkersInv
  <2>. QED
    BY <2>1, <2>2
<1>. QED
  BY <1>1, <1>3, <1>4 DEF WorkersInv, OtherKind

\* What one job's move keeps of JobsInv.
LEMMA JobsStep ==
    ASSUME MatchingInv, NEW j \in Job, NEW r \in JobRow, jobs' = [jobs EXCEPT ![j] = r], UNCHANGED item,
           r.state # "absent" => j.revision <= item[j.item].revision,
           r.state \notin {"completed", "failed"} => r.attempts < MaxAttempts
    PROVE  /\ jobs' \in [Job -> JobRow] /\ jobs'[j] = r
           /\ \A k \in Job : k # j => jobs'[k] = jobs[k]
           /\ JobsInv'
  BY DEF MatchingInv, TypeOK, JobRow, JobsInv

\* A move of a worker that keeps its job and touches no job.
LEMMA OwnJobKept ==
    ASSUME MatchingInv, NEW w \in Workers, worker' \in [Workers -> Worker], jobs' = jobs,
           worker'[w].job = worker[w].job, \A v \in Workers : v # w => worker'[v] = worker[v]
    PROVE  /\ \A j \in Job : jobs'[j].state = "active" <=> \E v \in Workers : worker'[v].job = j
           /\ jobs' \in [Job -> JobRow]
<1>1. jobs \in [Job -> JobRow]
  BY DEF MatchingInv, TypeOK, JobRow
<1>2. ASSUME NEW j \in Job PROVE jobs[j].state = "active" <=> \E v \in Workers : worker[v].job = j
  BY DEF MatchingInv, TypeOK
<1>3. \A v \in Workers : worker'[v].job = worker[v].job
  OBVIOUS
<1>. QED
  BY <1>1, <1>2, <1>3

\* A row for every kind of thing a worker may hold.
LEMMA BusyWorker ==
    ASSUME MatchingInv, NEW w \in Workers, worker[w].pc # "idle"
    PROVE  /\ worker[w] \in Worker /\ worker[w].job \in Job /\ jobs[worker[w].job].state = "active"
           /\ \A v \in Workers : worker[v].job = worker[w].job => v = w
           /\ worker[w].job.revision <= item[worker[w].job.item].revision
           /\ worker[w].job.item \in Items /\ worker[w].job.revision \in Revision
           /\ jobs[worker[w].job].attempts < MaxAttempts
<1>1. worker[w].job \in Job /\ worker[w] \in Worker
  BY DEF MatchingInv, WorkersInv, TypeOK
<1>2. jobs[worker[w].job].state = "active"
  BY <1>1 DEF MatchingInv, TypeOK
<1>. QED
  BY <1>1, <1>2 DEF MatchingInv, WorkersInv, JobsInv, Job

\* TakeJob keeps the invariant.
LEMMA TakeJobInv ==
    ASSUME MatchingInv, NEW w \in Workers, NEW j \in Job, TakeJob(w, j)
    PROVE  MatchingInv'
<1>1. worker[w] = Idle /\ Idle.todo = {} /\ Idle.key = None /\ None \notin Job /\ Idle.job = None
  BY MatchingAssumption DEF TakeJob, MatchingInv, WorkersInv, Idle
<1>2. jobs[j].state = "waiting" /\ UNCHANGED <<item, photo, matches, notifications>>
  BY DEF TakeJob
<1>3. \A v \in Workers : worker[v].job # j
  BY <1>2 DEF MatchingInv, TypeOK
<1>4. j.revision <= item[j.item].revision /\ jobs[j].attempts < MaxAttempts
  BY <1>2 DEF MatchingInv, JobsInv
<1>5. CASE jobs' = [jobs EXCEPT ![j].state = "completed"] /\ UNCHANGED worker
  <2> DEFINE r == [jobs[j] EXCEPT !.state = "completed"]
  <2>1. r \in JobRow /\ r.state = "completed" /\ jobs' = [jobs EXCEPT ![j] = r]
    <3>1. jobs[j] \in JobRow
      BY DEF MatchingInv, TypeOK, JobRow
    <3>. QED
      BY <1>5, <3>1 DEF JobRow
  <2> HIDE DEF r
  <2>2. /\ jobs' \in [Job -> JobRow] /\ jobs'[j] = r
        /\ \A k \in Job : k # j => jobs'[k] = jobs[k]
        /\ JobsInv'
    BY <1>2, <1>4, <2>1, JobsStep
  <2>3. TypeOK'
    <3>1. \A k \in Job : jobs'[k].state = "active" <=> \E v \in Workers : worker'[v].job = k
      BY <1>2, <1>3, <1>5, <2>1, <2>2 DEF MatchingInv, TypeOK
    <3>. QED
      BY <1>2, <1>5, <2>2, <3>1 DEF MatchingInv, TypeOK, JobRow
  <2>. QED
    BY <1>2, <1>5, <2>2, <2>3
    DEF MatchingInv, WorkersInv, ContentInv, RowsInv, NotifyInv, NotifiedOnce
<1>6. CASE /\ jobs' = [jobs EXCEPT ![j].state = "active"]
           /\ worker' = [worker EXCEPT ![w].pc = "photos", ![w].job = j]
  <2> DEFINE r == [jobs[j] EXCEPT !.state = "active"]
             x == [worker[w] EXCEPT !.pc = "photos", !.job = j]
  <2>1. r \in JobRow /\ r.state = "active" /\ r.attempts = jobs[j].attempts /\ jobs' = [jobs EXCEPT ![j] = r]
    BY <1>6 DEF MatchingInv, TypeOK, JobRow
  <2>2. x \in Worker /\ x.pc = "photos" /\ x.job = j /\ x.todo = {} /\ worker' = [worker EXCEPT ![w] = x]
    BY <1>1, <1>6 DEF Worker, Idle, MatchingInv, TypeOK
  <2> HIDE DEF r, x
  <2>3. /\ jobs' \in [Job -> JobRow] /\ jobs'[j] = r
        /\ \A k \in Job : k # j => jobs'[k] = jobs[k]
        /\ JobsInv'
    BY <1>2, <1>4, <2>1, JobsStep
  <2>4. /\ worker' \in [Workers -> Worker] /\ worker'[w] = x
        /\ \A v \in Workers : v # w => worker'[v] = worker[v]
        /\ WorkersInv'
    BY <1>2, <1>3, <2>2, WorkersStep
  <2>5. TypeOK'
    <3>1. ASSUME NEW k \in Job
          PROVE  jobs'[k].state = "active" <=> \E v \in Workers : worker'[v].job = k
      <4>1. CASE k = j
        BY <2>1, <2>2, <2>3, <2>4, <4>1
      <4>2. CASE k # j
        <5>1. \A v \in Workers : worker'[v].job = k <=> worker[v].job = k
          BY <1>1, <2>2, <2>4, <4>2
        <5>. QED
          BY <2>3, <4>2, <5>1 DEF MatchingInv, TypeOK
      <4>. QED
        BY <4>1, <4>2
    <3>. QED
      BY <1>2, <2>3, <2>4, <3>1 DEF MatchingInv, TypeOK, JobRow
  <2>6. NotifyInv'
    BY <1>2, <2>2, <2>4 DEF MatchingInv, NotifyInv
  <2>. QED
    BY <1>2, <2>3, <2>4, <2>5, <2>6 DEF MatchingInv, ContentInv, RowsInv, NotifiedOnce
<1>. QED
  BY <1>5, <1>6 DEF TakeJob

\* A worker that lists, embeds or reads photos keeps the invariant.
LEMMA PhotoStepInv ==
    ASSUME MatchingInv, NEW w \in Workers,
           ListPhotos(w) \/ (\E p \in Photos : EmbedPhoto(w, p)) \/ ReadPhoto(w)
    PROVE  MatchingInv'
<1>1. worker[w].pc \in {"photos", "embed", "ocr"} /\ UNCHANGED <<item, jobs, matches, notifications>>
  BY DEF ListPhotos, EmbedPhoto, ReadPhoto
<1>2. /\ worker[w] \in Worker /\ worker[w].job \in Job /\ worker[w].job.item \in Items
      /\ \A v \in Workers : worker[v].job = worker[w].job => v = w
      /\ item[worker[w].job.item].revision # 0
  <2>1. worker[w].job.revision <= item[worker[w].job.item].revision /\ worker[w].job.revision \in Revision
        /\ worker[w].job.item \in Items
    BY <1>1, BusyWorker
  <2>2. item[worker[w].job.item].revision # 0
    BY <2>1, MatchingAssumption DEF Revision, MatchingInv, TypeOK
  <2>. QED
    BY <1>1, <2>2, BusyWorker
<1>3. PICK x \in Worker : /\ worker' = [worker EXCEPT ![w] = x] /\ x.pc \in {"embed", "ocr"}
                          /\ x.job = worker[w].job /\ x.todo = worker[w].todo
  <2>1. CASE ListPhotos(w)
    <3> DEFINE u == {p \in Photos : photo[<<worker[w].job.item, p>>] = "stored"}
               x == [worker[w] EXCEPT !.pc = "embed", !.unread = u]
    <3>1. worker' = [worker EXCEPT ![w] = x]
      BY <2>1 DEF ListPhotos
    <3>2. u \in SUBSET Photos
      OBVIOUS
    <3> HIDE DEF u
    <3>3. x \in Worker /\ x.pc = "embed" /\ x.job = worker[w].job /\ x.todo = worker[w].todo
      BY <1>2, <3>2 DEF Worker
    <3> HIDE DEF x
    <3>. QED
      BY <3>1, <3>3
  <2>2. ASSUME NEW p \in Photos, EmbedPhoto(w, p)
        PROVE  \E x \in Worker : /\ worker' = [worker EXCEPT ![w] = x] /\ x.pc \in {"embed", "ocr"}
                                 /\ x.job = worker[w].job /\ x.todo = worker[w].todo
    <3> DEFINE x == [worker[w] EXCEPT !.pc = "ocr", !.photo = p]
    <3>1. worker' = [worker EXCEPT ![w] = x]
      BY <2>2 DEF EmbedPhoto
    <3>2. x \in Worker /\ x.pc = "ocr" /\ x.job = worker[w].job /\ x.todo = worker[w].todo
      BY <1>2 DEF Worker
    <3> HIDE DEF x
    <3>. QED
      BY <3>1, <3>2
  <2>3. CASE ReadPhoto(w)
    <3> DEFINE x == [worker[w] EXCEPT !.pc = "embed", !.unread = @ \ {worker[w].photo}, !.photo = None]
    <3>1. worker' = [worker EXCEPT ![w] = x]
      BY <2>3 DEF ReadPhoto
    <3>2. x \in Worker /\ x.pc = "embed" /\ x.job = worker[w].job /\ x.todo = worker[w].todo
      BY <1>2 DEF Worker
    <3> HIDE DEF x
    <3>. QED
      BY <3>1, <3>2
  <2>. QED
    BY <2>1, <2>2, <2>3
<1>4. /\ worker' \in [Workers -> Worker] /\ worker'[w] = x
      /\ \A v \in Workers : v # w => worker'[v] = worker[v]
      /\ WorkersInv'
  <2>1. \A c \in x.todo : c.item \in OtherKind(x.job.item) /\ c.revision <= item[c.item].revision
    BY <1>3 DEF MatchingInv, WorkersInv
  <2>. QED
    BY <1>1, <1>2, <1>3, <2>1, WorkersStep
<1>5. /\ photo' \in [Items \X Photos -> {"none", "stored", "embedded", "read"}]
      /\ \A i \in Items, p \in Photos : photo'[<<i, p>>] # "none" =>
            photo[<<i, p>>] # "none" \/ i = worker[w].job.item
  <2>1. photo \in [Items \X Photos -> {"none", "stored", "embedded", "read"}]
    BY DEF MatchingInv, TypeOK
  <2>2. CASE ListPhotos(w)
    BY <2>1, <2>2 DEF ListPhotos
  <2>3. ASSUME NEW p \in Photos, EmbedPhoto(w, p)
        PROVE  photo' = [photo EXCEPT ![<<worker[w].job.item, p>>] = IF @ = "stored" THEN "embedded" ELSE @]
    BY <2>3 DEF EmbedPhoto
  <2>4. CASE ReadPhoto(w)
    BY <2>1, <2>4 DEF ReadPhoto
  <2>. QED
    BY <2>1, <2>2, <2>3, <2>4
<1>6. TypeOK'
  <2>1. /\ \A j \in Job : jobs'[j].state = "active" <=> \E v \in Workers : worker'[v].job = j
        /\ jobs' \in [Job -> JobRow]
    BY <1>1, <1>3, <1>4, OwnJobKept
  <2>. QED
    BY <1>1, <1>4, <1>5, <2>1 DEF MatchingInv, TypeOK, JobRow
<1>7. ContentInv'
  BY <1>1, <1>2, <1>5 DEF MatchingInv, ContentInv
<1>8. NotifyInv'
  BY <1>1, <1>3, <1>4 DEF MatchingInv, NotifyInv
<1>. QED
  BY <1>1, <1>4, <1>6, <1>7, <1>8 DEF MatchingInv, JobsInv, RowsInv, NotifiedOnce

\* FindCandidates keeps the invariant.
LEMMA FindCandidatesInv ==
    ASSUME MatchingInv, NEW w \in Workers, FindCandidates(w)
    PROVE  MatchingInv'
<1>1. worker[w].pc = "embed" /\ UNCHANGED <<item, photo, matches, notifications>>
  BY DEF FindCandidates
<1>2. /\ worker[w] \in Worker /\ worker[w].job \in Job /\ worker[w].job.item \in Items
      /\ \A v \in Workers : worker[v].job = worker[w].job => v = w
      /\ jobs[worker[w].job].state = "active" /\ jobs[worker[w].job].attempts < MaxAttempts
      /\ worker[w].job.revision <= item[worker[w].job.item].revision
  BY <1>1, BusyWorker
<1>3. PICK todo \in SUBSET Candidates(worker[w].job.item) :
          worker' = [worker EXCEPT ![w].pc = "score", ![w].todo = todo]
  BY DEF FindCandidates
<1> DEFINE x == [worker[w] EXCEPT !.pc = "score", !.todo = todo]
<1>4. \A c \in todo : /\ c \in Candidate /\ c.item \in OtherKind(worker[w].job.item)
                      /\ c.revision = item[c.item].revision
  <2> SUFFICES ASSUME NEW c \in todo
               PROVE  /\ c \in Candidate /\ c.item \in OtherKind(worker[w].job.item)
                      /\ c.revision = item[c.item].revision
    OBVIOUS
  <2>1. PICK i \in OtherKind(worker[w].job.item) :
            item[i].active /\ c = [item |-> i, revision |-> item[i].revision]
    BY <1>3 DEF Candidates
  <2>2. i \in Items
    BY DEF OtherKind, Items
  <2>3. item[i].revision \in Revision
    BY <2>1, <2>2, MatchingAssumption DEF MatchingInv, TypeOK, ContentInv, Revision
  <2>. QED
    BY <2>1, <2>2, <2>3 DEF Candidate
<1>5. x \in Worker /\ x.pc = "score" /\ x.job = worker[w].job /\ x.todo = todo
      /\ worker' = [worker EXCEPT ![w] = x]
  <2>1. todo \in SUBSET Candidate
    BY <1>4
  <2>. QED
    BY <1>2, <1>3, <2>1 DEF Worker, MatchingInv, TypeOK
<1> HIDE DEF x
<1>6. \A c \in x.todo : c.item \in OtherKind(x.job.item) /\ c.revision <= item[c.item].revision
  <2> SUFFICES ASSUME NEW c \in x.todo
               PROVE  c.item \in OtherKind(x.job.item) /\ c.revision <= item[c.item].revision
    OBVIOUS
  <2>1. c \in Candidate /\ c.item \in OtherKind(x.job.item) /\ c.revision = item[c.item].revision
    BY <1>4, <1>5
  <2>2. c.revision \in Nat
    BY <2>1, MatchingAssumption DEF Candidate, Revision
  <2>. QED
    BY <2>1, <2>2
<1>7. /\ worker' \in [Workers -> Worker] /\ worker'[w] = x
      /\ \A v \in Workers : v # w => worker'[v] = worker[v]
      /\ WorkersInv'
  BY <1>1, <1>2, <1>5, <1>6, WorkersStep
<1>8. PICK r \in JobRow : /\ r.state = "active" /\ r.attempts = jobs[worker[w].job].attempts
                          /\ jobs' = [jobs EXCEPT ![worker[w].job] = r]
  <2> DEFINE r == [jobs[worker[w].job] EXCEPT !.knew = Says(worker[w].job.item)]
  <2>1. jobs' = [jobs EXCEPT ![worker[w].job] = r]
    BY <1>2 DEF FindCandidates
  <2>2. r \in JobRow /\ r.state = "active" /\ r.attempts = jobs[worker[w].job].attempts
    <3>1. jobs[worker[w].job] \in JobRow
      BY <1>2 DEF MatchingInv, TypeOK, JobRow
    <3>2. Says(worker[w].job.item) \in SUBSET Photos
      BY DEF Says
    <3>. QED
      BY <1>2, <3>1, <3>2 DEF JobRow
  <2> HIDE DEF r
  <2>. QED
    BY <2>1, <2>2
<1>9. /\ jobs' \in [Job -> JobRow] /\ jobs'[worker[w].job] = r
      /\ \A k \in Job : k # worker[w].job => jobs'[k] = jobs[k]
      /\ JobsInv'
  BY <1>1, <1>2, <1>8, JobsStep
<1>10. TypeOK'
  <2>1. ASSUME NEW j \in Job PROVE jobs'[j].state = "active" <=> \E v \in Workers : worker'[v].job = j
    <3>1. \A v \in Workers : worker'[v].job = worker[v].job
      BY <1>5, <1>7
    <3>2. jobs'[j].state = jobs[j].state
      BY <1>2, <1>8, <1>9
    <3>3. jobs[j].state = "active" <=> \E v \in Workers : worker[v].job = j
      BY DEF MatchingInv, TypeOK
    <3>. QED
      BY <3>1, <3>2, <3>3
  <2>. QED
    BY <1>1, <1>7, <1>9, <2>1 DEF MatchingInv, TypeOK, JobRow
<1>11. NotifyInv'
  BY <1>1, <1>5, <1>7 DEF MatchingInv, NotifyInv
<1>. QED
  BY <1>1, <1>7, <1>9, <1>10, <1>11 DEF MatchingInv, ContentInv, RowsInv, NotifiedOnce

\* A scored row is filed under the revisions of the job and of the candidate, with the
\* contents the items have now.
LEMMA ScoredRow ==
    ASSUME MatchingInv, NEW j \in Job, j.revision <= item[j.item].revision, NEW c \in Candidate,
           c.item \in OtherKind(j.item), c.revision <= item[c.item].revision
    PROVE  /\ Scored(j, c) \in Match /\ Scored(j, c).key \in MatchKey /\ ~Scored(j, c).notifiedAt
           /\ Scored(j, c).lostContent = Now(Scored(j, c).key.lost)
           /\ Scored(j, c).foundContent = Now(Scored(j, c).key.found)
           /\ Scored(j, c).key.lostRevision <= Scored(j, c).lostContent.text
           /\ Scored(j, c).lostContent.text = item[Scored(j, c).key.lost].revision
           /\ Scored(j, c).foundContent.text = 1
<1>1. /\ j.item \in Items /\ j.revision \in Revision /\ c.item \in Items /\ c.revision \in Revision
      /\ item \in [Items -> ItemRow] /\ MaxRevision \in Nat /\ 1 \in Revision
  BY MatchingAssumption DEF Job, Candidate, Revision, MatchingInv, TypeOK, ItemRow
<1>2. ASSUME NEW l \in LostItems, NEW f \in FoundItems, NEW a \in Revision, NEW b \in Revision,
             a <= item[l].revision, b <= item[f].revision,
             Scored(j, c) = [key |-> [lost |-> l, found |-> f, lostRevision |-> a, foundRevision |-> b],
                             lostContent |-> Now(l), foundContent |-> Now(f),
                             notifiedAt |-> FALSE]
      PROVE  /\ Scored(j, c) \in Match /\ Scored(j, c).key \in MatchKey /\ ~Scored(j, c).notifiedAt
             /\ Scored(j, c).lostContent = Now(Scored(j, c).key.lost)
             /\ Scored(j, c).foundContent = Now(Scored(j, c).key.found)
             /\ Scored(j, c).key.lostRevision <= Scored(j, c).lostContent.text
             /\ Scored(j, c).lostContent.text = item[Scored(j, c).key.lost].revision
             /\ Scored(j, c).foundContent.text = 1
  <2>1. item[l].content = item[l].revision /\ item[f].content = IF item[f].revision = 0 THEN 0 ELSE 1
    BY DEF MatchingInv, ContentInv
  <2>2. item[l].revision \in 0..MaxRevision /\ item[f].revision \in 0..MaxRevision
    BY <1>1 DEF ItemRow, Items
  <2>3. item[l].revision \in Revision /\ item[f].content = 1 /\ item[l].content \in Revision
    BY <1>1, <1>2, <2>1, <2>2 DEF Revision
  <2>4. [lost |-> l, found |-> f, lostRevision |-> a, foundRevision |-> b] \in MatchKey
    BY DEF MatchKey
  <2>5. Now(l) \in Content /\ Now(f) \in Content /\ Now(l).text = item[l].revision /\ Now(f).text = 1
    <3>1. Says(l) \in SUBSET Photos /\ Says(f) \in SUBSET Photos
      BY DEF Says
    <3>2. item[f].content \in Revision
      BY <1>1, <2>3
    <3>. QED
      BY <2>1, <2>3, <3>1, <3>2 DEF Now, Content
  <2>. QED
    BY <1>1, <1>2, <2>4, <2>5 DEF Match
<1>3. CASE j.item \in LostItems
  <2>1. c.item \in FoundItems
    BY <1>3 DEF OtherKind
  <2>2. Scored(j, c) = [key |-> [lost |-> j.item, found |-> c.item,
                                 lostRevision |-> j.revision, foundRevision |-> c.revision],
                        lostContent |-> Now(j.item), foundContent |-> Now(c.item),
                        notifiedAt |-> FALSE]
    BY <1>3 DEF Scored
  <2>. QED
    BY <1>1, <1>2, <1>3, <2>1, <2>2
<1>4. CASE j.item \notin LostItems
  <2>1. j.item \in FoundItems /\ c.item \in LostItems
    BY <1>1, <1>4 DEF OtherKind, Items
  <2>2. Scored(j, c) = [key |-> [lost |-> c.item, found |-> j.item,
                                 lostRevision |-> c.revision, foundRevision |-> j.revision],
                        lostContent |-> Now(c.item), foundContent |-> Now(j.item),
                        notifiedAt |-> FALSE]
    BY <1>4 DEF Scored
  <2>. QED
    BY <1>1, <1>2, <2>1, <2>2
<1>. QED
  BY <1>3, <1>4

\* ScoreCandidate keeps the invariant.
LEMMA ScoreCandidateInv ==
    ASSUME MatchingInv, NEW w \in Workers, ScoreCandidate(w)
    PROVE  MatchingInv'
<1>1. worker[w].pc = "score" /\ UNCHANGED <<item, photo, jobs, notifications>>
  BY DEF ScoreCandidate
<1>2. /\ worker[w] \in Worker /\ worker[w].job \in Job /\ worker[w].job.item \in Items
      /\ worker[w].job.revision <= item[worker[w].job.item].revision
      /\ \A v \in Workers : worker[v].job = worker[w].job => v = w
  BY <1>1, BusyWorker
<1>3. PICK c \in worker[w].todo :
          /\ matches' = IF ~IsStrong(Scored(worker[w].job, c)) \/ Scored(worker[w].job, c).key \in Keys
                        THEN matches ELSE matches \cup {Scored(worker[w].job, c)}
          /\ Notifies(w, c, Scored(worker[w].job, c))
  BY DEF ScoreCandidate
<1>4. /\ c \in Candidate /\ c.item \in OtherKind(worker[w].job.item) /\ c.revision <= item[c.item].revision
      /\ \A d \in worker[w].todo : d.item \in OtherKind(worker[w].job.item) /\ d.revision <= item[d.item].revision
  BY <1>2 DEF Worker, MatchingInv, WorkersInv
<1>5. PICK m \in Match : /\ m = Scored(worker[w].job, c) /\ m.key \in MatchKey /\ ~m.notifiedAt
                         /\ m.key.lostRevision <= m.lostContent.text
                         /\ m.lostContent.text = item[m.key.lost].revision /\ m.foundContent.text = 1
  BY <1>2, <1>4, ScoredRow
<1>6. PICK x : /\ worker' = [worker EXCEPT ![w] = x]
               /\ \/ x = [worker[w] EXCEPT !.pc = "notify_lost", !.todo = @ \ {c}, !.key = m.key]
                  \/ x = [worker[w] EXCEPT !.todo = @ \ {c}]
  <2> DEFINE a == [worker[w] EXCEPT !.pc = "notify_lost", !.todo = @ \ {c}, !.key = m.key]
             b == [worker[w] EXCEPT !.todo = @ \ {c}]
  <2>1. worker' = [worker EXCEPT ![w] = IF IsStrong(m) /\ ~(\E n \in matches : n.key = m.key /\ n.notifiedAt)
                                        THEN a ELSE b]
    <3>1. Notifies(w, c, m)
      BY <1>3, <1>5
    <3>. QED
      BY <3>1 DEF Notifies
  <2> HIDE DEF a, b
  <2>2. worker' = [worker EXCEPT ![w] = a] \/ worker' = [worker EXCEPT ![w] = b]
    BY <2>1
  <2>. QED
    BY <2>2 DEF a, b
<1>7. /\ x \in Worker /\ x.pc \in {"notify_lost", "score"} /\ x.job = worker[w].job /\ x.todo \subseteq worker[w].todo
      /\ x.pc = "notify_lost" => x.key \in MatchKey
  BY <1>1, <1>2, <1>5, <1>6 DEF Worker
<1>8. /\ worker' \in [Workers -> Worker] /\ worker'[w] = x
      /\ \A v \in Workers : v # w => worker'[v] = worker[v]
      /\ WorkersInv'
  <2>1. \A d \in x.todo : d.item \in OtherKind(x.job.item) /\ d.revision <= item[d.item].revision
    BY <1>4, <1>7
  <2>. QED
    BY <1>1, <1>2, <1>6, <1>7, <2>1, WorkersStep
<1>9. matches' = matches \/ (m.key \notin Keys /\ matches' = matches \cup {m})
  BY <1>3, <1>5
<1>10. TypeOK'
  <2>1. /\ \A j \in Job : jobs'[j].state = "active" <=> \E v \in Workers : worker'[v].job = j
        /\ jobs' \in [Job -> JobRow]
    BY <1>1, <1>7, <1>8, OwnJobKept
  <2>2. matches' \subseteq Match
    BY <1>9 DEF MatchingInv, TypeOK
  <2>3. \A a, b \in matches' : a.key = b.key => a = b
    BY <1>9 DEF MatchingInv, TypeOK, Keys
  <2>. QED
    BY <1>1, <1>8, <2>1, <2>2, <2>3 DEF MatchingInv, TypeOK, JobRow
<1>11. RowsInv'
  <2>1. m.lostContent.text <= item[m.key.lost].revision
    BY <1>5, MatchingAssumption DEF Match, Content, Revision
  <2>. QED
    BY <1>1, <1>5, <1>9, <2>1 DEF MatchingInv, RowsInv
<1>12. NotifyInv'
  BY <1>1, <1>7, <1>8 DEF MatchingInv, NotifyInv
<1>13. NotifiedOnce'
  BY <1>1, <1>5, <1>9 DEF MatchingInv, NotifiedOnce
<1>. QED
  BY <1>1, <1>8, <1>10, <1>11, <1>12, <1>13 DEF MatchingInv, JobsInv, ContentInv

\* NoMoreCandidates keeps the invariant.
LEMMA NoMoreCandidatesInv ==
    ASSUME MatchingInv, NEW w \in Workers, NoMoreCandidates(w) \/ JobFail(w)
    PROVE  MatchingInv'
<1>1. worker[w].pc # "idle" /\ UNCHANGED <<item, photo, matches, notifications>> /\ worker' = [worker EXCEPT ![w] = Idle]
  BY DEF NoMoreCandidates, JobFail
<1>2. Idle \in Worker /\ Idle.pc = "idle" /\ Idle.job = None /\ Idle.todo = {} /\ None \notin Job
  BY MatchingAssumption DEF Idle, Worker
<1>3. PICK j \in Job : j = worker[w].job /\ jobs[j].state = "active"
                       /\ (\A v \in Workers : worker[v].job = j => v = w)
                       /\ j.revision <= item[j.item].revision /\ jobs[j].attempts < MaxAttempts
  BY <1>1, BusyWorker
<1>4. jobs[j] \in JobRow /\ MaxAttempts \in Nat /\ jobs[j].attempts \in Nat
  BY MatchingAssumption DEF MatchingInv, TypeOK, JobRow
<1>5. PICK r \in JobRow : /\ jobs' = [jobs EXCEPT ![j] = r] /\ r.state \in {"completed", "waiting", "failed"}
                          /\ r.state = "waiting" => r.attempts < MaxAttempts
  <2>1. CASE NoMoreCandidates(w)
    <3> DEFINE r == [jobs[j] EXCEPT !.state = "completed"]
    <3>1. r \in JobRow /\ r.state = "completed" /\ jobs' = [jobs EXCEPT ![j] = r]
      BY <1>3, <1>4, <2>1 DEF NoMoreCandidates, JobRow
    <3> HIDE DEF r
    <3>. QED
      BY <3>1
  <2>2. CASE JobFail(w)
    <3> DEFINE r == [jobs[j] EXCEPT !.state = IF Retried(j) THEN "waiting" ELSE "failed",
                                    !.attempts = @ + 1]
    <3>1. jobs' = [jobs EXCEPT ![j] = r]
      BY <1>3, <2>2 DEF JobFail
    <3>2. jobs[j].attempts + 1 \in 0..MaxAttempts
      BY <1>3, <1>4
    <3>3. r \in JobRow /\ r.state \in {"completed", "waiting", "failed"}
      BY <1>4, <3>2 DEF JobRow
    <3>4. r.state = "waiting" => r.attempts < MaxAttempts
      BY <1>4 DEF Retried, JobRow
    <3> HIDE DEF r
    <3>. QED
      BY <3>1, <3>3, <3>4
  <2>. QED
    BY <2>1, <2>2
<1>6. /\ jobs' \in [Job -> JobRow] /\ jobs'[j] = r
      /\ \A k \in Job : k # j => jobs'[k] = jobs[k]
      /\ JobsInv'
  BY <1>1, <1>3, <1>5, JobsStep
<1>7. /\ worker' \in [Workers -> Worker] /\ worker'[w] = Idle
      /\ \A v \in Workers : v # w => worker'[v] = worker[v]
      /\ WorkersInv'
  BY <1>1, <1>2, WorkersStep
<1>8. TypeOK'
  <2>1. ASSUME NEW k \in Job
        PROVE  jobs'[k].state = "active" <=> \E v \in Workers : worker'[v].job = k
    <3>1. CASE k = j
      BY <1>2, <1>3, <1>5, <1>6, <1>7, <3>1
    <3>2. CASE k # j
      <4>1. \A v \in Workers : worker'[v].job = k <=> worker[v].job = k
        BY <1>2, <1>3, <1>7, <3>2
      <4>. QED
        BY <1>6, <3>2, <4>1 DEF MatchingInv, TypeOK
    <3>. QED
      BY <3>1, <3>2
  <2>. QED
    BY <1>1, <1>6, <1>7, <2>1 DEF MatchingInv, TypeOK, JobRow
<1>9. NotifyInv'
  BY <1>1, <1>2, <1>7 DEF MatchingInv, NotifyInv
<1>. QED
  BY <1>1, <1>6, <1>7, <1>8, <1>9 DEF MatchingInv, ContentInv, RowsInv, NotifiedOnce

\* One of the two students is notified.
LEMMA NotifyStudentInv ==
    ASSUME MatchingInv, NEW w \in Workers, NotifyLost(w) \/ NotifyFound(w)
    PROVE  MatchingInv'
<1>1. UNCHANGED <<item, photo, jobs, matches>> /\ worker[w].pc \in {"notify_lost", "notify_found"}
  BY DEF NotifyLost, NotifyFound
<1>2. /\ worker[w] \in Worker /\ worker[w].job \in Job
      /\ \A v \in Workers : worker[v].job = worker[w].job => v = w
  BY <1>1, BusyWorker
<1>3. /\ worker[w].key \in MatchKey
      /\ \A c \in worker[w].todo : c.item \in OtherKind(worker[w].job.item) /\ c.revision <= item[c.item].revision
  BY <1>1 DEF MatchingInv, WorkersInv
<1>4. PICK side \in {"lost", "found"}, pc \in {"notify_found", "mark"} :
          /\ CreateDeduped(worker[w].key, side) /\ worker' = [worker EXCEPT ![w].pc = pc]
          /\ \/ worker[w].pc = "notify_lost" /\ side = "lost" /\ pc = "notify_found"
             \/ worker[w].pc = "notify_found" /\ side = "found" /\ pc = "mark"
  BY DEF NotifyLost, NotifyFound
<1> DEFINE x == [worker[w] EXCEPT !.pc = pc]
<1>5. /\ x \in Worker /\ x.pc = pc /\ x.job = worker[w].job /\ x.todo = worker[w].todo /\ x.key = worker[w].key
      /\ worker' = [worker EXCEPT ![w] = x]
  BY <1>2, <1>4 DEF Worker, MatchingInv, TypeOK
<1> HIDE DEF x
<1>6. /\ worker' \in [Workers -> Worker] /\ worker'[w] = x
      /\ \A v \in Workers : v # w => worker'[v] = worker[v]
      /\ WorkersInv'
  <2>1. \A c \in x.todo : c.item \in OtherKind(x.job.item) /\ c.revision <= item[c.item].revision
    BY <1>3, <1>5
  <2>2. x.pc # "idle" /\ x.job \in Job /\ x.key \in MatchKey /\ UNCHANGED item
    BY <1>1, <1>2, <1>3, <1>4, <1>5
  <2>3. \A v \in Workers : worker[v].job = x.job => v = w
    BY <1>2, <1>5
  <2>. QED
    BY <1>5, <2>1, <2>2, <2>3, WorkersStep
<1>7. TypeOK'
  <2>1. /\ \A j \in Job : jobs'[j].state = "active" <=> \E v \in Workers : worker'[v].job = j
        /\ jobs' \in [Job -> JobRow]
    BY <1>1, <1>5, <1>6, OwnJobKept
  <2>. QED
    BY <1>1, <1>6, <2>1 DEF MatchingInv, TypeOK, JobRow
<1>8. /\ notifications' \in [MatchKey \X {"lost", "found"} -> 0..1]
      /\ \A n \in MatchKey \X {"lost", "found"} : notifications[n] = 1 => notifications'[n] = 1
      /\ notifications'[<<worker[w].key, side>>] = 1
  <2>1. <<worker[w].key, side>> \in MatchKey \X {"lost", "found"}
    BY <1>3
  <2>. QED
    BY <1>4, <2>1 DEF CreateDeduped, MatchingInv, NotifyInv
<1>9. NotifyInv'
  <2> SUFFICES ASSUME NEW v \in Workers
               PROVE  /\ worker'[v].pc \in {"notify_found", "mark"} => notifications'[<<worker'[v].key, "lost">>] = 1
                      /\ worker'[v].pc = "mark" => notifications'[<<worker'[v].key, "found">>] = 1
    BY <1>8 DEF NotifyInv
  <2>1. CASE v = w
    BY <1>3, <1>4, <1>5, <1>6, <1>8, <2>1 DEF MatchingInv, NotifyInv
  <2>2. CASE v # w
    <3>1. worker[v].pc \in {"notify_found", "mark"} => worker[v].key \in MatchKey
      BY DEF MatchingInv, WorkersInv
    <3>. QED
      BY <1>6, <1>8, <2>2, <3>1 DEF MatchingInv, NotifyInv
  <2>. QED
    BY <2>1, <2>2
<1>10. NotifiedOnce'
  <2>1. \A n \in DOMAIN notifications' : notifications'[n] <= 1
    BY <1>8
  <2>2. \A m \in matches : m.key \in MatchKey
    BY DEF MatchingInv, TypeOK, Match
  <2>. QED
    BY <1>1, <1>8, <2>1, <2>2 DEF MatchingInv, NotifiedOnce
<1>. QED
  BY <1>1, <1>6, <1>7, <1>9, <1>10 DEF MatchingInv, JobsInv, ContentInv, RowsInv

\* MarkNotified keeps the invariant.
LEMMA MarkNotifiedInv ==
    ASSUME MatchingInv, NEW w \in Workers, MarkNotified(w)
    PROVE  MatchingInv'
<1>1. worker[w].pc = "mark" /\ UNCHANGED <<item, photo, jobs, notifications>>
  BY DEF MarkNotified
<1>2. /\ worker[w] \in Worker /\ worker[w].job \in Job
      /\ \A v \in Workers : worker[v].job = worker[w].job => v = w
  BY <1>1, BusyWorker
<1>3. PICK k \in MatchKey :
          /\ k = worker[w].key /\ notifications[<<k, "lost">>] = 1 /\ notifications[<<k, "found">>] = 1
          /\ \A c \in worker[w].todo : c.item \in OtherKind(worker[w].job.item) /\ c.revision <= item[c.item].revision
  BY <1>1 DEF MatchingInv, WorkersInv, NotifyInv
<1> DEFINE x == [worker[w] EXCEPT !.pc = "score", !.key = None]
           Marked(m) == IF m.key = k THEN [m EXCEPT !.notifiedAt = TRUE] ELSE m
<1>4. /\ x \in Worker /\ x.pc = "score" /\ x.job = worker[w].job /\ x.todo = worker[w].todo
      /\ worker' = [worker EXCEPT ![w] = x]
  BY <1>2, <1>3 DEF MarkNotified, Worker, MatchingInv, TypeOK
<1>5. matches' = {Marked(m) : m \in matches}
  BY <1>3 DEF MarkNotified
<1>6. ASSUME NEW m \in matches
      PROVE  /\ Marked(m) \in Match /\ Marked(m).key = m.key /\ Marked(m).lostContent = m.lostContent
             /\ Marked(m).foundContent = m.foundContent
             /\ Marked(m).notifiedAt => m.notifiedAt \/ m.key = k
  <2>1. m \in Match
    BY DEF MatchingInv, TypeOK
  <2>2. CASE m.key = k
    BY <2>1, <2>2 DEF Match
  <2>3. CASE m.key # k
    <3>1. Marked(m) = m
      BY <2>3
    <3>. QED
      BY <2>1, <3>1
  <2>. QED
    BY <2>2, <2>3
<1> HIDE DEF x, Marked
<1>7. /\ worker' \in [Workers -> Worker] /\ worker'[w] = x
      /\ \A v \in Workers : v # w => worker'[v] = worker[v]
      /\ WorkersInv'
  <2>1. \A c \in x.todo : c.item \in OtherKind(x.job.item) /\ c.revision <= item[c.item].revision
    BY <1>3, <1>4
  <2>2. x.pc # "idle" /\ x.job \in Job /\ UNCHANGED item
    BY <1>1, <1>2, <1>4
  <2>3. \A v \in Workers : worker[v].job = x.job => v = w
    BY <1>2, <1>4
  <2>. QED
    BY <1>4, <2>1, <2>2, <2>3, WorkersStep
<1>8. TypeOK'
  <2>1. /\ \A j \in Job : jobs'[j].state = "active" <=> \E v \in Workers : worker'[v].job = j
        /\ jobs' \in [Job -> JobRow]
    BY <1>1, <1>4, <1>7, OwnJobKept
  <2>2. matches' \subseteq Match
    BY <1>5, <1>6
  <2>3. \A a, b \in matches' : a.key = b.key => a = b
    BY <1>5, <1>6 DEF MatchingInv, TypeOK
  <2>. QED
    BY <1>1, <1>7, <2>1, <2>2, <2>3 DEF MatchingInv, TypeOK, JobRow
<1>9. RowsInv'
  <2> SUFFICES ASSUME NEW n \in matches'
               PROVE  /\ n.key.lostRevision <= n.lostContent.text /\ n.lostContent.text <= item[n.key.lost].revision
                      /\ n.foundContent.text = 1
    BY <1>1 DEF RowsInv
  <2>1. PICK m \in matches : n = Marked(m)
    BY <1>5
  <2>. QED
    BY <1>6, <2>1 DEF MatchingInv, RowsInv
<1>10. NotifyInv'
  BY <1>1, <1>4, <1>7 DEF MatchingInv, NotifyInv
<1>11. NotifiedOnce'
  <2>1. ASSUME NEW n \in matches', n.notifiedAt
        PROVE  notifications[<<n.key, "lost">>] = 1 /\ notifications[<<n.key, "found">>] = 1
    <3>1. PICK m \in matches : n = Marked(m)
      BY <1>5
    <3>2. n.key = m.key /\ (m.notifiedAt \/ m.key = k)
      BY <1>6, <2>1, <3>1
    <3>. QED
      BY <1>3, <3>2 DEF MatchingInv, NotifiedOnce
  <2>. QED
    BY <1>1, <2>1 DEF MatchingInv, NotifiedOnce
<1>. QED
  BY <1>1, <1>7, <1>8, <1>9, <1>10, <1>11 DEF MatchingInv, JobsInv, ContentInv

\* Every step keeps the invariant.
LEMMA MatchingStep ==
    ASSUME MatchingInv, Next
    PROVE  MatchingInv'
  BY RequestInv, TakeJobInv, PhotoStepInv, FindCandidatesInv, ScoreCandidateInv, NoMoreCandidatesInv,
     NotifyStudentInv, MarkNotifiedInv DEF Next, WorkerNext

-----------------------------------------------------------------------------
(* The photos *)

\* What a request adds to the queue.
LEMMA RequestEnqueues ==
    ASSUME MatchingInv, RequestNext
    PROVE  \E j \in Job : Enqueue(j) \/ UNCHANGED jobs
<1>0. 1 \in Revision /\ None \in Photos \cup {None}
      /\ \A i \in Items : item[i].revision \in Nat /\ item[i].revision <= MaxRevision
  BY MatchingAssumption DEF MatchingInv, TypeOK, Revision
<1>1. ASSUME NEW i \in Items, Create(i) \/ UpdateCustody(i) \/ ItemClaimed(i)
      PROVE  \E j \in Job : Enqueue(j) \/ UNCHANGED jobs
  BY <1>0, <1>1, JobForType DEF Create, UpdateCustody, ItemClaimed
<1>2. ASSUME NEW i \in Items, Edit(i) PROVE \E j \in Job : Enqueue(j)
  <2>1. item[i].revision + 1 \in Revision
    BY <1>0, <1>2, MatchingAssumption DEF Edit, Revision
  <2>. QED
    BY <1>0, <1>2, <2>1, JobForType DEF Edit
<1>3. ASSUME NEW i \in Items, NEW p \in Photos, StorePhoto(i, p) PROVE \E j \in Job : UNCHANGED jobs
  BY <1>0, <1>3, JobForType DEF StorePhoto
<1>4. ASSUME NEW i \in Items, NEW p \in Photos, EnqueuePhoto(i, p) PROVE \E j \in Job : Enqueue(j)
  <2>1. item[i].revision \in Revision
    BY <1>0, <1>4, MatchingAssumption DEF EnqueuePhoto, Revision, MatchingInv, ContentInv
  <2>2. JobFor(i, item[i].revision, p) \in Job
    BY <2>1, JobForType
  <2>3. Enqueue(JobFor(i, item[i].revision, p))
    <3>1. jobs[JobFor(i, item[i].revision, p)].state = "absent"
      BY <1>4, <2>1 DEF EnqueuePhoto
    <3>. QED
      BY <1>4, <3>1 DEF EnqueuePhoto, Enqueue
  <2>. QED
    BY <2>2, <2>3
<1>. QED
  BY <1>1, <1>2, <1>3, <1>4 DEF RequestNext

\* What was once read in a photo stays read: it is known to the jobs and rows that took note of
\* it; and a photo waits for its text no longer than its worker, unless an attempt failed.
PhotosInv ==
    /\ \A j \in Job : jobs[j].knew \subseteq Says(j.item)
    /\ \A m \in matches : /\ m.lostContent.photos \subseteq Says(m.key.lost)
                          /\ m.foundContent.photos \subseteq Says(m.key.found)
    /\ EmbeddedPhotoIsRead

\* A photo is stored, then embedded by a worker, then read.
LEMMA PhotoMoves ==
    ASSUME MatchingInv, Next, NEW i \in Items, NEW p \in Photos, photo'[<<i, p>>] # photo[<<i, p>>]
    PROVE  \/ photo[<<i, p>>] = "none" /\ photo'[<<i, p>>] = "stored"
           \/ /\ photo[<<i, p>>] = "stored" /\ photo'[<<i, p>>] = "embedded"
              /\ \E w \in Workers : EmbedPhoto(w, p) /\ worker[w].job.item = i
           \/ photo'[<<i, p>>] = "read"
<1>1. photo \in [Items \X Photos -> {"none", "stored", "embedded", "read"}]
  BY DEF MatchingInv, TypeOK
<1>2. ASSUME NEW k \in Items, NEW q \in Photos, StorePhoto(k, q)
      PROVE  photo[<<i, p>>] = "none" /\ photo'[<<i, p>>] = "stored"
  BY <1>1, <1>2 DEF StorePhoto
<1>3. ASSUME NEW w \in Workers, NEW q \in Photos, EmbedPhoto(w, q)
      PROVE  /\ photo[<<i, p>>] = "stored" /\ photo'[<<i, p>>] = "embedded"
             /\ q = p /\ worker[w].job.item = i
  BY <1>1, <1>3 DEF EmbedPhoto
<1>4. ASSUME NEW w \in Workers, ReadPhoto(w) PROVE photo'[<<i, p>>] = "read"
  BY <1>1, <1>4 DEF ReadPhoto
<1>5. ASSUME NEW k \in Items, \/ Create(k) \/ Edit(k) \/ UpdateCustody(k) \/ ItemClaimed(k)
                              \/ \E q \in Photos : EnqueuePhoto(k, q)
      PROVE  photo' = photo
  BY <1>5 DEF Create, Edit, UpdateCustody, ItemClaimed, EnqueuePhoto
<1>6. ASSUME NEW w \in Workers, \/ \E j \in Job : TakeJob(w, j)
                                \/ ListPhotos(w) \/ FindCandidates(w) \/ ScoreCandidate(w)
                                \/ NoMoreCandidates(w) \/ NotifyLost(w) \/ NotifyFound(w)
                                \/ MarkNotified(w) \/ JobFail(w)
      PROVE  photo' = photo
  BY <1>6 DEF TakeJob, ListPhotos, FindCandidates, ScoreCandidate, NoMoreCandidates, NotifyLost, NotifyFound,
     MarkNotified, JobFail
<1>. QED
  BY <1>2, <1>3, <1>4, <1>5, <1>6 DEF Next, RequestNext, WorkerNext

\* Nothing that was read is forgotten.
LEMMA SaysGrows ==
    ASSUME MatchingInv, Next, NEW i \in Items
    PROVE  Says(i) \subseteq Says(i)'
<1> SUFFICES ASSUME NEW p \in Photos, photo[<<i, p>>] = "read" PROVE photo'[<<i, p>>] = "read"
  BY DEF Says
<1>. QED
  BY PhotoMoves

\* What a job knew is what its item said at the job's last query.
LEMMA KnewMoves ==
    ASSUME MatchingInv, Next, NEW j \in Job
    PROVE  /\ jobs'[j].knew = jobs[j].knew \/ jobs'[j].knew = Says(j.item)
           /\ jobs[j].attempts > 0 => jobs'[j].attempts > 0
<1>1. jobs \in [Job -> JobRow] /\ MaxRevision \in Nat
      /\ \A i \in Items : item[i].revision \in Nat /\ item[i].revision <= MaxRevision
  BY MatchingAssumption DEF MatchingInv, TypeOK, JobRow
<1>2. CASE RequestNext
  <2>1. PICK k \in Job : Enqueue(k) \/ UNCHANGED jobs
    BY <1>2, RequestEnqueues
  <2>. QED
    BY <2>1, EnqueueJob
<1>3. ASSUME NEW w \in Workers, NEW k \in Job, TakeJob(w, k)
      PROVE  jobs'[j].knew = jobs[j].knew /\ jobs'[j].attempts = jobs[j].attempts
  BY <1>1, <1>3 DEF TakeJob, JobRow
<1>4. ASSUME NEW w \in Workers, NoMoreCandidates(w) \/ JobFail(w)
      PROVE  jobs'[j].knew = jobs[j].knew /\ (jobs[j].attempts > 0 => jobs'[j].attempts > 0)
  <2>1. worker[w].job \in Job
    BY <1>4, BusyWorker DEF NoMoreCandidates, JobFail
  <2>2. CASE NoMoreCandidates(w)
    BY <1>1, <2>2 DEF NoMoreCandidates, JobRow
  <2>3. CASE JobFail(w)
    <3>1. jobs[worker[w].job].attempts \in Nat /\ jobs[j].attempts \in Nat
      BY <1>1, <2>1, MatchingAssumption DEF JobRow
    <3>. QED
      BY <1>1, <2>1, <2>3, <3>1 DEF JobFail, JobRow
  <2>. QED
    BY <1>4, <2>2, <2>3
<1>5. ASSUME NEW w \in Workers, FindCandidates(w)
      PROVE  /\ jobs'[j].knew = jobs[j].knew \/ jobs'[j].knew = Says(j.item)
             /\ jobs'[j].attempts = jobs[j].attempts
  BY <1>1, <1>5 DEF FindCandidates, JobRow
<1>6. ASSUME NEW w \in Workers, \/ ListPhotos(w) \/ (\E p \in Photos : EmbedPhoto(w, p)) \/ ReadPhoto(w)
                                \/ ScoreCandidate(w) \/ NotifyLost(w) \/ NotifyFound(w) \/ MarkNotified(w)
      PROVE  jobs'[j] = jobs[j]
  BY <1>6 DEF ListPhotos, EmbedPhoto, ReadPhoto, ScoreCandidate, NotifyLost, NotifyFound, MarkNotified
<1>. QED
  BY <1>2, <1>3, <1>4, <1>5, <1>6 DEF Next, WorkerNext

\* Rows are created from what both items say.
LEMMA RowMoves ==
    ASSUME MatchingInv, Next, NEW n \in matches'
    PROVE  \/ \E m \in matches : /\ n.key = m.key /\ n.lostContent = m.lostContent
                                 /\ n.foundContent = m.foundContent
           \/ n.lostContent = Now(n.key.lost) /\ n.foundContent = Now(n.key.found)
<1>1. CASE n \in matches
  BY <1>1
<1>2. ASSUME NEW w \in Workers, MarkNotified(w)
      PROVE  \E m \in matches : /\ n.key = m.key /\ n.lostContent = m.lostContent
                                /\ n.foundContent = m.foundContent
  <2>1. PICK m \in matches : n = IF m.key = worker[w].key THEN [m EXCEPT !.notifiedAt = TRUE] ELSE m
    BY <1>2 DEF MarkNotified
  <2>2. m \in Match
    BY DEF MatchingInv, TypeOK
  <2>. QED
    BY <2>1, <2>2 DEF Match
<1>3. ASSUME NEW w \in Workers, ScoreCandidate(w), n \notin matches
      PROVE  n.lostContent = Now(n.key.lost) /\ n.foundContent = Now(n.key.found)
  <2>1. PICK c \in worker[w].todo : n = Scored(worker[w].job, c)
    BY <1>3 DEF ScoreCandidate
  <2>. QED
    BY <2>1 DEF Scored
<1>4. ASSUME NEW k \in Items, \/ Create(k) \/ Edit(k) \/ UpdateCustody(k) \/ ItemClaimed(k)
                              \/ \E p \in Photos : StorePhoto(k, p) \/ EnqueuePhoto(k, p)
      PROVE  matches' = matches
  BY <1>4 DEF Create, Edit, UpdateCustody, ItemClaimed, StorePhoto, EnqueuePhoto
<1>5. ASSUME NEW w \in Workers, \/ \E j \in Job : TakeJob(w, j)
                                \/ ListPhotos(w) \/ (\E p \in Photos : EmbedPhoto(w, p)) \/ ReadPhoto(w)
                                \/ FindCandidates(w) \/ NoMoreCandidates(w) \/ NotifyLost(w)
                                \/ NotifyFound(w) \/ JobFail(w)
      PROVE  matches' = matches
  BY <1>5 DEF TakeJob, ListPhotos, EmbedPhoto, ReadPhoto, FindCandidates, NoMoreCandidates, NotifyLost, NotifyFound,
     JobFail
<1>. QED
  BY <1>1, <1>2, <1>3, <1>4, <1>5 DEF Next, RequestNext, WorkerNext

\* A worker leaves a photo between the two writes only by reading it or by failing.
LEMMA ReaderMoves ==
    ASSUME MatchingInv, Next, NEW w \in Workers, worker[w].pc = "ocr", worker[w].photo \in Photos
    PROVE  \/ worker'[w] = worker[w]
           \/ photo'[<<worker[w].job.item, worker[w].photo>>] = "read"
           \/ jobs'[worker[w].job].attempts > 0
<1>1. worker \in [Workers -> Worker] /\ jobs \in [Job -> JobRow] /\ worker[w].job \in Job
      /\ worker[w].job.item \in Items
      /\ photo \in [Items \X Photos -> {"none", "stored", "embedded", "read"}]
  BY BusyWorker DEF MatchingInv, TypeOK, JobRow
<1>2. CASE ReadPhoto(w)
  BY <1>1, <1>2 DEF ReadPhoto
<1>3. CASE JobFail(w)
  <2>1. jobs[worker[w].job].attempts \in Nat
    BY <1>1, MatchingAssumption DEF JobRow
  <2>. QED
    BY <1>1, <1>3, <2>1 DEF JobFail, JobRow
<1>4. ASSUME NEW v \in Workers, v # w,
             \/ \E j \in Job : TakeJob(v, j)
             \/ ListPhotos(v) \/ (\E p \in Photos : EmbedPhoto(v, p)) \/ ReadPhoto(v)
             \/ FindCandidates(v) \/ ScoreCandidate(v) \/ NoMoreCandidates(v)
             \/ NotifyLost(v) \/ NotifyFound(v) \/ MarkNotified(v) \/ JobFail(v)
      PROVE  worker'[w] = worker[w]
  <2>1. CASE ListPhotos(v) \/ (\E p \in Photos : EmbedPhoto(v, p)) \/ ReadPhoto(v)
    BY <1>1, <1>4, <2>1 DEF ListPhotos, EmbedPhoto, ReadPhoto
  <2>2. CASE (\E j \in Job : TakeJob(v, j)) \/ FindCandidates(v)
    BY <1>1, <1>4, <2>2 DEF TakeJob, FindCandidates
  <2>3. CASE ScoreCandidate(v)
    <3>1. PICK c \in worker[v].todo : Notifies(v, c, Scored(worker[v].job, c))
      BY <2>3 DEF ScoreCandidate
    <3>2. PICK x : worker' = [worker EXCEPT ![v] = x]
      BY <3>1 DEF Notifies
    <3>. QED
      BY <1>1, <1>4, <3>2
  <2>4. CASE NoMoreCandidates(v) \/ NotifyLost(v) \/ NotifyFound(v) \/ MarkNotified(v) \/ JobFail(v)
    BY <1>1, <1>4, <2>4 DEF NoMoreCandidates, NotifyLost, NotifyFound, MarkNotified, JobFail
  <2>. QED
    BY <1>4, <2>1, <2>2, <2>3, <2>4
<1>5. CASE RequestNext
  BY <1>5 DEF RequestNext, Create, Edit, UpdateCustody, ItemClaimed, StorePhoto, EnqueuePhoto
<1>6. ~(\/ \E j \in Job : TakeJob(w, j)
        \/ ListPhotos(w) \/ (\E p \in Photos : EmbedPhoto(w, p))
        \/ FindCandidates(w) \/ ScoreCandidate(w) \/ NoMoreCandidates(w)
        \/ NotifyLost(w) \/ NotifyFound(w) \/ MarkNotified(w))
  BY DEF TakeJob, ListPhotos, EmbedPhoto, FindCandidates, ScoreCandidate, NoMoreCandidates, NotifyLost, NotifyFound,
     MarkNotified
<1>. QED
  BY <1>2, <1>3, <1>4, <1>5, <1>6 DEF Next, WorkerNext

\* No step forgets what was read, or leaves a photo unread without an attempt that failed.
LEMMA PhotosStep ==
    ASSUME MatchingInv, PhotosInv, Next
    PROVE  PhotosInv'
<1>1. \A i \in Items : Says(i) \subseteq Says(i)'
  BY SaysGrows
<1>2. ASSUME NEW j \in Job PROVE jobs'[j].knew \subseteq Says(j.item)'
  <2>1. jobs[j].knew \subseteq Says(j.item) /\ j.item \in Items
    BY DEF PhotosInv, Job
  <2>. QED
    BY <1>1, <2>1, KnewMoves
<1>3. ASSUME NEW n \in matches'
      PROVE  n.lostContent.photos \subseteq Says(n.key.lost)' /\ n.foundContent.photos \subseteq Says(n.key.found)'
  <2>1. n.lostContent.photos \subseteq Says(n.key.lost) /\ n.foundContent.photos \subseteq Says(n.key.found)
    <3>1. \A i : Now(i).photos = Says(i)
      BY DEF Now
    <3>. QED
      BY <3>1, RowMoves DEF PhotosInv
  <2>2. n.key.lost \in Items /\ n.key.found \in Items
    <3>1. TypeOK'
      BY MatchingStep DEF MatchingInv
    <3>. QED
      BY <3>1 DEF TypeOK, Match, MatchKey, Items
  <2>. QED
    BY <1>1, <2>1, <2>2
<1>4. ASSUME NEW i \in Items, NEW p \in Photos, photo'[<<i, p>>] = "embedded"
      PROVE  \/ \E w \in Workers : worker'[w].pc = "ocr" /\ worker'[w].photo = p /\ worker'[w].job.item = i
             \/ \E j \in Job : j.item = i /\ jobs'[j].attempts > 0
  <2>1. CASE photo[<<i, p>>] = "embedded"
    <3>1. CASE \E j \in Job : j.item = i /\ jobs[j].attempts > 0
      BY <3>1, KnewMoves
    <3>2. ASSUME NEW w \in Workers, worker[w].pc = "ocr", worker[w].photo = p, worker[w].job.item = i
          PROVE  \/ worker'[w] = worker[w]
                 \/ \E j \in Job : j.item = i /\ jobs'[j].attempts > 0
      BY <1>4, <3>2, ReaderMoves, BusyWorker
    <3>. QED
      BY <2>1, <3>1, <3>2 DEF PhotosInv, EmbeddedPhotoIsRead
  <2>2. CASE photo[<<i, p>>] # "embedded"
    <3>1. PICK w \in Workers : EmbedPhoto(w, p) /\ worker[w].job.item = i
      BY <1>4, <2>2, PhotoMoves
    <3>2. worker \in [Workers -> Worker]
      BY DEF MatchingInv, TypeOK
    <3>3. worker'[w].pc = "ocr" /\ worker'[w].photo = p /\ worker'[w].job = worker[w].job
      BY <3>1, <3>2 DEF EmbedPhoto, Worker
    <3>. QED
      BY <3>1, <3>3
  <2>. QED
    BY <2>1, <2>2
<1>. QED
  BY <1>2, <1>3, <1>4 DEF PhotosInv, EmbeddedPhotoIsRead

\* Both invariants hold in every reachable state.
THEOREM MatchingInvariant == Spec => [](MatchingInv /\ PhotosInv)
<1>1. Init => PhotosInv
  BY DEF Init, PhotosInv, EmbeddedPhotoIsRead
<1>2. ASSUME MatchingInv, PhotosInv, [Next]_vars PROVE (MatchingInv /\ PhotosInv)'
  <2>1. CASE Next
    BY <1>2, <2>1, MatchingStep, PhotosStep
  <2>2. CASE UNCHANGED vars
    BY <1>2, <2>2 DEF vars, MatchingInv, TypeOK, WorkersInv, JobsInv, ContentInv, RowsInv, NotifyInv,
       NotifiedOnce, OtherKind, PhotosInv, EmbeddedPhotoIsRead, Says
  <2>. QED
    BY <1>2, <2>1, <2>2
<1>. QED
  BY <1>1, <1>2, MatchingInitInv, PTL DEF Spec

\* Rows, jobs and workers keep their shape; a job is active exactly while a worker has it.
THEOREM MatchingTypes == Spec => []TypeOK
  BY MatchingInvariant, PTL DEF MatchingInv

\* However jobs overlap, fail and are retried, nobody is notified of a match twice, and a
\* match is marked as notified only when both students are.
THEOREM NobodyIsNotifiedTwice == Spec => []NotifiedOnce
  BY MatchingInvariant, PTL DEF MatchingInv

\* A row of current revisions was scored from the current text.
LEMMA TextIsCurrent == MatchingInv /\ PhotosInv => CurrentMatchIsOfCurrentText
<1> SUFFICES ASSUME MatchingInv, PhotosInv, NEW m \in matches,
                    m.key.lostRevision = item[m.key.lost].revision,
                    m.key.foundRevision = item[m.key.found].revision
             PROVE  /\ m.lostContent.text = item[m.key.lost].content
                    /\ m.foundContent.text = item[m.key.found].content
  BY DEF CurrentMatchIsOfCurrentText, PhotosInv
<1>1. /\ m.key.lost \in LostItems /\ m.key.found \in FoundItems
      /\ m.key.lostRevision \in Nat /\ m.lostContent.text \in Nat /\ m.key.foundRevision \in Nat \ {0}
  BY MatchingAssumption DEF MatchingInv, TypeOK, Match, MatchKey, Content, Revision
<1>2. m.lostContent.text = m.key.lostRevision /\ m.foundContent.text = 1
  BY <1>1 DEF MatchingInv, RowsInv
<1>. QED
  BY <1>1, <1>2 DEF MatchingInv, ContentInv

-----------------------------------------------------------------------------
(* No pair of items is left out, as long as a query takes every candidate *)

\* A worker past its query.
Comparing == {"score", "notify_lost", "notify_found", "mark"}

\* A job of item i at its current revision that knew what the item says is done with candidate c,
\* as c is now.
MissedBy(i, c, x) ==
    LET j == JobFor(i, item[i].revision, x)
    IN  /\ jobs[j].knew = Says(i)
        /\ \/ jobs[j].state = "completed"
           \/ \E w \in Workers :
                 /\ worker[w].job = j
                 /\ worker[w].pc \in Comparing
                 /\ [item |-> c, revision |-> item[c].revision] \notin worker[w].todo

Missed(i, c) == \E x \in Photos \cup {None} : MissedBy(i, c, x)

KeyOf(l, f) == [lost |-> l, found |-> f, lostRevision |-> item[l].revision, foundRevision |-> item[f].revision]

\* A pair of ACTIVE items that do not score WEAK and that nobody will compare any more has its match.
PairMatched(l, f) ==
    /\ item[l].active /\ item[f].active
    /\ <<l, Now(l), f, Now(f)>> \in Strong
    /\ Missed(l, f) /\ Missed(f, l)
    => KeyOf(l, f) \in Keys

PairsInv == \A l \in LostItems, f \in FoundItems : PairMatched(l, f)

\* A query takes at most CandidateLimit candidates; this says that there are no more.
FewCandidates == \A i \in Items : Cardinality(Candidates(i)) <= CandidateLimit

\* A step that keeps both items, loses no row and is done with no pair keeps the pair's match.
LEMMA PairKept ==
    ASSUME NEW l \in LostItems, NEW f \in FoundItems, PairMatched(l, f), Keys \subseteq Keys',
           item'[l] = item[l], item'[f] = item[f], Says(l)' = Says(l), Says(f)' = Says(f),
           \A x \in Photos \cup {None} : MissedBy(l, f, x)' => MissedBy(l, f, x),
           \A x \in Photos \cup {None} : MissedBy(f, l, x)' => MissedBy(f, l, x)
    PROVE  PairMatched(l, f)'
  BY DEF PairMatched, Missed, KeyOf, Now

\* No job of a new revision has run.
LEMMA FreshIsNotMissed ==
    ASSUME MatchingInv, NEW i \in Items, NEW c \in Items, NEW n \in Revision, item'[i].revision = n,
           item[i].revision < n, NEW j \in Job, Enqueue(j) \/ UNCHANGED jobs, UNCHANGED worker
    PROVE  ~Missed(i, c)'
<1> SUFFICES ASSUME NEW x \in Photos \cup {None} PROVE ~MissedBy(i, c, x)'
  BY DEF Missed
<1> DEFINE k == JobFor(i, n, x)
<1>1. k \in Job /\ k.item = i /\ k.revision = n
  BY JobForType
<1>2. jobs[k].state = "absent"
  <2>1. item[i].revision \in Nat /\ n \in Nat
    BY MatchingAssumption DEF MatchingInv, TypeOK, Revision
  <2>. QED
    BY <1>1, <2>1 DEF MatchingInv, JobsInv
<1>3. jobs'[k].state \in {"absent", "waiting"}
  BY <1>1, <1>2, EnqueueJob
<1>4. \A w \in Workers : worker'[w].job # k
  BY <1>1, <1>2 DEF MatchingInv, TypeOK
<1> HIDE DEF k
<1>5. JobFor(i, n, x) = k
  BY DEF k
<1>. QED
  BY <1>3, <1>4, <1>5 DEF MissedBy, JobFor

\* A request leaves no pair without a job.
LEMMA RequestKeepsPairs ==
    ASSUME MatchingInv, PairsInv, RequestNext
    PROVE  PairsInv'
<1>0. item \in [Items -> ItemRow] /\ MaxRevision \in Nat /\ LostItems \cap FoundItems = {} /\ 1 \in Revision
      /\ \A i \in Items : item[i].revision \in Nat /\ item[i].revision <= MaxRevision
  BY MatchingAssumption DEF MatchingInv, TypeOK, ItemRow, Revision
<1>1. UNCHANGED <<worker, matches, notifications>> /\ \A k \in Items : Says(k)' = Says(k)
  <2>1. photo \in [Items \X Photos -> {"none", "stored", "embedded", "read"}]
    BY DEF MatchingInv, TypeOK
  <2>2. ASSUME NEW k \in Items, NEW p \in Photos, StorePhoto(k, p), NEW i \in Items
        PROVE  Says(i)' = Says(i)
    <3>1. \A q \in Photos : photo'[<<i, q>>] = "read" <=> photo[<<i, q>>] = "read"
      BY <2>1, <2>2 DEF StorePhoto
    <3>. QED
      BY <3>1 DEF Says
  <2>3. photo' = photo \/ \E k \in Items, p \in Photos : StorePhoto(k, p)
    BY DEF RequestNext, Create, Edit, UpdateCustody, EnqueuePhoto, ItemClaimed
  <2>4. photo' = photo => \A i : Says(i)' = Says(i)
    BY DEF Says
  <2>5. UNCHANGED <<worker, matches, notifications>>
    BY DEF RequestNext, Create, Edit, UpdateCustody, StorePhoto, EnqueuePhoto, ItemClaimed
  <2>. QED
    BY <2>2, <2>3, <2>4, <2>5
<1>2. PICK i \in Items : \/ Create(i) \/ Edit(i) \/ UpdateCustody(i) \/ ItemClaimed(i)
                        \/ \E p \in Photos : StorePhoto(i, p) \/ EnqueuePhoto(i, p)
  BY DEF RequestNext
<1>3. PICK j \in Job : Enqueue(j) \/ UNCHANGED jobs
  BY RequestEnqueues
<1>4. \A k \in Job : /\ jobs'[k].state = "completed" => jobs[k].state = "completed"
                     /\ jobs'[k].knew = jobs[k].knew
  BY <1>3, EnqueueJob
<1>5. \A k \in Items : k # i => item'[k] = item[k]
  BY <1>0, <1>2 DEF Create, Edit, UpdateCustody, ItemClaimed, StorePhoto, EnqueuePhoto
<1>6. \/ item'[i] = item[i]
      \/ ~item'[i].active
      \/ \A c \in Items : ~Missed(i, c)'
  <2>1. ASSUME NEW n \in Revision, item'[i].revision = n, item[i].revision < n
        PROVE  \A c \in Items : ~Missed(i, c)'
    BY <1>1, <1>3, <2>1, FreshIsNotMissed
  <2>2. CASE Create(i)
    <3>1. item'[i].revision = 1 /\ item[i].revision = 0
      BY <1>0, <2>2 DEF Create
    <3>. QED
      BY <1>0, <2>1, <3>1
  <2>3. CASE Edit(i) \/ UpdateCustody(i)
    <3>0. item[i].revision \in 1..(MaxRevision - 1)
      BY <2>3 DEF Edit, UpdateCustody
    <3>1. item'[i].revision = item[i].revision + 1 /\ item[i].revision + 1 \in Revision
      <4>1. item[i].revision + 1 \in Revision
        BY <1>0, <3>0 DEF Revision
      <4>2. CASE Edit(i)
        <5> DEFINE x == [item[i] EXCEPT !.revision = @ + 1, !.content = @ + 1]
        <5>1. item' = [item EXCEPT ![i] = x]
          BY <4>2 DEF Edit
        <5>2. x.revision = item[i].revision + 1
          BY <1>0 DEF ItemRow
        <5> HIDE DEF x
        <5>. QED
          BY <1>0, <4>1, <5>1, <5>2
      <4>3. CASE UpdateCustody(i)
        BY <1>0, <4>1, <4>3 DEF UpdateCustody, ItemRow
      <4>. QED
        BY <2>3, <4>1, <4>2, <4>3
    <3>2. PICK n \in Nat : n = item[i].revision
      BY <1>0
    <3>3. n < n + 1
      BY <3>2
    <3>. QED
      BY <2>1, <3>1, <3>2, <3>3
  <2>4. CASE ItemClaimed(i)
    BY <1>0, <2>4 DEF ItemClaimed, ItemRow
  <2>5. CASE \E p \in Photos : StorePhoto(i, p) \/ EnqueuePhoto(i, p)
    BY <2>5 DEF StorePhoto, EnqueuePhoto
  <2>. QED
    BY <1>2, <2>2, <2>3, <2>4, <2>5
<1>7. ASSUME NEW l \in LostItems, NEW f \in FoundItems PROVE PairMatched(l, f)'
  <2>1. l \in Items /\ f \in Items /\ PairMatched(l, f) /\ Keys' = Keys
    BY <1>1 DEF Items, PairsInv, Keys
  <2>2. CASE item'[l] = item[l] /\ item'[f] = item[f] /\ item[l].active /\ item[f].active
    <3>1. ASSUME NEW a \in {l, f}, NEW b \in {l, f}, NEW x \in Photos \cup {None}, MissedBy(a, b, x)'
          PROVE  MissedBy(a, b, x)
      <4>1. item[a].revision \in Revision
        BY <1>0, <2>1, <2>2 DEF MatchingInv, ContentInv, Revision
      <4>2. JobFor(a, item[a].revision, x) \in Job
        BY <2>1, <4>1, JobForType
      <4>. QED
        BY <1>1, <1>4, <2>1, <2>2, <3>1, <4>2 DEF MissedBy, JobFor
    <3>. QED
      BY <1>1, <2>1, <2>2, <3>1, PairKept
  <2>4. CASE item'[l] = item[l] /\ item'[f] = item[f] /\ ~(item[l].active /\ item[f].active)
    BY <2>4 DEF PairMatched
  <2>3. CASE item'[l] # item[l] \/ item'[f] # item[f]
    <3>1. i \in {l, f}
      BY <1>5, <2>1, <2>3
    <3>. QED
      BY <1>5, <1>6, <2>1, <2>3, <3>1 DEF PairMatched
  <2>. QED
    BY <2>2, <2>3, <2>4
<1>. QED
  BY <1>7 DEF PairsInv

\* A query that is under its limit takes every candidate.
LEMMA EveryCandidateTaken ==
    ASSUME MatchingInv, NEW i \in Items, Cardinality(Candidates(i)) <= CandidateLimit,
           NEW todo \in SUBSET Candidates(i), todo = Candidates(i) \/ Cardinality(todo) = CandidateLimit
    PROVE  todo = Candidates(i)
<1> DEFINE S == {c \in OtherKind(i) : item[c].active}
           T == Candidates(i)
           g == [c \in S |-> [item |-> c, revision |-> item[c].revision]]
<1>1. IsFiniteSet(S)
  <2>1. S \in SUBSET Items /\ IsFiniteSet(Items)
    BY MatchingAssumption DEF OtherKind, Items
  <2>. QED
    BY <2>1, FS_Subset
<1>2. g \in Surjection(S, T)
  BY DEF Surjection, Candidates
<1> HIDE DEF S, T, g
<1>3. IsFiniteSet(T)
  BY <1>1, <1>2, FS_Surjection
<1>4. todo \in SUBSET T /\ Cardinality(T) <= CandidateLimit /\ (todo = T \/ Cardinality(todo) = CandidateLimit)
  BY DEF T
<1>5. Cardinality(todo) <= Cardinality(T) /\ (Cardinality(T) = Cardinality(todo) => T = todo)
      /\ IsFiniteSet(todo)
  BY <1>3, <1>4, FS_Subset
<1>6. Cardinality(T) \in Nat /\ Cardinality(todo) \in Nat
  BY <1>3, <1>5, FS_CardinalityType
<1>. QED
  BY <1>4, <1>5, <1>6, MatchingAssumption DEF T

\* A worker's move that is no query and that skips no candidate.
LEMMA WorkerKeepsPairs ==
    ASSUME MatchingInv, PhotosInv, PairsInv, FewCandidates, WorkerNext
    PROVE  PairsInv'
<1>0. UNCHANGED item /\ item \in [Items -> ItemRow]
  BY DEF WorkerNext, TakeJob, ListPhotos, EmbedPhoto, ReadPhoto, FindCandidates, ScoreCandidate, NoMoreCandidates, NotifyLost, NotifyFound,
     MarkNotified, JobFail, MatchingInv, TypeOK, ItemRow
<1> SUFFICES ASSUME NEW l \in LostItems, NEW f \in FoundItems, item[l].active, item[f].active,
                    Missed(l, f)', Missed(f, l)', <<l, Now(l), f, Now(f)>>' \in Strong
             PROVE  PairMatched(l, f)'
  BY <1>0 DEF PairsInv, PairMatched
<1>1. /\ PairMatched(l, f) /\ l \in Items /\ f \in Items
      /\ item[l].revision \in Revision /\ item[f].revision \in Revision
  BY <1>0, MatchingAssumption DEF PairsInv, Items, MatchingInv, ContentInv, ItemRow, Revision
<1>2. \A a \in {l, f}, x \in Photos \cup {None} :
          LET k == JobFor(a, item[a].revision, x) IN k \in Job /\ k.item = a /\ k.revision = item[a].revision
  BY <1>1, JobForType
<1>01. Says(l)' = Says(l) /\ Says(f)' = Says(f)
  <2>1. ASSUME NEW a \in {l, f}, NEW b \in {l, f}, Missed(a, b)' PROVE Says(a)' = Says(a)
    <3>1. PICK x \in Photos \cup {None} : jobs'[JobFor(a, item[a].revision, x)].knew = Says(a)'
      BY <1>0, <2>1 DEF Missed, MissedBy, JobFor
    <3>2. PICK k \in Job : k = JobFor(a, item[a].revision, x) /\ k.item = a
      BY <1>2
    <3>3. jobs'[k].knew \subseteq Says(a) /\ Says(a) \subseteq Says(a)'
      <4>1. jobs[k].knew \subseteq Says(a) /\ Next /\ a \in Items
        BY <1>1, <3>2 DEF PhotosInv, Next
      <4>. QED
        BY <3>2, <4>1, KnewMoves, SaysGrows
    <3>. QED
      BY <3>1, <3>2, <3>3
  <2>. QED
    BY <2>1
<1>02. <<l, Now(l), f, Now(f)>> \in Strong
  BY <1>0, <1>01 DEF Now
<1>03. ASSUME NEW w \in Workers, ListPhotos(w) \/ (\E p \in Photos : EmbedPhoto(w, p)) \/ ReadPhoto(w)
       PROVE  PairMatched(l, f)'
  <2>1. /\ Keys' = Keys /\ jobs' = jobs /\ worker \in [Workers -> Worker]
    BY <1>03 DEF ListPhotos, EmbedPhoto, ReadPhoto, Keys, MatchingInv, TypeOK
  <2>2. \A v \in Workers : worker'[v].pc \in Comparing => worker'[v] = worker[v]
    <3>1. CASE ListPhotos(w)
      BY <2>1, <3>1 DEF ListPhotos, Comparing, Worker
    <3>2. CASE \E p \in Photos : EmbedPhoto(w, p)
      BY <2>1, <3>2 DEF EmbedPhoto, Comparing, Worker
    <3>3. CASE ReadPhoto(w)
      BY <2>1, <3>3 DEF ReadPhoto, Comparing, Worker
    <3>. QED
      BY <1>03, <3>1, <3>2, <3>3
  <2>3. ASSUME NEW a \in {l, f}, NEW b \in {l, f}, NEW x \in Photos \cup {None}, MissedBy(a, b, x)'
        PROVE  MissedBy(a, b, x)
    BY <1>0, <1>01, <2>1, <2>2, <2>3 DEF MissedBy, JobFor
  <2>. QED
    BY <1>0, <1>01, <1>1, <2>1, <2>3, PairKept
<1>3. ASSUME NEW w \in Workers, NEW j \in Job, TakeJob(w, j) PROVE PairMatched(l, f)'
  <2>1. Keys' = Keys /\ jobs \in [Job -> JobRow] /\ worker \in [Workers -> Worker] /\ jobs[j].state = "waiting"
    BY <1>3 DEF TakeJob, Keys, MatchingInv, TypeOK, JobRow
  <2>2. ASSUME NEW a \in {l, f}, NEW b \in {l, f}, NEW x \in Photos \cup {None}, MissedBy(a, b, x)'
        PROVE  MissedBy(a, b, x)
    <3>1. PICK k \in Job : k = JobFor(a, item[a].revision, x) /\ k.item = a /\ k.revision = item[a].revision
      BY <1>2
    <3>2. /\ jobs'[k].state = "completed" => jobs[k].state = "completed"
          /\ jobs'[k].knew = jobs[k].knew
      BY <1>3, <2>1, <3>1 DEF TakeJob, JobRow
    <3>3. \A v \in Workers : worker'[v].pc \in Comparing => worker'[v] = worker[v]
      BY <1>3, <2>1 DEF TakeJob, Worker, Comparing
    <3>. QED
      BY <1>0, <1>01, <2>2, <3>1, <3>2, <3>3 DEF MissedBy, JobFor
  <2>. QED
    BY <1>0, <1>01, <1>1, <2>1, <2>2, PairKept
<1>4. ASSUME NEW w \in Workers, NotifyLost(w) \/ NotifyFound(w) \/ MarkNotified(w) PROVE PairMatched(l, f)'
  <2>1. Keys \subseteq Keys'
    <3>1. CASE MarkNotified(w)
      <4> DEFINE Marked(m) == IF m.key = worker[w].key THEN [m EXCEPT !.notifiedAt = TRUE] ELSE m
      <4>1. matches' = {Marked(m) : m \in matches}
        BY <3>1 DEF MarkNotified
      <4>2. \A m \in matches : Marked(m).key = m.key
        BY DEF MatchingInv, TypeOK, Match
      <4> HIDE DEF Marked
      <4>. QED
        BY <4>1, <4>2 DEF Keys
    <3>2. CASE NotifyLost(w) \/ NotifyFound(w)
      BY <3>2 DEF NotifyLost, NotifyFound, Keys
    <3>. QED
      BY <1>4, <3>1, <3>2
  <2>2. /\ jobs' = jobs /\ worker[w].pc \in Comparing
        /\ \A v \in Workers : worker'[v].job = worker[v].job /\ worker'[v].todo = worker[v].todo
        /\ \A v \in Workers : v # w => worker'[v] = worker[v]
    <3>1. worker \in [Workers -> Worker]
      BY DEF MatchingInv, TypeOK
    <3>2. CASE NotifyLost(w)
      BY <3>1, <3>2 DEF NotifyLost, Worker, Comparing
    <3>3. CASE NotifyFound(w)
      BY <3>1, <3>3 DEF NotifyFound, Worker, Comparing
    <3>4. CASE MarkNotified(w)
      BY <3>1, <3>4 DEF MarkNotified, Worker, Comparing
    <3>. QED
      BY <1>4, <3>2, <3>3, <3>4
  <2>3. \A v \in Workers : worker'[v].pc \in Comparing => worker[v].pc \in Comparing
    BY <2>2
  <2>4. ASSUME NEW a \in {l, f}, NEW b \in {l, f}, NEW x \in Photos \cup {None}, MissedBy(a, b, x)'
        PROVE  MissedBy(a, b, x)
    BY <1>0, <1>01, <2>2, <2>3, <2>4 DEF MissedBy, JobFor
  <2>. QED
    BY <1>0, <1>01, <1>1, <2>1, <2>4, PairKept
<1>5. ASSUME NEW w \in Workers, NoMoreCandidates(w) \/ JobFail(w) PROVE PairMatched(l, f)'
  <2>1. /\ Keys' = Keys /\ jobs \in [Job -> JobRow] /\ worker \in [Workers -> Worker]
        /\ worker' = [worker EXCEPT ![w] = Idle] /\ None \notin Job /\ Idle.job = None
        /\ worker[w].pc # "idle"
    BY <1>5, MatchingAssumption
    DEF NoMoreCandidates, JobFail, Keys, MatchingInv, TypeOK, JobRow, Idle
  <2>2. ASSUME NEW a \in {l, f}, NEW b \in {l, f}, NEW x \in Photos \cup {None}, MissedBy(a, b, x)'
        PROVE  MissedBy(a, b, x)
    <3>1. PICK k \in Job : k = JobFor(a, item[a].revision, x)
      BY <1>2
    <3>20. jobs'[k].knew = jobs[k].knew /\ (jobs'[k].state = "completed" =>
              jobs[k].state = "completed" \/ (worker[w].job = k /\ worker[w].pc = "score" /\ worker[w].todo = {}))
      <4>1. CASE NoMoreCandidates(w)
        BY <2>1, <4>1 DEF NoMoreCandidates, JobRow
      <4>2. CASE JobFail(w)
        <5>1. worker[w].job \in Job
          BY <2>1, BusyWorker
        <5>. QED
          BY <2>1, <4>2, <5>1 DEF JobFail, JobRow
      <4>. QED
        BY <1>5, <4>1, <4>2
    <3>2. (\A v \in Workers : worker'[v].job = k => worker'[v] = worker[v]) /\ jobs'[k].knew = jobs[k].knew
      BY <2>1, <3>20
    <3>3. CASE jobs'[k].state # "completed" \/ worker[w].job # k
      <4>1. jobs'[k].state = "completed" => jobs[k].state = "completed"
        BY <3>3, <3>20
      <4>. QED
        BY <1>0, <1>01, <2>2, <3>1, <3>2, <4>1 DEF MissedBy, JobFor
    <3>4. CASE jobs'[k].state = "completed" /\ worker[w].job = k
      <4>1. worker[w].pc = "score" /\ worker[w].todo = {}
        <5>1. jobs[k].state = "active"
          BY <2>1, <3>4, BusyWorker
        <5>. QED
          BY <3>20, <3>4, <5>1
      <4>. QED
        BY <1>0, <1>01, <2>2, <3>1, <3>2, <3>4, <4>1 DEF MissedBy, JobFor, Comparing
    <3>. QED
      BY <3>3, <3>4
  <2>. QED
    BY <1>0, <1>01, <1>1, <2>1, <2>2, PairKept
<1>6. ASSUME NEW w \in Workers, FindCandidates(w) PROVE PairMatched(l, f)'
  <2>1. /\ Keys' = Keys /\ jobs \in [Job -> JobRow] /\ worker \in [Workers -> Worker] /\ worker[w].pc = "embed"
    BY <1>6 DEF FindCandidates, Keys, MatchingInv, TypeOK, JobRow
  <2>2. worker[w].job.item \in Items /\ worker[w].job \in Job /\ jobs[worker[w].job].state = "active"
    BY <2>1, BusyWorker
  <2>21. \A k \in Job : /\ jobs'[k].state = jobs[k].state
                        /\ k # worker[w].job => jobs'[k] = jobs[k]
    BY <1>6, <2>1, <2>2 DEF FindCandidates, JobRow
  <2>3. worker' = [worker EXCEPT ![w].pc = "score", ![w].todo = Candidates(worker[w].job.item)]
    <3>1. PICK todo \in SUBSET Candidates(worker[w].job.item) :
              /\ todo = Candidates(worker[w].job.item) \/ Cardinality(todo) = CandidateLimit
              /\ worker' = [worker EXCEPT ![w].pc = "score", ![w].todo = todo]
      BY <1>6 DEF FindCandidates
    <3>2. todo = Candidates(worker[w].job.item)
      BY <2>2, <3>1, EveryCandidateTaken DEF FewCandidates
    <3>. QED
      BY <3>1, <3>2
  <2>4. /\ worker'[w].job = worker[w].job /\ worker'[w].todo = Candidates(worker[w].job.item)
        /\ \A v \in Workers : v # w => worker'[v] = worker[v]
    BY <2>1, <2>3 DEF Worker
  <2>5. ASSUME NEW a \in {l, f}, NEW b \in {l, f}, {a, b} = {l, f}, NEW x \in Photos \cup {None}, MissedBy(a, b, x)'
        PROVE  MissedBy(a, b, x)
    <3>1. PICK k \in Job : k = JobFor(a, item[a].revision, x) /\ k.item = a
      BY <1>2
    <3>2. CASE worker[w].job = k
      <4>1. b \in OtherKind(a)
        BY <2>5, MatchingAssumption DEF OtherKind
      <4>2. [item |-> b, revision |-> item[b].revision] \in worker'[w].todo
        BY <2>4, <3>1, <3>2, <4>1 DEF Candidates
      <4>. QED
        <5>1. jobs'[k].state # "completed" /\ \A v \in Workers : worker[v].job = k => v = w
          BY <2>1, <2>2, <2>21, <3>2, BusyWorker
        <5>. QED
          BY <1>0, <2>1, <2>4, <2>5, <3>1, <3>2, <4>2, <5>1 DEF MissedBy, JobFor
    <3>3. CASE worker[w].job # k
      BY <1>0, <1>01, <2>1, <2>21, <2>4, <2>5, <3>1, <3>3 DEF MissedBy, JobFor
    <3>. QED
      BY <3>2, <3>3
  <2>. QED
    BY <1>0, <1>01, <1>1, <2>1, <2>5, PairKept
<1>7. ASSUME NEW w \in Workers, ScoreCandidate(w) PROVE PairMatched(l, f)'
  <2>1. worker \in [Workers -> Worker] /\ worker[w].pc = "score" /\ jobs' = jobs
    BY <1>7 DEF ScoreCandidate, MatchingInv, TypeOK
  <2>2. PICK c \in worker[w].todo :
            /\ matches' = IF ~IsStrong(Scored(worker[w].job, c)) \/ Scored(worker[w].job, c).key \in Keys
                          THEN matches ELSE matches \cup {Scored(worker[w].job, c)}
            /\ Notifies(w, c, Scored(worker[w].job, c))
    BY <1>7 DEF ScoreCandidate
  <2>3. Keys \subseteq Keys' /\ (IsStrong(Scored(worker[w].job, c)) => Scored(worker[w].job, c).key \in Keys')
    BY <2>2 DEF Keys
  <2>4. /\ worker'[w].job = worker[w].job /\ worker'[w].todo = worker[w].todo \ {c}
        /\ \A v \in Workers : v # w => worker'[v] = worker[v]
    BY <2>1, <2>2 DEF Notifies, Worker
  <2>5. ASSUME NEW a \in {l, f}, NEW b \in {l, f}, {a, b} = {l, f}, NEW x \in Photos \cup {None}, MissedBy(a, b, x)'
        PROVE  MissedBy(a, b, x) \/ KeyOf(l, f) \in Keys'
    <3>1. PICK k \in Job : k = JobFor(a, item[a].revision, x) /\ k.item = a /\ k.revision = item[a].revision
      BY <1>2
    <3>2. CASE worker[w].job = k /\ c = [item |-> b, revision |-> item[b].revision]
      <4>1. Scored(k, c).key = KeyOf(l, f) /\ IsStrong(Scored(k, c))
        <5>1. CASE a = l /\ b = f
          BY <1>02, <3>1, <3>2, <5>1 DEF Scored, KeyOf, IsStrong
        <5>2. CASE a = f /\ b = l
          BY <1>02, <3>1, <3>2, <5>2, MatchingAssumption DEF Scored, KeyOf, IsStrong
        <5>. QED
          BY <2>5, <5>1, <5>2
      <4>. QED
        BY <2>3, <3>2, <4>1
    <3>3. CASE worker[w].job = k /\ c # [item |-> b, revision |-> item[b].revision]
      BY <1>0, <1>01, <2>1, <2>4, <2>5, <3>1, <3>3 DEF MissedBy, JobFor, Comparing
    <3>4. CASE worker[w].job # k
      BY <1>0, <1>01, <2>1, <2>4, <2>5, <3>1, <3>4 DEF MissedBy, JobFor
    <3>. QED
      BY <3>2, <3>3, <3>4
  <2>6. KeyOf(l, f)' = KeyOf(l, f)
    BY <1>0 DEF KeyOf
  <2>7. CASE KeyOf(l, f) \in Keys'
    BY <2>6, <2>7 DEF PairMatched
  <2>8. CASE KeyOf(l, f) \notin Keys'
    BY <1>0, <1>01, <1>1, <2>3, <2>5, <2>8, PairKept
  <2>. QED
    BY <2>7, <2>8
<1>. QED
  BY <1>03, <1>3, <1>4, <1>5, <1>6, <1>7 DEF WorkerNext

\* Edits, uploads, retries and other workers in between lose no pair, leave no match of an
\* earlier text, and leave no photo unread but after a failed attempt, as long as a query takes
\* every candidate.
THEOREM NoPairIsLost == Spec /\ []FewCandidates => []MatchesFollowTheItems
<1>1. Init => PairsInv
  BY DEF Init, PairsInv, PairMatched, Items
<1>2. ASSUME MatchingInv, PhotosInv, PairsInv, FewCandidates, [Next]_vars PROVE PairsInv'
  <2>1. CASE UNCHANGED vars
    <3>1. \A i : Says(i)' = Says(i)
      BY <2>1 DEF vars, Says
    <3>2. UNCHANGED <<item, jobs, worker>> /\ Keys' = Keys
      BY <2>1 DEF vars, Keys
    <3>3. \A i, c, x : MissedBy(i, c, x)' <=> MissedBy(i, c, x)
      BY <3>1, <3>2 DEF MissedBy, JobFor
    <3>. QED
      BY <1>2, <3>1, <3>2, <3>3, PairKept DEF PairsInv
  <2>. QED
    BY <1>2, <2>1, RequestKeepsPairs, WorkerKeepsPairs DEF Next
<1>3. ASSUME MatchingInv, PhotosInv, PairsInv PROVE MatchesFollowTheItems
  <2>1. CurrentMatchIsOfCurrentText /\ EmbeddedPhotoIsRead
    BY <1>3, TextIsCurrent DEF PhotosInv
  <2>2. ProcessedPairIsMatched
    BY <1>3 DEF ProcessedPairIsMatched, PairsInv, PairMatched, Missed, MissedBy, KeyOf, JobFor
  <2>. QED
    BY <2>1, <2>2 DEF MatchesFollowTheItems
<1>. QED
  BY <1>1, <1>2, <1>3, MatchingInvariant, PTL DEF Spec

-----------------------------------------------------------------------------
(* From the form to the rows *)

FormRow == [page: {"form", "away", "success"}, kind: Kinds, step: Nat, filled: SUBSET Fields,
            status: {"idle", "pending", "error"}, mount: 0..MaxMounts]

SubmissionRow == [pc: {"none", "create", "enqueue", "upload", "uploading"}, mount: 0..MaxMounts, kind: Kinds,
                  filled: SUBSET Fields, item: Nat, told: BOOLEAN]

ReportedRow == [kind: Kinds, described: SUBSET {"text", "category"}, mount: 0..MaxMounts]

UploadRow == [pc: {"none", "put", "row", "rescore"}, item: 0..MaxItems, object: 0..MaxObjects]

\* A form on the screen that has gone past a field has it, an idle one has sent nothing, and one
\* that shows an error has told its user of it.
FormInv ==
    /\ form \in FormRow /\ form.step \in 1..TotalSteps(form.kind)
    /\ form.page = "form" =>
          /\ form.mount > 0
          /\ form.step > 1 => "text" \in form.filled
          /\ form.step > StepOf(form.kind, "category") => "category" \in form.filled
          /\ form.status = "idle" =>
                /\ \A s \in Submissions : submission[s].pc # "none" => submission[s].mount # form.mount
                /\ \A i \in 1..Len(items) : items[i].mount # form.mount
          /\ form.status = "error" => form.mount \in errors

\* What is under way was sent by a form that was there, with what the form asks for; two
\* submissions of one form, or one and an item, follow an error.
SubmissionsInv ==
    /\ submission \in [Submissions -> SubmissionRow]
    /\ \A s \in Submissions :
          /\ submission[s].item \in 0..Len(items)
          /\ submission[s].pc \in {"enqueue", "upload", "uploading"} => submission[s].item \in 1..Len(items)
          /\ submission[s].pc # "none" => submission[s].mount \in 1..form.mount
          /\ submission[s].pc = "create" => {"text", "category"} \subseteq submission[s].filled
          /\ submission[s].pc = "create" =>
                \A i \in 1..Len(items) : items[i].mount = submission[s].mount => submission[s].mount \in errors
    /\ \A r, s \in Submissions :
          r # s /\ submission[r].pc # "none" /\ submission[s].pc # "none" /\ submission[r].mount = submission[s].mount
              => submission[s].mount \in errors

ItemsInv ==
    /\ items \in Seq(ReportedRow) /\ Len(items) \in 0..MaxItems
    /\ \A i \in 1..Len(items) : items[i].mount <= form.mount
    /\ PublishedIsDescribed /\ DuplicateFollowsAnError

\* Keys are used once and in order, and nobody's row has the key of an upload that has not
\* written its own.
ObjectsInv ==
    /\ upload \in [Uploads -> UploadRow]
    /\ images \subseteq [item: 1..MaxItems, object: 1..MaxObjects]
    /\ scoring \subseteq [item: 1..MaxItems, image: 0..MaxObjects]
    /\ \E n \in 0..MaxObjects : objects = 1..n
    /\ \A u \in Uploads :
          /\ upload[u].pc \in {"none", "put"} => upload[u].object = 0
          /\ upload[u].pc \in {"row", "rescore"} => upload[u].object \in objects
          /\ \A v \in Uploads : u # v /\ upload[u].object # 0 => upload[u].object # upload[v].object
          /\ \A m \in images : upload[u].object = m.object => upload[u].pc = "rescore" /\ m.item = upload[u].item
    /\ ImageHasItsObject /\ ImageIsScored

UploadItemsInv == \A u \in Uploads : upload[u].pc # "none" => upload[u].item \in 1..Len(items)

\* Uploads that were let in and have not written their row.
Uploading(i) == {u \in Uploads : upload[u].pc \in {"put", "row"} /\ upload[u].item = i}

CountInv ==
    /\ IsFiniteSet(images)
    /\ \A i \in 1..MaxItems :
          Cardinality(ImagesOf(i)) + Cardinality(Uploading(i)) <= MaxImages + Cardinality(Uploads) - 1

\* An item that was there at the start and has not been seen has a page of newer ones before it
\* for every page that was read.
ReaderInv ==
    /\ reader \in [page: Nat, seen: SUBSET Nat, due: SUBSET Nat]
    /\ reader.due \subseteq OfKind("LOST")
    /\ \A i \in reader.due : i \in reader.seen \/ reader.page * PageSize <= Cardinality(Newer("LOST", i))

ReportInv ==
    /\ FormInv /\ SubmissionsInv /\ ItemsInv
    /\ ObjectsInv /\ UploadItemsInv /\ CountInv /\ ReaderInv

-----------------------------------------------------------------------------

\* Uploads are finitely many.
LEMMA UploadsAreCounted ==
    ASSUME NEW V \in SUBSET Uploads
    PROVE  IsFiniteSet(V) /\ Cardinality(V) \in Nat /\ Cardinality(V) <= Cardinality(Uploads)
<1>1. IsFiniteSet(Uploads)
  BY ReportFlowAssumption
<1>. QED
  BY <1>1, FS_Subset, FS_CardinalityType

\* Items of a kind that are newer than one are finitely many.
LEMMA NewerIsFinite ==
    ASSUME items \in Seq(ReportedRow), NEW kind, NEW i
    PROVE  IsFiniteSet(Newer(kind, i)) /\ Cardinality(Newer(kind, i)) \in Nat
<1>1. Len(items) \in Nat
  BY LenProperties
<1>2. IsFiniteSet(1..Len(items))
  BY <1>1, FS_Interval
<1>3. Newer(kind, i) \subseteq 1..Len(items)
  BY DEF Newer, OfKind
<1>. QED
  BY <1>2, <1>3, FS_Subset, FS_CardinalityType

\* Between the newest item and one that has more than n newer ones there is one that has n.
LEMMA SomeItemHasThatMany ==
    ASSUME items \in Seq(ReportedRow), NEW kind, NEW i \in OfKind(kind), NEW n \in Nat, n < Cardinality(Newer(kind, i))
    PROVE  \E j \in OfKind(kind) : Cardinality(Newer(kind, j)) = n
<1> DEFINE L == Len(items)
<1> SUFFICES ASSUME \A j \in OfKind(kind) : Cardinality(Newer(kind, j)) # n PROVE FALSE
  OBVIOUS
<1>1. L \in Nat /\ i \in 1..L
  BY LenProperties DEF OfKind
<1> DEFINE S == {q \in 0..L : Cardinality(Newer(kind, L - q)) <= n}
<1>2. 0 \in S
  <2>0. L - 0 = L
    BY <1>1
  <2>1. Newer(kind, L) = {}
    BY <1>1 DEF Newer, OfKind
  <2>2. Cardinality(Newer(kind, L - 0)) = 0
    BY <1>1, <2>1, <2>0, FS_EmptySet
  <2>. QED
    BY <1>1, <2>2
<1>3. ASSUME NEW q \in 0..L, q \in S, q < L
      PROVE  q + 1 \in S
  <2> DEFINE p == L - q
  <2>1. p \in 1..L /\ L - (q + 1) = p - 1 /\ q + 1 \in 0..L
    BY <1>1, <1>3
  <2>2. Cardinality(Newer(kind, p)) <= n
    BY <1>3
  <2>3. IsFiniteSet(Newer(kind, p)) /\ Cardinality(Newer(kind, p)) \in Nat
    BY NewerIsFinite
  <2>4. CASE p \in OfKind(kind)
    <3>1. Newer(kind, p - 1) = Newer(kind, p) \cup {p}
      BY <1>1, <2>1, <2>4 DEF Newer, OfKind
    <3>2. p \notin Newer(kind, p)
      BY <2>1 DEF Newer
    <3>3. Cardinality(Newer(kind, p - 1)) = Cardinality(Newer(kind, p)) + 1
      BY <2>3, <3>1, <3>2, FS_AddElement
    <3>4. Cardinality(Newer(kind, p)) # n
      BY <2>4
    <3>. QED
      BY <2>1, <2>2, <2>3, <3>3, <3>4
  <2>5. CASE p \notin OfKind(kind)
    <3>1. Newer(kind, p - 1) = Newer(kind, p)
      BY <1>1, <2>1, <2>5 DEF Newer, OfKind
    <3>. QED
      BY <2>1, <2>2, <3>1
  <2>. QED
    BY <2>4, <2>5
<1>4. 0..L \subseteq S
  <2> HIDE DEF S
  <2>. QED
    BY <1>1, <1>2, <1>3, BoundedInduction
<1>5. L - i \in 0..L /\ L - (L - i) = i
  BY <1>1
<1>6. Cardinality(Newer(kind, i)) <= n
  BY <1>4, <1>5
<1>7. Cardinality(Newer(kind, i)) \in Nat
  BY NewerIsFinite
<1>. QED
  BY <1>6, <1>7

\* The invariant is what readers and the matcher are promised.
LEMMA ReportsAreSafe == ReportInv => ReportsAreWhole
<1> SUFFICES ASSUME ReportInv PROVE ReportsAreWhole
  OBVIOUS
<1>1. PublishedIsDescribed /\ DuplicateFollowsAnError /\ ImageHasItsObject /\ ImageIsScored
  BY DEF ReportInv, ItemsInv, ObjectsInv
<1>2. ImagesOverLimitByOverlap
  <2> SUFFICES ASSUME NEW i \in 1..Len(items)
               PROVE  Cardinality(ImagesOf(i)) <= MaxImages + Cardinality(Uploads) - 1
    BY DEF ImagesOverLimitByOverlap
  <2>1. i \in 1..MaxItems
    BY ReportFlowAssumption DEF ReportInv, ItemsInv
  <2>2. Cardinality(ImagesOf(i)) + Cardinality(Uploading(i)) <= MaxImages + Cardinality(Uploads) - 1
    BY <2>1 DEF ReportInv, CountInv
  <2>3. Uploading(i) \in SUBSET Uploads /\ Uploads \in SUBSET Uploads
    BY DEF Uploading
  <2>4. Cardinality(Uploading(i)) \in Nat /\ Cardinality(Uploads) \in Nat /\ MaxImages \in Nat
    BY <2>3, UploadsAreCounted, ReportFlowAssumption
  <2>5. ImagesOf(i) \subseteq images
    BY DEF ImagesOf
  <2>6. Cardinality(ImagesOf(i)) \in Nat
    BY <2>5, FS_Subset, FS_CardinalityType DEF ReportInv, CountInv
  <2>. QED
    BY <2>2, <2>4, <2>6
<1>3. PagesMissNothing
  <2> SUFFICES ASSUME reader.page > 0, SearchPage("LOST", reader.page) = {},
                      NEW i \in reader.due, i \notin reader.seen
               PROVE  FALSE
    BY DEF PagesMissNothing
  <2>1. /\ reader.page \in Nat /\ PageSize \in Nat \ {0} /\ items \in Seq(ReportedRow)
        /\ i \in OfKind("LOST") /\ reader.page * PageSize <= Cardinality(Newer("LOST", i))
    BY ReportFlowAssumption DEF ReportInv, ReaderInv, ItemsInv
  <2> DEFINE n == reader.page * PageSize - 1
  <2>2. n \in Nat /\ n \in (reader.page - 1) * PageSize .. reader.page * PageSize - 1
    BY <2>1
  <2>3. Cardinality(Newer("LOST", i)) \in Nat
    BY <2>1, NewerIsFinite
  <2>4. n < Cardinality(Newer("LOST", i))
    BY <2>1, <2>2, <2>3
  <2>5. PICK j \in OfKind("LOST") : Cardinality(Newer("LOST", j)) = n
    BY <2>1, <2>2, <2>4, SomeItemHasThatMany
  <2>6. j \in SearchPage("LOST", reader.page)
    BY <2>2, <2>5 DEF SearchPage
  <2>. QED
    BY <2>6
<1>. QED
  BY <1>1, <1>2, <1>3 DEF ReportsAreWhole

\* And it has the types.
LEMMA ReportsAreTyped == ReportInv => ReportTypeOK
BY DEF ReportInv, FormInv, FormRow, SubmissionsInv, SubmissionRow, ItemsInv, ReportedRow, ObjectsInv, UploadRow, ReportTypeOK

\* The initial states have the invariant.
LEMMA ReportInitInv == ReportInit => ReportInv
<1> SUFFICES ASSUME ReportInit PROVE ReportInv
  OBVIOUS
<1>0. /\ MaxMounts \in Nat /\ MaxItems \in Nat /\ MaxObjects \in Nat /\ MaxImages \in Nat \ {0}
  BY ReportFlowAssumption
<1>1. Len(items) = 0 /\ items \in Seq(ReportedRow)
  BY DEF ReportInit
<1>2. FormInv
  BY <1>0 DEF ReportInit, FormInv, FormRow, Elsewhere, Blank, TotalSteps, Kinds
<1>3. SubmissionsInv
  BY <1>0, <1>1 DEF ReportInit, SubmissionsInv, SubmissionRow, NoSubmission, Kinds
<1>4. ItemsInv
  BY <1>0, <1>1 DEF ItemsInv, PublishedIsDescribed, DuplicateFollowsAnError
<1>5. ObjectsInv
  <2>1. objects = 1..0
    BY DEF ReportInit
  <2>2. upload \in [Uploads -> UploadRow] /\ \A u \in Uploads : upload[u].pc = "none" /\ upload[u].object = 0
    BY <1>0 DEF ReportInit, NoUpload, UploadRow
  <2>3. images = {} /\ scoring = {}
    BY DEF ReportInit
  <2>. QED
    BY <1>0, <2>1, <2>2, <2>3 DEF ObjectsInv, ImageHasItsObject, ImageIsScored
<1>6. UploadItemsInv
  BY DEF ReportInit, UploadItemsInv, NoUpload
<1>7. CountInv
  <2>1. images = {} /\ \A i \in 1..MaxItems : ImagesOf(i) = {} /\ Uploading(i) = {}
    BY DEF ReportInit, ImagesOf, Uploading, NoUpload
  <2>2. IsFiniteSet({}) /\ Cardinality({}) = 0
    BY FS_EmptySet
  <2>3. Cardinality(Uploads) \in Nat
    BY UploadsAreCounted
  <2>4. 0 + 0 <= MaxImages + Cardinality(Uploads) - 1
    BY <1>0, <2>3
  <2>. QED
    BY <2>1, <2>2, <2>4 DEF CountInv
<1>8. ReaderInv
  BY DEF ReportInit, ReaderInv, NoReader
<1>. QED
  BY <1>2, <1>3, <1>4, <1>5, <1>6, <1>7, <1>8 DEF ReportInv

-----------------------------------------------------------------------------
(* Steps of the form and of what it sent *)

\* A submission goes on or ends, and the form stays, gives way to the page of success, or shows
\* the error its user is told of.
LEMMA FormGoesOn ==
    ASSUME FormInv, SubmissionsInv, ItemsInv, UNCHANGED items,
           NEW s \in Submissions, NEW row \in SubmissionRow, submission' = [submission EXCEPT ![s] = row],
           row.item \in 0..Len(items),
           row.pc \in {"enqueue", "upload", "uploading"} => row.item \in 1..Len(items),
           row.pc # "none" => submission[s].pc # "none" /\ row.mount = submission[s].mount,
           row.pc = "create" => submission[s].pc = "create" /\ row.filled = submission[s].filled,
           errors \subseteq errors',
           \/ form' = form
           \/ form' = Elsewhere("success", form.mount)
           \/ form' = [form EXCEPT !.status = "error"] /\ form.mount \in errors'
    PROVE  FormInv' /\ SubmissionsInv' /\ ItemsInv'
<1>0. /\ form \in FormRow /\ form.step \in 1..TotalSteps(form.kind)
      /\ submission \in [Submissions -> SubmissionRow]
  BY DEF FormInv, SubmissionsInv
<1>1. /\ form' \in FormRow /\ form'.mount = form.mount /\ form'.step \in 1..TotalSteps(form'.kind)
      /\ form'.page = "form" =>
            /\ form.page = "form" /\ form'.kind = form.kind /\ form'.step = form.step
            /\ form'.filled = form.filled
            /\ \/ form'.status = form.status
               \/ form'.status = "error" /\ form.mount \in errors'
  <2>1. CASE form' = form
    BY <1>0, <2>1
  <2>2. CASE form' = Elsewhere("success", form.mount)
    <3>1. form' = [page |-> "success", kind |-> "LOST", step |-> 1, filled |-> {}, status |-> "idle", mount |-> form.mount]
      BY <2>2 DEF Elsewhere, Blank
    <3>2. form.mount \in 0..MaxMounts
      BY <1>0 DEF FormRow
    <3>. QED
      BY <3>1, <3>2 DEF FormRow, Kinds, TotalSteps
  <2>3. CASE form' = [form EXCEPT !.status = "error"] /\ form.mount \in errors'
    BY <1>0, <2>3 DEF FormRow
  <2>. QED
    BY <2>1, <2>2, <2>3
<1>2. /\ submission' \in [Submissions -> SubmissionRow]
      /\ submission'[s] = row /\ \A r \in Submissions : r # s => submission'[r] = submission[r]
  BY <1>0
<1>3. \A r \in Submissions : submission'[r].pc # "none" =>
         /\ submission[r].pc # "none" /\ submission'[r].mount = submission[r].mount
  BY <1>2
<1>4. FormInv'
  <2>1. form'.page = "form" =>
          /\ form'.mount > 0
          /\ form'.step > 1 => "text" \in form'.filled
          /\ form'.step > StepOf(form'.kind, "category") => "category" \in form'.filled
    BY <1>1 DEF FormInv
  <2>2. ASSUME form'.page = "form", form'.status = "idle"
        PROVE  /\ \A r \in Submissions : submission'[r].pc # "none" => submission'[r].mount # form'.mount
               /\ \A i \in 1..Len(items) : items[i].mount # form'.mount
    <3>1. form.page = "form" /\ form.status = "idle"
      BY <1>1, <2>2
    <3>. QED
      BY <1>1, <1>3, <3>1 DEF FormInv
  <2>3. form'.page = "form" /\ form'.status = "error" => form'.mount \in errors'
    BY <1>1 DEF FormInv
  <2>. QED
    BY <1>1, <2>1, <2>2, <2>3 DEF FormInv
<1>5. SubmissionsInv'
  <2>1. \A r \in Submissions :
          /\ submission'[r].item \in 0..Len(items)
          /\ submission'[r].pc \in {"enqueue", "upload", "uploading"} => submission'[r].item \in 1..Len(items)
    BY <1>2 DEF SubmissionsInv
  <2>2. \A r \in Submissions : submission'[r].pc # "none" => submission'[r].mount \in 1..form'.mount
    BY <1>1, <1>3 DEF SubmissionsInv
  <2>3. \A r \in Submissions : submission'[r].pc = "create" =>
          submission[r].pc = "create" /\ submission'[r].filled = submission[r].filled
    BY <1>2
  <2>4. \A r \in Submissions : submission'[r].pc = "create" =>
          /\ {"text", "category"} \subseteq submission'[r].filled
          /\ \A i \in 1..Len(items) : items[i].mount = submission'[r].mount => submission'[r].mount \in errors'
    BY <1>3, <2>3 DEF SubmissionsInv
  <2>5. \A q, r \in Submissions :
          q # r /\ submission'[q].pc # "none" /\ submission'[r].pc # "none" /\ submission'[q].mount = submission'[r].mount
              => submission'[r].mount \in errors'
    BY <1>3 DEF SubmissionsInv
  <2>. QED
    BY <1>2, <2>1, <2>2, <2>4, <2>5 DEF SubmissionsInv
<1>6. ItemsInv'
  BY <1>1 DEF ItemsInv, PublishedIsDescribed, DuplicateFollowsAnError
<1>. QED
  BY <1>4, <1>5, <1>6

\* Steps that leave the items and the reader alone keep the reader's invariant.
LEMMA ReaderStays ==
    ASSUME ReaderInv, UNCHANGED <<items, reader>>
    PROVE  ReaderInv'
<1>1. OfKind("LOST")' = OfKind("LOST") /\ \A i : Newer("LOST", i)' = Newer("LOST", i)
  BY DEF OfKind, Newer
<1>. QED
  BY <1>1 DEF ReaderInv

\* Steps that leave the uploads and their images alone keep their invariants.
LEMMA UploadsStay ==
    ASSUME ObjectsInv, CountInv, UNCHANGED <<upload, objects, images, cut>>,
           scoring \subseteq scoring', scoring' \subseteq [item: 1..MaxItems, image: 0..MaxObjects]
    PROVE  ObjectsInv' /\ CountInv'
<1>1. ObjectsInv'
  BY DEF ObjectsInv, ImageHasItsObject, ImageIsScored
<1>2. \A i : ImagesOf(i)' = ImagesOf(i) /\ Uploading(i)' = Uploading(i)
  BY DEF ImagesOf, Uploading
<1>3. CountInv'
  BY <1>2 DEF CountInv
<1>. QED
  BY <1>1, <1>3

\* What Told shows of an error is the form as it was, or the form with its error.
LEMMA ErrorIsShown ==
    ASSUME NEW s \in Submissions
    PROVE  \/ Told(s, FALSE) = form
           \/ Told(s, FALSE) = [form EXCEPT !.status = "error"] /\ form.mount = submission[s].mount
BY DEF Told

\* The slot that ends.
LEMMA NoSubmissionIsARow == NoSubmission \in SubmissionRow /\ NoSubmission.item = 0 /\ NoSubmission.pc = "none"
BY ReportFlowAssumption DEF NoSubmission, SubmissionRow, Kinds

\* LoseAnswer keeps the invariant.
LEMMA LoseAnswerInv ==
    ASSUME ReportInv, NEW s \in Submissions, LoseAnswer(s)
    PROVE  ReportInv'
<1> DEFINE row == [submission[s] EXCEPT !.told = TRUE]
<1>0. submission[s] \in SubmissionRow
  BY DEF ReportInv, SubmissionsInv
<1>1. /\ row \in SubmissionRow /\ row.item = submission[s].item /\ row.pc = submission[s].pc
      /\ row.mount = submission[s].mount /\ row.filled = submission[s].filled
  BY <1>0 DEF SubmissionRow
<1>2. submission' = [submission EXCEPT ![s] = row]
  BY DEF LoseAnswer
<1>3. /\ submission[s].pc # "none" /\ UNCHANGED items /\ errors \subseteq errors' /\ submission[s].mount \in errors'
      /\ form' = Told(s, FALSE)
  BY DEF LoseAnswer, ShowError
<1>4. \/ form' = form
      \/ form' = [form EXCEPT !.status = "error"] /\ form.mount \in errors'
  BY <1>3, ErrorIsShown
<1>5. /\ row.item \in 0..Len(items)
      /\ row.pc \in {"enqueue", "upload", "uploading"} => row.item \in 1..Len(items)
  BY <1>1 DEF ReportInv, SubmissionsInv
<1>6. FormInv' /\ SubmissionsInv' /\ ItemsInv'
  <2> HIDE DEF row
  <2>. QED
    BY <1>1, <1>2, <1>3, <1>4, <1>5, FormGoesOn DEF ReportInv
<1>7. UNCHANGED <<items, reader, upload, objects, images, scoring, cut>>
  BY DEF LoseAnswer
<1>8. ObjectsInv' /\ CountInv' /\ ReaderInv' /\ UploadItemsInv'
  <2>1. scoring' \subseteq [item: 1..MaxItems, image: 0..MaxObjects]
    BY <1>7 DEF ReportInv, ObjectsInv
  <2>. QED
    BY <1>7, <2>1, UploadsStay, ReaderStays DEF ReportInv, UploadItemsInv
<1>. QED
  BY <1>6, <1>8 DEF ReportInv

\* A submission that is refused, or whose job is not added, ends with an error.
LEMMA SubmissionFails ==
    ASSUME ReportInv, NEW s \in Submissions, submission[s].pc # "none",
           IF submission[s].told THEN UNCHANGED <<form, errors>> ELSE ShowError(s),
           submission' = [submission EXCEPT ![s] = NoSubmission],
           UNCHANGED <<items, upload, objects, images, scoring, reader, cut>>
    PROVE  ReportInv'
<1>1. /\ errors \subseteq errors'
      /\ \/ form' = form
         \/ form' = [form EXCEPT !.status = "error"] /\ form.mount \in errors'
  <2>1. CASE submission[s].told
    BY <2>1
  <2>2. CASE ~submission[s].told
    <3>1. ShowError(s)
      BY <2>2
    <3>. QED
      BY <3>1, ErrorIsShown DEF ShowError
  <2>. QED
    BY <2>1, <2>2
<1>2. 0 \in 0..Len(items)
  BY LenProperties DEF ReportInv, ItemsInv
<1>3. FormInv' /\ SubmissionsInv' /\ ItemsInv'
  BY <1>1, <1>2, NoSubmissionIsARow, FormGoesOn DEF ReportInv
<1>4. ObjectsInv' /\ CountInv' /\ ReaderInv' /\ UploadItemsInv'
  <2>1. scoring' \subseteq [item: 1..MaxItems, image: 0..MaxObjects]
    BY DEF ReportInv, ObjectsInv
  <2>. QED
    BY <2>1, UploadsStay, ReaderStays DEF ReportInv, UploadItemsInv
<1>. QED
  BY <1>3, <1>4 DEF ReportInv

\* EnqueueItem keeps the invariant.
LEMMA EnqueueItemInv ==
    ASSUME ReportInv, NEW s \in Submissions, EnqueueItem(s)
    PROVE  ReportInv'
<1> DEFINE row == AfterPost(s)
<1>0. /\ submission[s] \in SubmissionRow /\ submission[s].pc = "enqueue"
      /\ submission[s].item \in 1..Len(items) /\ submission[s].item \in 1..MaxItems
  BY ReportFlowAssumption DEF ReportInv, SubmissionsInv, ItemsInv, EnqueueItem
<1>1. /\ row \in SubmissionRow /\ row.item \in 0..Len(items) /\ row.pc \in {"none", "upload"}
      /\ row.pc # "none" => row.mount = submission[s].mount /\ row.item = submission[s].item
  <2>1. CASE row = NoSubmission
    BY <1>0, <2>1, NoSubmissionIsARow
  <2>2. CASE row = [submission[s] EXCEPT !.pc = "upload"]
    BY <1>0, <2>2 DEF SubmissionRow
  <2>. QED
    BY <2>1, <2>2 DEF AfterPost
<1>2. submission' = [submission EXCEPT ![s] = row]
  BY DEF EnqueueItem
<1>3. UNCHANGED items /\ errors \subseteq errors' /\ (form' = form \/ form' = Elsewhere("success", form.mount))
  BY DEF EnqueueItem, Told
<1>4. FormInv' /\ SubmissionsInv' /\ ItemsInv'
  <2> HIDE DEF row
  <2>. QED
    BY <1>0, <1>1, <1>2, <1>3, FormGoesOn DEF ReportInv
<1>5. UNCHANGED <<items, reader, upload, objects, images, cut>>
  BY DEF EnqueueItem
<1>6. scoring \subseteq scoring' /\ scoring' \subseteq [item: 1..MaxItems, image: 0..MaxObjects]
  BY <1>0, ReportFlowAssumption DEF EnqueueItem, ReportInv, ObjectsInv
<1>7. ObjectsInv' /\ CountInv' /\ ReaderInv' /\ UploadItemsInv'
  BY <1>5, <1>6, UploadsStay, ReaderStays DEF ReportInv, UploadItemsInv
<1>. QED
  BY <1>4, <1>7 DEF ReportInv

\* The mount of an item is a number.
LEMMA ItemsHaveMounts == ItemsInv => \A i \in 1..Len(items) : items[i] \in ReportedRow /\ items[i].mount \in Nat
<1> SUFFICES ASSUME ItemsInv, NEW i \in 1..Len(items) PROVE items[i] \in ReportedRow /\ items[i].mount \in Nat
  OBVIOUS
<1>1. items[i] \in ReportedRow
  BY ElementOfSeq DEF ItemsInv
<1>2. items[i].mount \in 0..MaxMounts
  BY <1>1 DEF ReportedRow
<1>. QED
  BY <1>1, <1>2, ReportFlowAssumption

\* Steps that only the form takes: what it sent, and what became of it, stay.
LEMMA FormChanges ==
    ASSUME ReportInv, UNCHANGED <<submission, items, upload, objects, images, scoring, reader, errors, cut>>,
           FormInv', form'.mount >= form.mount
    PROVE  ReportInv'
<1>0. form.mount \in Nat /\ form'.mount \in Nat
  BY ReportFlowAssumption DEF ReportInv, FormInv, FormRow
<1>1. SubmissionsInv'
  BY <1>0 DEF ReportInv, SubmissionsInv
<1>2. ItemsInv'
  <2>1. \A i \in 1..Len(items) : items[i].mount \in Nat
    BY ItemsHaveMounts DEF ReportInv
  <2>2. \A i \in 1..Len(items) : items[i].mount <= form'.mount
    BY <1>0, <2>1 DEF ReportInv, ItemsInv
  <2>. QED
    BY <2>2 DEF ReportInv, ItemsInv, PublishedIsDescribed, DuplicateFollowsAnError
<1>3. ObjectsInv' /\ CountInv' /\ ReaderInv' /\ UploadItemsInv'
  <2>1. scoring' \subseteq [item: 1..MaxItems, image: 0..MaxObjects]
    BY DEF ReportInv, ObjectsInv
  <2>. QED
    BY <2>1, UploadsStay, ReaderStays DEF ReportInv, UploadItemsInv
<1>. QED
  BY <1>1, <1>2, <1>3 DEF ReportInv

\* Open keeps the invariant.
LEMMA OpenInv ==
    ASSUME ReportInv, NEW kind \in Kinds, Open(kind)
    PROVE  ReportInv'
<1>0. form.mount \in 0..MaxMounts /\ MaxMounts \in Nat /\ form.mount < MaxMounts
  BY ReportFlowAssumption DEF ReportInv, FormInv, FormRow, Open
<1>1. form' = [page |-> "form", kind |-> kind, step |-> 1, filled |-> {}, status |-> "idle", mount |-> form.mount + 1]
  BY DEF Open, Blank
<1>2. form'.mount \in 0..MaxMounts /\ form'.mount > form.mount
  BY <1>0, <1>1
<1>3. form' \in FormRow /\ form'.step \in 1..TotalSteps(form'.kind) /\ ~(1 > StepOf(kind, "category"))
  BY <1>1, <1>2 DEF FormRow, TotalSteps, StepOf
<1>4. \A s \in Submissions : submission'[s].pc # "none" => submission'[s].mount # form'.mount
  BY <1>0, <1>2 DEF ReportInv, SubmissionsInv, Open
<1>5. \A i \in 1..Len(items') : items'[i].mount # form'.mount
  <2>1. \A i \in 1..Len(items) : items[i].mount \in Nat /\ items[i].mount <= form.mount
    BY ItemsHaveMounts DEF ReportInv, ItemsInv
  <2>. QED
    BY <1>0, <1>2, <2>1 DEF Open
<1>6. FormInv'
  BY <1>0, <1>1, <1>2, <1>3, <1>4, <1>5 DEF FormInv
<1>. QED
  BY <1>0, <1>2, <1>6, FormChanges DEF Open

\* Leave keeps the invariant.
LEMMA LeaveInv ==
    ASSUME ReportInv, Leave
    PROVE  ReportInv'
<1>0. form.mount \in 0..MaxMounts /\ MaxMounts \in Nat
  BY ReportFlowAssumption DEF ReportInv, FormInv, FormRow
<1>1. form' = [page |-> "away", kind |-> "LOST", step |-> 1, filled |-> {}, status |-> "idle", mount |-> form.mount]
  BY DEF Leave, Elsewhere, Blank
<1>2. FormInv'
  BY <1>0, <1>1 DEF FormInv, FormRow, Kinds, TotalSteps
<1>. QED
  BY <1>0, <1>1, <1>2, FormChanges DEF Leave

\* UpdateField keeps the invariant.
LEMMA UpdateFieldInv ==
    ASSUME ReportInv, NEW field \in Fields, UpdateField(field)
    PROVE  ReportInv'
<1> DEFINE filled == IF field \in form.filled THEN form.filled \ {field} ELSE form.filled \cup {field}
<1>0. /\ form \in FormRow /\ form.step \in 1..TotalSteps(form.kind) /\ form.page = "form"
      /\ StepOf(form.kind, field) = form.step
  BY DEF ReportInv, FormInv, UpdateField
<1>1. form' = [form EXCEPT !.filled = filled] /\ filled \subseteq Fields
  BY <1>0 DEF UpdateField, FormRow
<1>2. /\ form' \in FormRow /\ form'.page = "form" /\ form'.kind = form.kind /\ form'.step = form.step
      /\ form'.filled = filled /\ form'.status = form.status /\ form'.mount = form.mount
  <2> HIDE DEF filled
  <2>. QED
    BY <1>0, <1>1 DEF FormRow
<1>3. /\ form.step > 1 => "text" \in filled
      /\ form.step > StepOf(form.kind, "category") => "category" \in filled
  <2>1. form.step > 1 => "text" \in form.filled /\ field # "text"
    BY <1>0 DEF ReportInv, FormInv, StepOf
  <2>2. form.step > StepOf(form.kind, "category") => "category" \in form.filled /\ field # "category"
    <3>1. form.step \in Nat
      BY <1>0 DEF FormRow
    <3>2. form.kind \in Kinds
      BY <1>0 DEF FormRow
    <3>. QED
      BY <1>0, <3>1, <3>2 DEF ReportInv, FormInv, StepOf
  <2>. QED
    BY <2>1, <2>2
<1>4. FormInv'
  <2> HIDE DEF filled
  <2>. QED
    BY <1>0, <1>2, <1>3 DEF ReportInv, FormInv, UpdateField
<1>5. form.mount \in Nat
  BY <1>0, ReportFlowAssumption DEF FormRow
<1>. QED
  BY <1>2, <1>4, <1>5, FormChanges DEF UpdateField

\* NextStep keeps the invariant.
LEMMA NextStepInv ==
    ASSUME ReportInv, NextStep
    PROVE  ReportInv'
<1>0. /\ form \in FormRow /\ form.step \in 1..TotalSteps(form.kind) /\ form.page = "form"
      /\ form.step < TotalSteps(form.kind) /\ CanGoNext(form) /\ form.kind \in Kinds
  BY DEF ReportInv, FormInv, FormRow, NextStep
<1>1. /\ form' \in FormRow /\ form'.page = "form" /\ form'.kind = form.kind /\ form'.step = form.step + 1
      /\ form'.filled = form.filled /\ form'.status = form.status /\ form'.mount = form.mount
  BY <1>0 DEF FormRow, NextStep
<1>2. form.step + 1 \in 1..TotalSteps(form.kind)
  BY <1>0 DEF TotalSteps, Kinds
<1>3. "text" \in form.filled
  BY <1>0 DEF ReportInv, FormInv, CanGoNext
<1>4. form.step + 1 > StepOf(form.kind, "category") => "category" \in form.filled
  <2>1. StepOf(form.kind, "category") \in {1, 2}
    BY DEF StepOf
  <2>2. form.step + 1 > StepOf(form.kind, "category") =>
           form.step > StepOf(form.kind, "category") \/ form.step = StepOf(form.kind, "category")
    BY <1>0, <2>1 DEF FormRow
  <2>. QED
    BY <1>0, <2>2 DEF ReportInv, FormInv, CanGoNext
<1>5. FormInv'
  BY <1>0, <1>1, <1>2, <1>3, <1>4 DEF ReportInv, FormInv, NextStep
<1>6. form.mount \in Nat
  BY <1>0, ReportFlowAssumption DEF FormRow
<1>. QED
  BY <1>1, <1>5, <1>6, FormChanges DEF NextStep

\* PreviousStep keeps the invariant.
LEMMA PreviousStepInv ==
    ASSUME ReportInv, PreviousStep
    PROVE  ReportInv'
<1>0. /\ form \in FormRow /\ form.step \in 1..TotalSteps(form.kind) /\ form.page = "form"
      /\ form.step > 1 /\ form.kind \in Kinds
  BY DEF ReportInv, FormInv, FormRow, PreviousStep, HasPrevious
<1>1. form.step - 1 \in 1..TotalSteps(form.kind) /\ form.step - 1 \in Nat
  BY <1>0 DEF TotalSteps, Kinds
<1>2. /\ form' \in FormRow /\ form'.page = "form" /\ form'.kind = form.kind /\ form'.step = form.step - 1
      /\ form'.filled = form.filled /\ form'.status = form.status /\ form'.mount = form.mount
  BY <1>0, <1>1 DEF FormRow, PreviousStep
<1>3. "text" \in form.filled /\ (form.step - 1 > StepOf(form.kind, "category") => "category" \in form.filled)
  <2>1. StepOf(form.kind, "category") \in {1, 2}
    BY DEF StepOf
  <2>. QED
    BY <1>0, <2>1 DEF ReportInv, FormInv, FormRow
<1>4. FormInv'
  BY <1>0, <1>1, <1>2, <1>3 DEF ReportInv, FormInv, PreviousStep
<1>5. form.mount \in Nat
  BY <1>0, ReportFlowAssumption DEF FormRow
<1>. QED
  BY <1>2, <1>4, <1>5, FormChanges DEF PreviousStep

\* Publish keeps the invariant.
LEMMA PublishInv ==
    ASSUME ReportInv, NEW s \in Submissions, Publish(s)
    PROVE  ReportInv'
<1> DEFINE row == [pc |-> "create", mount |-> form.mount, kind |-> form.kind, filled |-> form.filled,
                   item |-> 0, told |-> FALSE]
<1>0. /\ form \in FormRow /\ form.step \in 1..TotalSteps(form.kind) /\ form.page = "form"
      /\ form.step = TotalSteps(form.kind) /\ form.status # "pending" /\ form.kind \in Kinds
      /\ form.mount \in 1..form.mount /\ form.mount \in 0..MaxMounts /\ form.filled \in SUBSET Fields
  BY ReportFlowAssumption DEF ReportInv, FormInv, FormRow, Publish, CanPublish
<1>1. {"text", "category"} \subseteq form.filled
  <2>1. form.step > 1 /\ form.step > StepOf(form.kind, "category")
    BY <1>0 DEF TotalSteps, StepOf
  <2>. QED
    BY <1>0, <2>1 DEF ReportInv, FormInv
<1>2. /\ submission \in [Submissions -> SubmissionRow] /\ submission[s].pc = "none"
      /\ submission' = [submission EXCEPT ![s] = row]
  BY DEF ReportInv, SubmissionsInv, Publish, NoSubmission
<1>3. /\ row \in SubmissionRow /\ row.item = 0 /\ row.pc = "create" /\ row.mount = form.mount /\ row.filled = form.filled
  BY <1>0 DEF SubmissionRow
<1>4. /\ form' \in FormRow /\ form'.page = "form" /\ form'.kind = form.kind /\ form'.step = form.step
      /\ form'.filled = form.filled /\ form'.status = "pending" /\ form'.mount = form.mount
  BY <1>0 DEF FormRow, Publish
<1>5. UNCHANGED <<items, upload, objects, images, scoring, reader, errors, cut>>
  BY DEF Publish
<1>6. FormInv'
  BY <1>0, <1>4, <1>5 DEF ReportInv, FormInv
<1>7. /\ form.mount \in errors \/ \A r \in Submissions : submission[r].pc # "none" => submission[r].mount # form.mount
      /\ form.mount \in errors \/ \A i \in 1..Len(items) : items[i].mount # form.mount
  <2>1. form.status \in {"idle", "error"}
    BY <1>0 DEF FormRow
  <2>. QED
    BY <1>0, <2>1 DEF ReportInv, FormInv
<1>8. SubmissionsInv'
  <2> HIDE DEF row
  <2>1. /\ submission' \in [Submissions -> SubmissionRow] /\ submission'[s] = row
        /\ \A r \in Submissions : r # s => submission'[r] = submission[r]
    BY <1>2, <1>3
  <2>2. 0 \in 0..Len(items)
    BY LenProperties DEF ReportInv, ItemsInv
  <2>3. \A r \in Submissions : r # s =>
          /\ submission[r].item \in 0..Len(items)
          /\ submission[r].pc \in {"enqueue", "upload", "uploading"} => submission[r].item \in 1..Len(items)
          /\ submission[r].pc # "none" => submission[r].mount \in 1..form.mount
          /\ submission[r].pc = "create" => {"text", "category"} \subseteq submission[r].filled
          /\ submission[r].pc = "create" =>
                \A i \in 1..Len(items) : items[i].mount = submission[r].mount => submission[r].mount \in errors
    BY DEF ReportInv, SubmissionsInv
  <2>4. \A r \in Submissions :
          /\ submission'[r].item \in 0..Len(items)
          /\ submission'[r].pc \in {"enqueue", "upload", "uploading"} => submission'[r].item \in 1..Len(items)
          /\ submission'[r].pc # "none" => submission'[r].mount \in 1..form.mount
          /\ submission'[r].pc = "create" => {"text", "category"} \subseteq submission'[r].filled
          /\ submission'[r].pc = "create" =>
                \A i \in 1..Len(items) : items[i].mount = submission'[r].mount => submission'[r].mount \in errors
    BY <1>0, <1>1, <1>3, <1>7, <2>1, <2>2, <2>3
  <2>5. \A q, r \in Submissions :
          q # r /\ submission'[q].pc # "none" /\ submission'[r].pc # "none" /\ submission'[q].mount = submission'[r].mount
              => submission'[r].mount \in errors
    BY <1>3, <1>7, <2>1 DEF ReportInv, SubmissionsInv
  <2>. QED
    BY <1>4, <1>5, <2>1, <2>4, <2>5 DEF SubmissionsInv
<1>9. ItemsInv'
  BY <1>4, <1>5 DEF ReportInv, ItemsInv, PublishedIsDescribed, DuplicateFollowsAnError
<1>10. ObjectsInv' /\ CountInv' /\ ReaderInv' /\ UploadItemsInv'
  <2>1. scoring' \subseteq [item: 1..MaxItems, image: 0..MaxObjects]
    BY <1>5 DEF ReportInv, ObjectsInv
  <2>. QED
    BY <1>5, <2>1, UploadsStay, ReaderStays DEF ReportInv, UploadItemsInv
<1>. QED
  BY <1>6, <1>8, <1>9, <1>10 DEF ReportInv

-----------------------------------------------------------------------------
(* Items *)

\* What a new row does to the table.
LEMMA ItemsGrow ==
    ASSUME ItemsInv, Len(items) < MaxItems, NEW row \in ReportedRow, items' = Append(items, row)
    PROVE  /\ items' \in Seq(ReportedRow) /\ Len(items) \in Nat /\ Len(items') = Len(items) + 1
           /\ Len(items') \in 0..MaxItems /\ Len(items) + 1 \in 1..MaxItems
           /\ items'[Len(items) + 1] = row
           /\ \A i \in 1..Len(items) : i # Len(items) + 1 /\ items'[i] = items[i] /\ i \in 1..Len(items')
           /\ \A i \in 1..Len(items') : i \in 1..Len(items) \/ i = Len(items) + 1
<1>1. Len(items) \in Nat /\ items \in Seq(ReportedRow) /\ MaxItems \in Nat
  BY ReportFlowAssumption, LenProperties DEF ItemsInv
<1>2. items' \in Seq(ReportedRow) /\ Len(items') = Len(items) + 1 /\ items'[Len(items) + 1] = row
      /\ \A i \in 1..Len(items) : items'[i] = items[i]
  BY <1>1, AppendProperties
<1>. QED
  BY <1>1, <1>2

\* A new row takes nothing from the reader and nothing from the uploads.
LEMMA ReaderSeesItemsGrow ==
    ASSUME ItemsInv, ReaderInv, UploadItemsInv, Len(items) < MaxItems,
           NEW row \in ReportedRow, items' = Append(items, row), UNCHANGED <<reader, upload>>
    PROVE  ReaderInv' /\ UploadItemsInv'
<1>0. /\ items' \in Seq(ReportedRow) /\ Len(items') \in Nat
      /\ \A i \in 1..Len(items) : items'[i] = items[i] /\ i \in 1..Len(items')
  BY ItemsGrow, LenProperties
<1>1. OfKind("LOST") \subseteq OfKind("LOST")'
  BY <1>0 DEF OfKind
<1>2. ASSUME NEW i \in reader.due
      PROVE  /\ Cardinality(Newer("LOST", i)) \in Nat /\ Cardinality(Newer("LOST", i)') \in Nat
             /\ Cardinality(Newer("LOST", i)) <= Cardinality(Newer("LOST", i)')
  <2>1. Newer("LOST", i) \subseteq Newer("LOST", i)'
    BY <1>1 DEF Newer
  <2>2. IsFiniteSet(Newer("LOST", i)')
    <3>1. IsFiniteSet(1..Len(items'))
      BY <1>0, FS_Interval
    <3>2. Newer("LOST", i)' \subseteq 1..Len(items')
      BY DEF Newer, OfKind
    <3>. QED
      BY <3>1, <3>2, FS_Subset
  <2>. QED
    BY <2>1, <2>2, FS_Subset, FS_CardinalityType
<1>3. ASSUME NEW i \in reader.due, i \notin reader.seen
      PROVE  reader.page * PageSize <= Cardinality(Newer("LOST", i)')
  <2>1. reader.page * PageSize <= Cardinality(Newer("LOST", i)) /\ reader.page * PageSize \in Nat
    BY <1>3, ReportFlowAssumption DEF ReaderInv
  <2>. QED
    BY <1>2, <2>1
<1>4. ReaderInv'
  BY <1>1, <1>3 DEF ReaderInv
<1>5. UploadItemsInv'
  BY <1>0 DEF UploadItemsInv
<1>. QED
  BY <1>4, <1>5

\* CreateItem keeps the invariant.
LEMMA CreateItemInv ==
    ASSUME ReportInv, NEW s \in Submissions, CreateItem(s)
    PROVE  ReportInv'
<1> DEFINE new == [kind |-> submission[s].kind, described |-> submission[s].filled \cap {"text", "category"},
                   mount |-> submission[s].mount]
           row == [submission[s] EXCEPT !.pc = "enqueue", !.item = Len(items) + 1,
                                        !.filled = submission[s].filled \cap {"photo"}]
<1>0. /\ submission[s] \in SubmissionRow /\ submission[s].pc = "create" /\ Len(items) < MaxItems
      /\ submission[s].mount \in 1..form.mount /\ submission[s].kind \in Kinds
      /\ submission[s].mount \in 0..MaxMounts /\ {"text", "category"} \subseteq submission[s].filled
      /\ submission[s].filled \in SUBSET Fields
  BY DEF ReportInv, SubmissionsInv, SubmissionRow, CreateItem
<1>1. /\ items' = Append(items, new) /\ submission' = [submission EXCEPT ![s] = row]
      /\ UNCHANGED <<form, upload, objects, images, scoring, reader, errors, cut>>
  BY DEF CreateItem
<1>2. /\ new \in ReportedRow /\ new.mount = submission[s].mount /\ new.mount # 0
      /\ {"text", "category"} \subseteq new.described
  BY <1>0 DEF ReportedRow
<1>3. /\ items' \in Seq(ReportedRow) /\ Len(items) \in Nat /\ Len(items') = Len(items) + 1
      /\ Len(items') \in 0..MaxItems /\ Len(items) + 1 \in 1..MaxItems
      /\ items'[Len(items) + 1] = new
      /\ \A i \in 1..Len(items) : i # Len(items) + 1 /\ items'[i] = items[i] /\ i \in 1..Len(items')
      /\ \A i \in 1..Len(items') : i \in 1..Len(items) \/ i = Len(items) + 1
  <2> HIDE DEF new
  <2>. QED
    BY <1>0, <1>1, <1>2, ItemsGrow DEF ReportInv
<1>4. /\ row \in SubmissionRow /\ row.pc = "enqueue" /\ row.item = Len(items) + 1
      /\ row.mount = submission[s].mount
  <2>1. submission[s].filled \cap {"photo"} \in SUBSET Fields /\ Len(items) + 1 \in Nat
    BY <1>0, <1>3
  <2> HIDE DEF Fields
  <2>. QED
    BY <1>0, <2>1 DEF SubmissionRow
<1>. HIDE DEF new, row
<1>5. /\ submission' \in [Submissions -> SubmissionRow] /\ submission'[s] = row
      /\ \A r \in Submissions : r # s => submission'[r] = submission[r]
  BY <1>1, <1>4 DEF ReportInv, SubmissionsInv
<1>6. \A r \in Submissions : submission'[r].pc # "none" =>
         submission[r].pc # "none" /\ submission'[r].mount = submission[r].mount
  BY <1>0, <1>4, <1>5
<1>7. FormInv'
  <2>1. ASSUME form.page = "form", form.status = "idle"
        PROVE  /\ \A r \in Submissions : submission'[r].pc # "none" => submission'[r].mount # form.mount
               /\ \A i \in 1..Len(items') : items'[i].mount # form.mount
    <3>1. \A r \in Submissions : submission[r].pc # "none" => submission[r].mount # form.mount
      BY <2>1 DEF ReportInv, FormInv
    <3>2. \A i \in 1..Len(items) : items[i].mount # form.mount
      BY <2>1 DEF ReportInv, FormInv
    <3>. QED
      BY <1>0, <1>2, <1>3, <1>6, <3>1, <3>2
  <2>. QED
    BY <1>1, <2>1 DEF ReportInv, FormInv
<1>8. SubmissionsInv'
  <2>1. \A r \in Submissions : r # s =>
          /\ submission[r].item \in 0..Len(items)
          /\ submission[r].pc \in {"enqueue", "upload", "uploading"} => submission[r].item \in 1..Len(items)
          /\ submission[r].pc = "create" => {"text", "category"} \subseteq submission[r].filled
          /\ submission[r].pc = "create" =>
                \A i \in 1..Len(items) : items[i].mount = submission[r].mount => submission[r].mount \in errors
          /\ submission[r].pc # "none" /\ submission[r].mount = submission[s].mount => submission[r].mount \in errors
    BY <1>0 DEF ReportInv, SubmissionsInv
  <2>2. \A r \in Submissions :
          /\ submission'[r].item \in 0..Len(items')
          /\ submission'[r].pc \in {"enqueue", "upload", "uploading"} => submission'[r].item \in 1..Len(items')
    BY <1>3, <1>4, <1>5, <2>1
  <2>3. \A r \in Submissions : submission'[r].pc # "none" => submission'[r].mount \in 1..form.mount
    BY <1>6 DEF ReportInv, SubmissionsInv
  <2>4. ASSUME NEW r \in Submissions, submission'[r].pc = "create"
        PROVE  /\ {"text", "category"} \subseteq submission'[r].filled
               /\ \A i \in 1..Len(items') : items'[i].mount = submission'[r].mount => submission'[r].mount \in errors
    <3>1. r # s /\ submission'[r] = submission[r] /\ submission[r].pc = "create"
      BY <1>4, <1>5, <2>4
    <3>2. ASSUME NEW i \in 1..Len(items'), items'[i].mount = submission[r].mount
          PROVE  submission[r].mount \in errors
      <4>1. CASE i \in 1..Len(items)
        BY <1>3, <2>1, <3>1, <3>2, <4>1
      <4>2. CASE i = Len(items) + 1
        BY <1>2, <1>3, <2>1, <3>1, <3>2, <4>2
      <4>. QED
        BY <1>3, <4>1, <4>2
    <3>. QED
      BY <2>1, <3>1, <3>2
  <2>5. \A q, r \in Submissions :
          q # r /\ submission'[q].pc # "none" /\ submission'[r].pc # "none" /\ submission'[q].mount = submission'[r].mount
              => submission'[r].mount \in errors
    BY <1>6 DEF ReportInv, SubmissionsInv
  <2>. QED
    BY <1>1, <1>5, <2>2, <2>3, <2>4, <2>5 DEF SubmissionsInv
<1>9. ItemsInv'
  <2>1. \A i \in 1..Len(items') : items'[i].mount <= form.mount
    BY <1>0, <1>2, <1>3 DEF ReportInv, ItemsInv
  <2>2. PublishedIsDescribed'
    BY <1>2, <1>3 DEF ReportInv, ItemsInv, PublishedIsDescribed
  <2>3. \A i \in 1..Len(items) : items[i].mount = submission[s].mount => submission[s].mount \in errors
    BY <1>0 DEF ReportInv, SubmissionsInv
  <2>4. DuplicateFollowsAnError'
    <3> SUFFICES ASSUME NEW i \in 1..Len(items'), NEW j \in 1..Len(items'), i # j, items'[i].mount = items'[j].mount,
                        items'[i].mount > 0
                 PROVE  items'[i].mount \in errors
      BY <1>1 DEF DuplicateFollowsAnError
    <3>1. CASE i \in 1..Len(items) /\ j \in 1..Len(items)
      BY <1>3, <3>1 DEF ReportInv, ItemsInv, DuplicateFollowsAnError
    <3>2. CASE i = Len(items) + 1 /\ j \in 1..Len(items)
      BY <1>2, <1>3, <2>3, <3>2
    <3>3. CASE i \in 1..Len(items) /\ j = Len(items) + 1
      BY <1>2, <1>3, <2>3, <3>3
    <3>. QED
      BY <1>3, <3>1, <3>2, <3>3
  <2>. QED
    BY <1>1, <1>3, <2>1, <2>2, <2>4 DEF ItemsInv
<1>10. ReaderInv' /\ UploadItemsInv'
  BY <1>0, <1>1, <1>2, ReaderSeesItemsGrow DEF ReportInv
<1>11. ObjectsInv' /\ CountInv'
  <2>1. scoring' \subseteq [item: 1..MaxItems, image: 0..MaxObjects]
    BY <1>1 DEF ReportInv, ObjectsInv
  <2>. QED
    BY <1>1, <2>1, UploadsStay DEF ReportInv
<1>. QED
  BY <1>7, <1>8, <1>9, <1>10, <1>11 DEF ReportInv

\* PostItem keeps the invariant.
LEMMA PostItemInv ==
    ASSUME ReportInv, NEW kind \in Kinds, PostItem(kind)
    PROVE  ReportInv'
<1> DEFINE new == [kind |-> kind, described |-> {"text"}, mount |-> 0]
<1>1. /\ Len(items) < MaxItems /\ items' = Append(items, new)
      /\ scoring' = scoring \cup {[item |-> Len(items) + 1, image |-> 0]}
      /\ UNCHANGED <<form, submission, upload, objects, images, reader, errors, cut>>
  BY DEF PostItem
<1>2. new \in ReportedRow /\ new.mount = 0
  BY ReportFlowAssumption DEF ReportedRow
<1>. HIDE DEF new
<1>3. /\ items' \in Seq(ReportedRow) /\ Len(items) \in Nat /\ Len(items') = Len(items) + 1
      /\ Len(items') \in 0..MaxItems /\ Len(items) + 1 \in 1..MaxItems
      /\ items'[Len(items) + 1] = new
      /\ \A i \in 1..Len(items) : i # Len(items) + 1 /\ items'[i] = items[i] /\ i \in 1..Len(items')
      /\ \A i \in 1..Len(items') : i \in 1..Len(items) \/ i = Len(items) + 1
  BY <1>1, <1>2, ItemsGrow DEF ReportInv
<1>4. FormInv'
  <2>1. form.page = "form" /\ form.status = "idle" => \A i \in 1..Len(items') : items'[i].mount # form.mount
    <3>1. form.page = "form" => form.mount # 0
      BY DEF ReportInv, FormInv
    <3>. QED
      BY <1>2, <1>3, <3>1 DEF ReportInv, FormInv
  <2>. QED
    BY <1>1, <2>1 DEF ReportInv, FormInv
<1>5. SubmissionsInv'
  <2>1. \A r \in Submissions :
          /\ submission[r].item \in 0..Len(items')
          /\ submission[r].pc \in {"enqueue", "upload", "uploading"} => submission[r].item \in 1..Len(items')
    BY <1>3 DEF ReportInv, SubmissionsInv
  <2>2. ASSUME NEW r \in Submissions, submission[r].pc = "create", NEW i \in 1..Len(items'),
               items'[i].mount = submission[r].mount
        PROVE  submission[r].mount \in errors
    <3>1. submission[r].mount # 0
      BY <2>2 DEF ReportInv, SubmissionsInv
    <3>2. i \in 1..Len(items) /\ items[i].mount = submission[r].mount
      BY <1>2, <1>3, <2>2, <3>1
    <3>. QED
      BY <2>2, <3>2 DEF ReportInv, SubmissionsInv
  <2>. QED
    BY <1>1, <2>1, <2>2 DEF ReportInv, SubmissionsInv
<1>6. ItemsInv'
  <2>1. form.mount \in Nat
    BY ReportFlowAssumption DEF ReportInv, FormInv, FormRow
  <2>2. \A i \in 1..Len(items') : items'[i].mount <= form.mount
    BY <1>2, <1>3, <2>1 DEF ReportInv, ItemsInv
  <2>3. PublishedIsDescribed'
    BY <1>2, <1>3 DEF ReportInv, ItemsInv, PublishedIsDescribed
  <2>4. DuplicateFollowsAnError'
    <3> SUFFICES ASSUME NEW i \in 1..Len(items'), NEW j \in 1..Len(items'), i # j, items'[i].mount = items'[j].mount,
                        items'[i].mount > 0
                 PROVE  items'[i].mount \in errors
      BY <1>1 DEF DuplicateFollowsAnError
    <3>1. i \in 1..Len(items) /\ j \in 1..Len(items)
      BY <1>2, <1>3
    <3>. QED
      BY <1>3, <3>1 DEF ReportInv, ItemsInv, DuplicateFollowsAnError
  <2>. QED
    BY <1>1, <1>3, <2>2, <2>3, <2>4 DEF ItemsInv
<1>7. ReaderInv' /\ UploadItemsInv'
  BY <1>1, <1>2, ReaderSeesItemsGrow DEF ReportInv
<1>8. ObjectsInv' /\ CountInv'
  <2>1. scoring \subseteq scoring' /\ scoring' \subseteq [item: 1..MaxItems, image: 0..MaxObjects]
    BY <1>1, <1>3, ReportFlowAssumption DEF ReportInv, ObjectsInv
  <2>. QED
    BY <1>1, <2>1, UploadsStay DEF ReportInv
<1>. QED
  BY <1>4, <1>5, <1>6, <1>7, <1>8 DEF ReportInv

-----------------------------------------------------------------------------
(* Uploads *)

\* An upload that is let in finds room for its image beside every upload that was let in before.
LEMMA UploadStarts ==
    ASSUME ObjectsInv, CountInv, UploadItemsInv, NEW u \in Uploads, NEW i \in 1..Len(items), i \in 1..MaxItems,
           upload[u] = NoUpload, RoomForImage(i),
           upload' = [upload EXCEPT ![u] = [pc |-> "put", item |-> i, object |-> 0]],
           UNCHANGED <<items, objects, images, scoring, cut>>
    PROVE  ObjectsInv' /\ CountInv' /\ UploadItemsInv'
<1> DEFINE row == [pc |-> "put", item |-> i, object |-> 0]
<1>0. MaxImages \in Nat \ {0} /\ MaxObjects \in Nat /\ MaxItems \in Nat
  BY ReportFlowAssumption
<1>1. row \in UploadRow /\ row.pc = "put" /\ row.item = i /\ row.object = 0
  BY <1>0 DEF UploadRow
<1>2. upload[u].pc = "none" /\ upload[u].object = 0
  BY DEF NoUpload
<1>. HIDE DEF row
<1>3. /\ upload' \in [Uploads -> UploadRow] /\ upload'[u] = row
      /\ \A v \in Uploads : v # u => upload'[v] = upload[v]
  BY <1>1 DEF ObjectsInv, row
<1>4. \A v \in Uploads : upload'[v].object = upload[v].object
  BY <1>1, <1>2, <1>3
<1>5. ObjectsInv'
  <2>1. \A v \in Uploads :
          /\ upload'[v].pc \in {"none", "put"} => upload'[v].object = 0
          /\ upload'[v].pc \in {"row", "rescore"} => upload'[v].object \in objects
    BY <1>1, <1>3 DEF ObjectsInv
  <2>2. \A v, w \in Uploads : v # w /\ upload'[v].object # 0 => upload'[v].object # upload'[w].object
    BY <1>4 DEF ObjectsInv
  <2>3. \A v \in Uploads, m \in images :
           upload'[v].object = m.object => upload'[v].pc = "rescore" /\ m.item = upload'[v].item
    BY <1>1, <1>2, <1>3 DEF ObjectsInv
  <2>4. ImageHasItsObject' /\ ImageIsScored'
    BY <1>4 DEF ObjectsInv, ImageHasItsObject, ImageIsScored
  <2>. QED
    BY <1>3, <2>1, <2>2, <2>3, <2>4 DEF ObjectsInv
<1>6. ASSUME NEW j \in 1..MaxItems
      PROVE  Cardinality(ImagesOf(j)') + Cardinality(Uploading(j)') <= MaxImages + Cardinality(Uploads) - 1
  <2>1. ImagesOf(j)' = ImagesOf(j)
    BY DEF ImagesOf
  <2>2. CASE j = i
    <3>1. ImagesOf(i) \subseteq images
      BY DEF ImagesOf
    <3>2. Cardinality(ImagesOf(i)) \in Nat /\ Cardinality(ImagesOf(i)) <= MaxImages - 1
      BY <1>0, <3>1, FS_Subset, FS_CardinalityType DEF RoomForImage, CountInv
    <3>3. Uploading(i)' \in SUBSET Uploads /\ Uploads \in SUBSET Uploads
      BY DEF Uploading
    <3>4. /\ Cardinality(Uploading(i)') \in Nat /\ Cardinality(Uploads) \in Nat
          /\ Cardinality(Uploading(i)') <= Cardinality(Uploads)
      BY <3>3, UploadsAreCounted
    <3>. QED
      BY <1>0, <2>1, <2>2, <3>2, <3>4
  <2>3. CASE j # i
    <3>1. Uploading(j)' = Uploading(j)
      BY <1>1, <1>2, <1>3, <2>3 DEF Uploading
    <3>. QED
      BY <2>1, <3>1 DEF CountInv
  <2>. QED
    BY <2>2, <2>3
<1>7. CountInv'
  BY <1>6 DEF CountInv
<1>8. UploadItemsInv'
  BY <1>1, <1>3 DEF UploadItemsInv
<1>. QED
  BY <1>5, <1>7, <1>8

\* StartUpload keeps the invariant.
LEMMA StartUploadInv ==
    ASSUME ReportInv, NEW u \in Uploads, NEW i \in 1..MaxItems, StartUpload(u, i)
    PROVE  ReportInv'
<1>1. ObjectsInv' /\ CountInv' /\ UploadItemsInv'
  BY UploadStarts DEF StartUpload, ReportInv
<1>2. ReaderInv'
  BY ReaderStays DEF StartUpload, ReportInv
<1>3. FormInv' /\ SubmissionsInv' /\ ItemsInv'
  BY DEF StartUpload, ReportInv, FormInv, SubmissionsInv, ItemsInv, PublishedIsDescribed, DuplicateFollowsAnError
<1>. QED
  BY <1>1, <1>2, <1>3 DEF ReportInv

\* UploadPhoto keeps the invariant.
LEMMA UploadPhotoInv ==
    ASSUME ReportInv, NEW s \in Submissions, NEW u \in Uploads, UploadPhoto(s, u)
    PROVE  ReportInv'
<1> DEFINE row == [submission[s] EXCEPT !.pc = "uploading"]
<1>0. /\ submission[s] \in SubmissionRow /\ submission[s].pc = "upload"
      /\ submission[s].item \in 1..Len(items) /\ submission[s].item \in 0..Len(items) /\ submission[s].item \in 1..MaxItems
  BY ReportFlowAssumption DEF ReportInv, SubmissionsInv, ItemsInv, UploadPhoto
<1>1. ObjectsInv' /\ CountInv' /\ UploadItemsInv'
  BY <1>0, UploadStarts DEF UploadPhoto, ReportInv
<1>2. /\ row \in SubmissionRow /\ row.item = submission[s].item /\ row.pc = "uploading"
      /\ row.mount = submission[s].mount
  BY <1>0 DEF SubmissionRow
<1>3. submission' = [submission EXCEPT ![s] = row]
  BY DEF UploadPhoto
<1>4. FormInv' /\ SubmissionsInv' /\ ItemsInv'
  <2>1. UNCHANGED items /\ form' = form /\ errors \subseteq errors'
    BY DEF UploadPhoto
  <2> HIDE DEF row
  <2>. QED
    BY <1>0, <1>2, <1>3, <2>1, FormGoesOn DEF ReportInv
<1>5. ReaderInv'
  BY ReaderStays DEF UploadPhoto, ReportInv
<1>. QED
  BY <1>1, <1>4, <1>5 DEF ReportInv

\* Keys are taken in order: the next one is new to the bucket, the rows and the uploads.
LEMMA PutObjectInv ==
    ASSUME ReportInv, NEW u \in Uploads, PutObject(u)
    PROVE  ReportInv'
<1> DEFINE used == objects \cup {m.object : m \in images} \cup {upload[v].object : v \in Uploads}
           k == Cardinality(used \ {0}) + 1
<1>0. /\ upload \in [Uploads -> UploadRow] /\ upload[u].pc = "put"
      /\ MaxObjects \in Nat /\ MaxItems \in Nat /\ MaxImages \in Nat \ {0}
  BY ReportFlowAssumption DEF ReportInv, ObjectsInv, PutObject
<1>1. PICK n \in 0..MaxObjects : objects = 1..n
  BY DEF ReportInv, ObjectsInv
<1>2. used \ {0} = 1..n
  <2>1. \A v \in Uploads : upload[v].object = 0 \/ upload[v].object \in objects
    BY DEF ReportInv, ObjectsInv, UploadRow
  <2>2. \A m \in images : m.object \in objects
    BY DEF ReportInv, ObjectsInv, ImageHasItsObject
  <2>3. 0 \notin objects /\ objects \subseteq used
    BY <1>1
  <2>. QED
    BY <1>1, <2>1, <2>2, <2>3
<1>3. Cardinality(1..n) = n
  <2>1. n \in Nat /\ n \in Int /\ 1 \in Int
    BY <1>0, <1>1
  <2>2. Cardinality(1..n) = IF 1 > n THEN 0 ELSE n - 1 + 1
    BY <2>1, FS_Interval
  <2>. QED
    BY <2>1, <2>2
<1>. HIDE DEF used
<1>4. k = n + 1 /\ n \in Nat
  <2>1. Cardinality(used \ {0}) = n
    BY <1>2, <1>3
  <2>. QED
    BY <1>0, <1>1, <2>1
<1>5. /\ k <= MaxObjects /\ objects' = objects \cup {k}
      /\ upload' = [upload EXCEPT ![u].pc = "row", ![u].object = k]
      /\ UNCHANGED <<form, submission, items, images, scoring, reader, errors, cut>>
  BY DEF PutObject, StoreObject, used
<1>. HIDE DEF k
<1>6. /\ k \in 0..MaxObjects /\ k # 0 /\ k \notin objects /\ objects' = 1..k
  BY <1>0, <1>1, <1>4, <1>5
<1> DEFINE row == [upload[u] EXCEPT !.pc = "row", !.object = k]
<1>7. row \in UploadRow /\ row.pc = "row" /\ row.item = upload[u].item /\ row.object = k
  BY <1>0, <1>6 DEF UploadRow
<1>8. upload' = [upload EXCEPT ![u] = row]
  BY <1>5
<1>. HIDE DEF row
<1>9. /\ upload' \in [Uploads -> UploadRow] /\ upload'[u] = row
      /\ \A v \in Uploads : v # u => upload'[v] = upload[v]
  BY <1>0, <1>7, <1>8
<1>10. /\ \A v \in Uploads : upload[v].object # k
       /\ \A m \in images : m.object # k /\ m.object \in objects
       /\ upload[u].object = 0
  <2>1. \A v \in Uploads : upload[v].object = 0 \/ upload[v].object \in objects
    BY DEF ReportInv, ObjectsInv, UploadRow
  <2>2. \A m \in images : m.object \in objects
    BY DEF ReportInv, ObjectsInv, ImageHasItsObject
  <2>3. upload[u].object = 0
    BY <1>0 DEF ReportInv, ObjectsInv
  <2>. QED
    BY <1>6, <2>1, <2>2, <2>3
<1>11. ObjectsInv'
  <2>1. \A v \in Uploads :
          /\ upload'[v].pc \in {"none", "put"} => upload'[v].object = 0
          /\ upload'[v].pc \in {"row", "rescore"} => upload'[v].object \in objects'
    BY <1>5, <1>7, <1>9 DEF ReportInv, ObjectsInv
  <2>2. \A v, w \in Uploads : v # w /\ upload'[v].object # 0 => upload'[v].object # upload'[w].object
    BY <1>7, <1>9, <1>10 DEF ReportInv, ObjectsInv
  <2>3. \A v \in Uploads, m \in images :
           upload'[v].object = m.object => upload'[v].pc = "rescore" /\ m.item = upload'[v].item
    BY <1>7, <1>9, <1>10 DEF ReportInv, ObjectsInv
  <2>4. ImageHasItsObject'
    BY <1>5, <1>10 DEF ImageHasItsObject
  <2>5. ImageIsScored'
    <3> SUFFICES ASSUME NEW m \in images
                 PROVE  \/ [item |-> m.item, image |-> m.object] \in scoring
                        \/ m.object \in cut
                        \/ \E v \in Uploads : upload'[v].object = m.object
      BY <1>5 DEF ImageIsScored
    <3>1. \/ [item |-> m.item, image |-> m.object] \in scoring
          \/ m.object \in cut
          \/ \E v \in Uploads : upload[v].object = m.object
      BY DEF ReportInv, ObjectsInv, ImageIsScored
    <3>2. m.object # 0
      BY <1>1, <1>10
    <3>. QED
      BY <1>9, <1>10, <3>1, <3>2
  <2>. QED
    BY <1>5, <1>6, <1>9, <2>1, <2>2, <2>3, <2>4, <2>5 DEF ReportInv, ObjectsInv
<1>12. CountInv'
  <2>1. \A j : ImagesOf(j)' = ImagesOf(j) /\ Uploading(j)' = Uploading(j)
    BY <1>0, <1>5, <1>7, <1>9 DEF ImagesOf, Uploading
  <2>. QED
    BY <1>5, <2>1 DEF ReportInv, CountInv
<1>13. UploadItemsInv'
  BY <1>0, <1>5, <1>7, <1>9 DEF ReportInv, UploadItemsInv
<1>14. ReaderInv'
  BY <1>5, ReaderStays DEF ReportInv
<1>15. FormInv' /\ SubmissionsInv' /\ ItemsInv'
  BY <1>5 DEF ReportInv, FormInv, SubmissionsInv, ItemsInv, PublishedIsDescribed, DuplicateFollowsAnError
<1>. QED
  BY <1>11, <1>12, <1>13, <1>14, <1>15 DEF ReportInv

\* CreateImage keeps the invariant.
LEMMA CreateImageInv ==
    ASSUME ReportInv, NEW u \in Uploads, CreateImage(u)
    PROVE  ReportInv'
<1> DEFINE new == [item |-> upload[u].item, object |-> upload[u].object]
           row == [upload[u] EXCEPT !.pc = "rescore"]
<1>0. /\ upload \in [Uploads -> UploadRow] /\ upload[u] \in UploadRow /\ upload[u].pc = "row"
      /\ MaxObjects \in Nat /\ MaxItems \in Nat /\ MaxImages \in Nat \ {0}
  BY ReportFlowAssumption DEF ReportInv, ObjectsInv, CreateImage
<1>1. /\ images' = images \cup {new} /\ upload' = [upload EXCEPT ![u] = row]
      /\ UNCHANGED <<form, submission, items, objects, scoring, reader, errors, cut>>
  BY DEF CreateImage
<1>2. /\ row \in UploadRow /\ row.pc = "rescore" /\ row.item = upload[u].item /\ row.object = upload[u].object
      /\ new.item = upload[u].item /\ new.object = upload[u].object
  BY <1>0 DEF UploadRow
<1>3. /\ upload[u].object \in objects /\ upload[u].object # 0 /\ upload[u].object \in 1..MaxObjects
      /\ upload[u].item \in 1..MaxItems
  <2>1. upload[u].object \in objects
    BY <1>0 DEF ReportInv, ObjectsInv
  <2>2. PICK n \in 0..MaxObjects : objects = 1..n
    BY DEF ReportInv, ObjectsInv
  <2>3. upload[u].item \in 1..Len(items) /\ Len(items) \in 0..MaxItems
    BY <1>0 DEF ReportInv, UploadItemsInv, ItemsInv
  <2>. QED
    BY <1>0, <2>1, <2>2, <2>3
<1>4. new \in [item: 1..MaxItems, object: 1..MaxObjects]
  BY <1>3
<1>. HIDE DEF row, new
<1>5. /\ upload' \in [Uploads -> UploadRow] /\ upload'[u] = row
      /\ \A v \in Uploads : v # u => upload'[v] = upload[v]
      /\ \A v \in Uploads : upload'[v].object = upload[v].object /\ upload'[v].item = upload[v].item
  BY <1>0, <1>1, <1>2
<1>6. \A v \in Uploads : upload[v].object = upload[u].object => v = u
  BY <1>3 DEF ReportInv, ObjectsInv
<1>7. ObjectsInv'
  <2>1. \A v \in Uploads :
          /\ upload'[v].pc \in {"none", "put"} => upload'[v].object = 0
          /\ upload'[v].pc \in {"row", "rescore"} => upload'[v].object \in objects
    BY <1>2, <1>3, <1>5 DEF ReportInv, ObjectsInv
  <2>2. \A v, w \in Uploads : v # w /\ upload'[v].object # 0 => upload'[v].object # upload'[w].object
    BY <1>5 DEF ReportInv, ObjectsInv
  <2>3. ASSUME NEW v \in Uploads, NEW m \in images', upload'[v].object = m.object
        PROVE  upload'[v].pc = "rescore" /\ m.item = upload'[v].item
    <3>1. CASE m \in images
      <4>1. upload[v].pc = "rescore" /\ m.item = upload[v].item
        BY <1>5, <2>3, <3>1 DEF ReportInv, ObjectsInv
      <4>. QED
        BY <1>0, <1>5, <4>1
    <3>2. CASE m = new
      BY <1>2, <1>5, <1>6, <2>3, <3>2
    <3>. QED
      BY <1>1, <3>1, <3>2
  <2>4. ImageHasItsObject'
    BY <1>1, <1>2, <1>3 DEF ReportInv, ObjectsInv, ImageHasItsObject
  <2>5. ImageIsScored'
    <3> SUFFICES ASSUME NEW m \in images'
                 PROVE  \/ [item |-> m.item, image |-> m.object] \in scoring
                        \/ m.object \in cut
                        \/ \E v \in Uploads : upload[v].object = m.object
      BY <1>1, <1>5 DEF ImageIsScored
    <3>1. CASE m \in images
      BY <3>1 DEF ReportInv, ObjectsInv, ImageIsScored
    <3>2. CASE m = new
      BY <1>2, <3>2
    <3>. QED
      BY <1>1, <3>1, <3>2
  <2>6. images' \subseteq [item: 1..MaxItems, object: 1..MaxObjects]
    BY <1>1, <1>4 DEF ReportInv, ObjectsInv
  <2>. QED
    BY <1>1, <1>5, <2>1, <2>2, <2>3, <2>4, <2>5, <2>6 DEF ReportInv, ObjectsInv
<1>8. CountInv'
  <2>1. IsFiniteSet(images')
    BY <1>1, FS_AddElement DEF ReportInv, CountInv
  <2>2. ASSUME NEW j \in 1..MaxItems
        PROVE  Cardinality(ImagesOf(j)') + Cardinality(Uploading(j)') <= MaxImages + Cardinality(Uploads) - 1
    <3>0. /\ Cardinality(ImagesOf(j)) + Cardinality(Uploading(j)) <= MaxImages + Cardinality(Uploads) - 1
          /\ Cardinality(Uploads) \in Nat /\ IsFiniteSet(ImagesOf(j)) /\ Cardinality(ImagesOf(j)) \in Nat
          /\ IsFiniteSet(Uploading(j)) /\ Cardinality(Uploading(j)) \in Nat
      <4>1. ImagesOf(j) \subseteq images
        BY DEF ImagesOf
      <4>2. IsFiniteSet(ImagesOf(j)) /\ Cardinality(ImagesOf(j)) \in Nat
        BY <4>1, FS_Subset, FS_CardinalityType DEF ReportInv, CountInv
      <4>3. Uploading(j) \in SUBSET Uploads /\ Uploads \in SUBSET Uploads
        BY DEF Uploading
      <4>. QED
        BY <4>2, <4>3, UploadsAreCounted DEF ReportInv, CountInv
    <3>1. CASE j = upload[u].item
      <4>1. ImagesOf(j)' = ImagesOf(j) \cup {new}
        <5>1. new.item = j
          BY <1>2, <3>1
        <5>. QED
          BY <1>1, <5>1 DEF ImagesOf
      <4>2. Cardinality(ImagesOf(j)') <= Cardinality(ImagesOf(j)) + 1 /\ Cardinality(ImagesOf(j)') \in Nat
        <5>1. \/ Cardinality(ImagesOf(j) \cup {new}) = Cardinality(ImagesOf(j))
              \/ Cardinality(ImagesOf(j) \cup {new}) = Cardinality(ImagesOf(j)) + 1
          BY <3>0, FS_AddElement
        <5>. QED
          BY <3>0, <4>1, <5>1
      <4>3. u \in Uploading(j) /\ Uploading(j)' = Uploading(j) \ {u}
        BY <1>0, <1>2, <1>5, <3>1 DEF Uploading
      <4>4. Cardinality(Uploading(j)') = Cardinality(Uploading(j)) - 1
        BY <3>0, <4>3, FS_RemoveElement
      <4>. QED
        BY <1>0, <3>0, <4>2, <4>4
    <3>2. CASE j # upload[u].item
      <4>1. ImagesOf(j)' = ImagesOf(j)
        BY <1>1, <1>2, <3>2 DEF ImagesOf
      <4>2. Uploading(j)' = Uploading(j)
        BY <1>2, <1>5, <3>2 DEF Uploading
      <4>. QED
        BY <3>0, <4>1, <4>2
    <3>. QED
      BY <3>1, <3>2
  <2>. QED
    BY <2>1, <2>2 DEF CountInv
<1>9. UploadItemsInv'
  BY <1>0, <1>1, <1>2, <1>5 DEF ReportInv, UploadItemsInv
<1>10. ReaderInv'
  BY <1>1, ReaderStays DEF ReportInv
<1>11. FormInv' /\ SubmissionsInv' /\ ItemsInv'
  BY <1>1 DEF ReportInv, FormInv, SubmissionsInv, ItemsInv, PublishedIsDescribed, DuplicateFollowsAnError
<1>. QED
  BY <1>7, <1>8, <1>9, <1>10, <1>11 DEF ReportInv

\* An upload ends with a job for the image whose row it wrote, or cut short.
LEMMA UploadEnds ==
    ASSUME ObjectsInv, CountInv, UploadItemsInv, NEW u \in Uploads,
           upload' = [upload EXCEPT ![u] = NoUpload], UNCHANGED <<items, objects, images>>,
           scoring \subseteq scoring', scoring' \subseteq [item: 1..MaxItems, image: 0..MaxObjects], cut \subseteq cut',
           \/ [item |-> upload[u].item, image |-> upload[u].object] \in scoring'
           \/ upload[u].pc # "rescore"
           \/ upload[u].object \in cut'
    PROVE  ObjectsInv' /\ CountInv' /\ UploadItemsInv'
<1>0. /\ upload \in [Uploads -> UploadRow] /\ NoUpload \in UploadRow /\ NoUpload.pc = "none" /\ NoUpload.object = 0
      /\ MaxImages \in Nat \ {0}
  BY ReportFlowAssumption DEF ObjectsInv, NoUpload, UploadRow
<1>1. /\ upload' \in [Uploads -> UploadRow] /\ upload'[u] = NoUpload
      /\ \A v \in Uploads : v # u => upload'[v] = upload[v]
  BY <1>0
<1>2. \A m \in images : m.object # 0
  BY DEF ObjectsInv
<1>3. ObjectsInv'
  <2>1. \A v \in Uploads :
          /\ upload'[v].pc \in {"none", "put"} => upload'[v].object = 0
          /\ upload'[v].pc \in {"row", "rescore"} => upload'[v].object \in objects
    BY <1>0, <1>1 DEF ObjectsInv
  <2>2. \A v, w \in Uploads : v # w /\ upload'[v].object # 0 => upload'[v].object # upload'[w].object
    BY <1>0, <1>1 DEF ObjectsInv
  <2>3. \A v \in Uploads, m \in images :
           upload'[v].object = m.object => upload'[v].pc = "rescore" /\ m.item = upload'[v].item
    BY <1>0, <1>1, <1>2 DEF ObjectsInv
  <2>4. ImageHasItsObject'
    BY DEF ObjectsInv, ImageHasItsObject
  <2>5. ImageIsScored'
    <3> SUFFICES ASSUME NEW m \in images
                 PROVE  \/ [item |-> m.item, image |-> m.object] \in scoring'
                        \/ m.object \in cut'
                        \/ \E v \in Uploads : upload'[v].object = m.object
      BY DEF ImageIsScored
    <3>1. \/ [item |-> m.item, image |-> m.object] \in scoring
          \/ m.object \in cut
          \/ \E v \in Uploads : upload[v].object = m.object
      BY DEF ObjectsInv, ImageIsScored
    <3>2. upload[u].object = m.object => upload[u].pc = "rescore" /\ m.item = upload[u].item
      BY DEF ObjectsInv
    <3>. QED
      BY <1>1, <3>1, <3>2
  <2>. QED
    BY <1>1, <2>1, <2>2, <2>3, <2>4, <2>5 DEF ObjectsInv
<1>4. ASSUME NEW j \in 1..MaxItems
      PROVE  Cardinality(ImagesOf(j)') + Cardinality(Uploading(j)') <= MaxImages + Cardinality(Uploads) - 1
  <2>1. ImagesOf(j)' = ImagesOf(j) /\ ImagesOf(j) \subseteq images
    BY DEF ImagesOf
  <2>2. Uploading(j)' \subseteq Uploading(j)
    BY <1>0, <1>1 DEF Uploading
  <2>3. Uploading(j) \in SUBSET Uploads /\ Uploads \in SUBSET Uploads
    BY DEF Uploading
  <2>4. IsFiniteSet(Uploading(j)) /\ Cardinality(Uploading(j)) \in Nat /\ Cardinality(Uploads) \in Nat
    BY <2>3, UploadsAreCounted
  <2>5. Cardinality(Uploading(j)') \in Nat /\ Cardinality(Uploading(j)') <= Cardinality(Uploading(j))
    BY <2>2, <2>4, FS_Subset, FS_CardinalityType
  <2>6. Cardinality(ImagesOf(j)) \in Nat
    BY <2>1, FS_Subset, FS_CardinalityType DEF CountInv
  <2>7. Cardinality(ImagesOf(j)) + Cardinality(Uploading(j)) <= MaxImages + Cardinality(Uploads) - 1
    BY DEF CountInv
  <2>. QED
    BY <1>0, <2>1, <2>4, <2>5, <2>6, <2>7
<1>5. CountInv'
  BY <1>4 DEF CountInv
<1>6. UploadItemsInv'
  BY <1>0, <1>1 DEF UploadItemsInv
<1>. QED
  BY <1>3, <1>5, <1>6

\* Rescore keeps the invariant.
LEMMA RescoreInv ==
    ASSUME ReportInv, NEW u \in Uploads, Rescore(u)
    PROVE  ReportInv'
<1>1. /\ upload[u].pc = "rescore" /\ scoring' = scoring \cup {RescoreJob(u)}
      /\ upload' = [upload EXCEPT ![u] = NoUpload]
      /\ UNCHANGED <<items, objects, images, reader, errors, cut>>
  BY DEF Rescore
<1>2. upload[u].item \in 1..MaxItems /\ upload[u].object \in 0..MaxObjects
  <2>1. upload[u].item \in 1..Len(items) /\ Len(items) \in 0..MaxItems
    BY <1>1 DEF ReportInv, UploadItemsInv, ItemsInv
  <2>. QED
    BY <2>1, ReportFlowAssumption DEF ReportInv, ObjectsInv, UploadRow
<1>3. scoring \subseteq scoring' /\ scoring' \subseteq [item: 1..MaxItems, image: 0..MaxObjects]
      /\ [item |-> upload[u].item, image |-> upload[u].object] \in scoring'
  BY <1>1, <1>2 DEF RescoreJob, ReportInv, ObjectsInv
<1>4. ObjectsInv' /\ CountInv' /\ UploadItemsInv'
  BY <1>1, <1>3, UploadEnds DEF ReportInv
<1>5. FormInv' /\ SubmissionsInv' /\ ItemsInv'
  <2>1. CASE UNCHANGED <<form, submission>>
    BY <1>1, <2>1 DEF ReportInv, FormInv, SubmissionsInv, ItemsInv, PublishedIsDescribed, DuplicateFollowsAnError
  <2>2. CASE \E s \in Waiting(u) : form' = Told(s, TRUE) /\ submission' = [submission EXCEPT ![s] = NoSubmission]
    <3>1. PICK s \in Submissions : form' = Elsewhere("success", form.mount) /\ submission' = [submission EXCEPT ![s] = NoSubmission]
      BY <2>2 DEF Waiting, Told
    <3>2. 0 \in 0..Len(items)
      BY LenProperties DEF ReportInv, ItemsInv
    <3>. QED
      BY <1>1, <3>1, <3>2, NoSubmissionIsARow, FormGoesOn DEF ReportInv
  <2>. QED
    BY <2>1, <2>2 DEF Rescore
<1>6. ReaderInv'
  BY <1>1, ReaderStays DEF ReportInv
<1>. QED
  BY <1>4, <1>5, <1>6 DEF ReportInv

\* UploadFails keeps the invariant.
LEMMA UploadFailsInv ==
    ASSUME ReportInv, NEW u \in Uploads, UploadFails(u)
    PROVE  ReportInv'
<1>1. /\ cut' = IF upload[u].pc = "rescore" THEN cut \cup {upload[u].object} ELSE cut
      /\ upload' = [upload EXCEPT ![u] = NoUpload]
      /\ UNCHANGED <<items, objects, images, scoring, reader>>
  BY DEF UploadFails
<1>2. /\ scoring' \subseteq [item: 1..MaxItems, image: 0..MaxObjects] /\ cut \subseteq cut'
      /\ upload[u].pc # "rescore" \/ upload[u].object \in cut'
  BY <1>1 DEF ReportInv, ObjectsInv
<1>3. ObjectsInv' /\ CountInv' /\ UploadItemsInv'
  BY <1>1, <1>2, UploadEnds DEF ReportInv
<1>4. FormInv' /\ SubmissionsInv' /\ ItemsInv'
  <2>1. CASE UNCHANGED <<form, submission, errors>>
    BY <1>1, <2>1 DEF ReportInv, FormInv, SubmissionsInv, ItemsInv, PublishedIsDescribed, DuplicateFollowsAnError
  <2>2. CASE \E s \in Waiting(u) : ShowError(s) /\ submission' = [submission EXCEPT ![s] = NoSubmission]
    <3>1. PICK s \in Submissions : ShowError(s) /\ submission' = [submission EXCEPT ![s] = NoSubmission]
      BY <2>2 DEF Waiting
    <3>2. 0 \in 0..Len(items)
      BY LenProperties DEF ReportInv, ItemsInv
    <3>3. /\ errors \subseteq errors'
          /\ \/ form' = form
             \/ form' = [form EXCEPT !.status = "error"] /\ form.mount \in errors'
      BY <3>1, ErrorIsShown DEF ShowError
    <3>. QED
      BY <1>1, <3>1, <3>2, <3>3, NoSubmissionIsARow, FormGoesOn DEF ReportInv
  <2>. QED
    BY <2>1, <2>2 DEF UploadFails
<1>5. ReaderInv'
  BY <1>1, ReaderStays DEF ReportInv
<1>. QED
  BY <1>3, <1>4, <1>5 DEF ReportInv

-----------------------------------------------------------------------------
(* The reader *)

\* An item that has a page of newer ones before it for every page read so far is on the next page, or
\* has one more page of newer ones.
LEMMA ReadPageInv ==
    ASSUME ReportInv, ReadPage
    PROVE  ReportInv'
<1>1. /\ reader' = [page |-> reader.page + 1,
                    seen |-> reader.seen \cup SearchPage("LOST", reader.page + 1),
                    due |-> IF reader.page = 0 THEN OfKind("LOST") ELSE reader.due]
      /\ UNCHANGED <<form, submission, items, upload, objects, images, scoring, errors, cut>>
  BY DEF ReadPage
<1>2. /\ reader.page \in Nat /\ reader.seen \in SUBSET Nat /\ reader.due \in SUBSET Nat /\ PageSize \in Nat \ {0}
      /\ items \in Seq(ReportedRow) /\ Len(items) \in Nat
  BY ReportFlowAssumption, LenProperties DEF ReportInv, ReaderInv, ItemsInv
<1>3. OfKind("LOST") \in SUBSET Nat /\ SearchPage("LOST", reader.page + 1) \in SUBSET Nat
  BY <1>2 DEF OfKind, SearchPage
<1>4. /\ reader'.page = reader.page + 1 /\ reader'.seen = reader.seen \cup SearchPage("LOST", reader.page + 1)
      /\ reader'.due = IF reader.page = 0 THEN OfKind("LOST") ELSE reader.due
      /\ reader' \in [page: Nat, seen: SUBSET Nat, due: SUBSET Nat]
  BY <1>1, <1>2, <1>3
<1>5. OfKind("LOST")' = OfKind("LOST") /\ \A i : Newer("LOST", i)' = Newer("LOST", i)
  BY <1>1 DEF OfKind, Newer
<1>6. reader'.due \subseteq OfKind("LOST")
  BY <1>4 DEF ReportInv, ReaderInv
<1>7. ASSUME NEW i \in reader'.due, i \notin reader'.seen
      PROVE  (reader.page + 1) * PageSize <= Cardinality(Newer("LOST", i))
  <2>1. Cardinality(Newer("LOST", i)) \in Nat
    BY <1>2, NewerIsFinite
  <2>2. reader.page * PageSize <= Cardinality(Newer("LOST", i))
    <3>1. CASE reader.page = 0
      BY <1>2, <2>1, <3>1
    <3>2. CASE reader.page # 0
      BY <1>4, <1>7, <3>2 DEF ReportInv, ReaderInv
    <3>. QED
      BY <3>1, <3>2
  <2>3. i \in OfKind("LOST") /\ i \notin SearchPage("LOST", reader.page + 1)
    BY <1>4, <1>6, <1>7
  <2>4. ASSUME NEW p \in Nat, i \notin SearchPage("LOST", p)
        PROVE  Cardinality(Newer("LOST", i)) \notin (p - 1) * PageSize .. p * PageSize - 1
    BY <2>3, <2>4 DEF SearchPage
  <2>5. PICK p \in Nat : p = reader.page + 1
    BY <1>2
  <2>6. p - 1 = reader.page
    BY <1>2, <2>5
  <2>7. Cardinality(Newer("LOST", i)) \notin reader.page * PageSize .. p * PageSize - 1
    BY <2>3, <2>4, <2>5, <2>6
  <2>8. reader.page * PageSize \in Nat /\ p * PageSize \in Nat
    BY <1>2
  <2>. QED
    BY <2>1, <2>2, <2>5, <2>7, <2>8
<1>8. ReaderInv'
  BY <1>4, <1>5, <1>6, <1>7 DEF ReaderInv
<1>9. ObjectsInv' /\ CountInv' /\ UploadItemsInv'
  <2>1. scoring' \subseteq [item: 1..MaxItems, image: 0..MaxObjects]
    BY <1>1 DEF ReportInv, ObjectsInv
  <2>. QED
    BY <1>1, <2>1, UploadsStay DEF ReportInv, UploadItemsInv
<1>10. FormInv' /\ SubmissionsInv' /\ ItemsInv'
  BY <1>1 DEF ReportInv, FormInv, SubmissionsInv, ItemsInv, PublishedIsDescribed, DuplicateFollowsAnError
<1>. QED
  BY <1>8, <1>9, <1>10 DEF ReportInv

-----------------------------------------------------------------------------
(* Theorems *)

\* Every step of the form and of what it sent keeps the invariant.
LEMMA ReportFormStepInv ==
    ASSUME ReportInv, FormSteps
    PROVE  ReportInv'
<1>1. ASSUME NEW kind \in Kinds, Open(kind) PROVE ReportInv'
  BY <1>1, OpenInv
<1>2. ASSUME NEW field \in Fields, UpdateField(field) PROVE ReportInv'
  BY <1>2, UpdateFieldInv
<1>3. ASSUME NEW s \in Submissions, Publish(s) PROVE ReportInv'
  BY <1>3, PublishInv
<1>4. ASSUME NEW s \in Submissions, LoseAnswer(s) PROVE ReportInv'
  BY <1>4, LoseAnswerInv
<1>5. ASSUME NEW s \in Submissions, RefuseItem(s) PROVE ReportInv'
  BY <1>5, SubmissionFails DEF RefuseItem
<1>6. ASSUME NEW s \in Submissions, CreateItem(s) PROVE ReportInv'
  BY <1>6, CreateItemInv
<1>7. ASSUME NEW s \in Submissions, EnqueueItem(s) PROVE ReportInv'
  BY <1>7, EnqueueItemInv
<1>8. ASSUME NEW s \in Submissions, EnqueueFails(s) PROVE ReportInv'
  BY <1>8, SubmissionFails DEF EnqueueFails
<1>9. ASSUME NEW s \in Submissions, NEW u \in Uploads, UploadPhoto(s, u) PROVE ReportInv'
  BY <1>9, UploadPhotoInv
<1>. QED
  BY <1>1, <1>2, <1>3, <1>4, <1>5, <1>6, <1>7, <1>8, <1>9, LeaveInv, NextStepInv, PreviousStepInv DEF FormSteps

\* So does every step of an upload.
LEMMA ReportUploadStepInv ==
    ASSUME ReportInv, UploadSteps
    PROVE  ReportInv'
<1>1. ASSUME NEW u \in Uploads, PutObject(u) PROVE ReportInv'
  BY <1>1, PutObjectInv
<1>2. ASSUME NEW u \in Uploads, CreateImage(u) PROVE ReportInv'
  BY <1>2, CreateImageInv
<1>3. ASSUME NEW u \in Uploads, Rescore(u) PROVE ReportInv'
  BY <1>3, RescoreInv
<1>4. ASSUME NEW u \in Uploads, UploadFails(u) PROVE ReportInv'
  BY <1>4, UploadFailsInv
<1>. QED
  BY <1>1, <1>2, <1>3, <1>4 DEF UploadSteps

\* So does every other step.
LEMMA ReportOtherStepInv ==
    ASSUME ReportInv, OtherSteps
    PROVE  ReportInv'
<1>1. ASSUME NEW kind \in Kinds, PostItem(kind) PROVE ReportInv'
  BY <1>1, PostItemInv
<1>2. ASSUME NEW u \in Uploads, NEW i \in 1..MaxItems, StartUpload(u, i) PROVE ReportInv'
  BY <1>2, StartUploadInv
<1>. QED
  BY <1>1, <1>2, ReadPageInv DEF OtherSteps

\* The form, what it sent, the rows, the uploads and the reader keep to their invariant.
THEOREM ReportInvariant == ReportSpec => []ReportInv
<1>1. ReportInv /\ UNCHANGED reportVars => ReportInv'
  <2> SUFFICES ASSUME ReportInv, UNCHANGED reportVars PROVE ReportInv'
    OBVIOUS
  <2>1. UNCHANGED <<form, submission, items, upload, objects, images, scoring, reader, errors, cut>>
    BY DEF reportVars
  <2>2. ObjectsInv' /\ CountInv' /\ ReaderInv' /\ UploadItemsInv'
    <3>1. scoring' \subseteq [item: 1..MaxItems, image: 0..MaxObjects]
      BY <2>1 DEF ReportInv, ObjectsInv
    <3>. QED
      BY <2>1, <3>1, UploadsStay, ReaderStays DEF ReportInv, UploadItemsInv
  <2>3. FormInv' /\ SubmissionsInv' /\ ItemsInv'
    BY <2>1 DEF ReportInv, FormInv, SubmissionsInv, ItemsInv, PublishedIsDescribed, DuplicateFollowsAnError
  <2>. QED
    BY <2>2, <2>3 DEF ReportInv
<1>2. ReportInv /\ [ReportNext]_reportVars => ReportInv'
  BY <1>1, ReportFormStepInv, ReportUploadStepInv, ReportOtherStepInv DEF ReportNext
<1>. QED
  BY <1>2, ReportInitInv, PTL DEF ReportSpec

\* Reports are published with what the server does not ask for, twice only after an error, with
\* images that are stored, counted and scored; readers miss none (report-lost-flow.tsx,
\* report-found-flow.tsx, items/).
THEOREM ReportsArriveWhole == ReportSpec => []ReportsAreWhole
BY ReportInvariant, ReportsAreSafe, PTL

\* Forms, submissions, uploads, images and readers keep their shape.
THEOREM ReportTypes == ReportSpec => []ReportTypeOK
BY ReportInvariant, ReportsAreTyped, PTL

-----------------------------------------------------------------------------
(* Administration *)

AccountOps == {"status", "role", "authority"}

Call == [op: AccountOps \cup {"idle", "onboard"}, admin: Members \cup {NoOneYet},
         user: Members \cup {NoOneYet}, to: {"ACTIVE", "DISABLED", NoOneYet} \cup Roles \cup NewSlugs,
         overlapped: BOOLEAN]

\* What was checked of an account still holds when it is updated, but for a status update
\* that overtook the request.
Checked(ro, en, r) ==
    /\ r.user \in Members /\ r.admin \in Members
    /\ ro[r.user] \notin Privileged
    /\ HomeOf[r.admin] = HomeOf[r.user] /\ FirstRole[r.admin] = "UNIVERSITY_ADMIN"
    /\ r.op # "status" => r.to \in Roles \ Privileged
    /\ r.op # "status" /\ r.to = "CAMPUS_AUTHORITY" => en[r.user] \/ r.overlapped

AccountsInv ==
    /\ role \in [Members -> Roles]
    /\ enabled \in [Members -> BOOLEAN]
    /\ adminCall \in [AdminCalls -> Call]
    /\ changes \subseteq Members \X Members
    /\ \A c \in AdminCalls : adminCall[c].op \in AccountOps => Checked(role, enabled, adminCall[c])
    /\ \A c \in AdminCalls : adminCall[c].op = "onboard" => adminCall[c].to \in NewSlugs
    /\ AdministratorsStay
    /\ DisabledAuthorityWasOvertaken
    /\ ChangedByOwnAdministrators

\* The initial states have the invariant.
LEMMA AccountsInitInv == AdminInit => AccountsInv
<1> SUFFICES ASSUME AdminInit PROVE AccountsInv
  OBVIOUS
<1>1. NoCall \in Call /\ NoCall.op = "idle"
  BY DEF NoCall, Call
<1>. QED
  BY <1>1, AdministrationAssumption
  DEF AdminInit, AccountsInv, AdministratorsStay, DisabledAuthorityWasOvertaken, ChangedByOwnAdministrators,
      AccountOps

\* ReadUser keeps the invariant.
LEMMA ReadUserInv ==
    ASSUME AccountsInv, NEW c \in AdminCalls, NEW admin \in Members, NEW u \in Members,
           NEW op \in AccountOps, NEW to \in Targets(op), ReadUser(c, admin, u, op, to)
    PROVE  AccountsInv'
<1> DEFINE r == [op |-> op, admin |-> admin, user |-> u, to |-> to, overlapped |-> FALSE]
<1>1. adminCall' = [adminCall EXCEPT ![c] = r] /\ UNCHANGED <<role, enabled, appointed, changes>>
  BY DEF ReadUser
<1>2. to \in {"ACTIVE", "DISABLED"} \cup Roles
  BY DEF Targets, Roles, AccountOps
<1>3. r \in Call /\ r.op = op /\ r.admin = admin /\ r.user = u /\ r.to = to
  BY <1>2 DEF Call
<1>4. role[u] \notin Privileged
  BY DEF ReadUser, AccountOps, StatusMayChange, RoleMayChange, MayBeAuthority
<1>5. op # "status" => to \in Roles \ Privileged
  BY DEF ReadUser, AccountOps, RoleMayChange, Targets, Roles, Privileged
<1>6. op # "status" /\ to = "CAMPUS_AUTHORITY" => enabled[u]
  BY DEF ReadUser, AccountOps, RoleMayChange, MayBeAuthority
<1>7. HomeOf[admin] = HomeOf[u] /\ FirstRole[admin] = "UNIVERSITY_ADMIN"
  <2>1. role[admin] = "UNIVERSITY_ADMIN" /\ HomeOf[u] = HomeOf[admin]
    BY DEF ReadUser, MayAct, IsUniversityUser
  <2>. QED
    BY <2>1 DEF AccountsInv, AdministratorsStay, Privileged
<1> HIDE DEF r
<1>8. Checked(role, enabled, r)
  BY <1>3, <1>4, <1>5, <1>6, <1>7 DEF Checked
<1>9. /\ adminCall' \in [AdminCalls -> Call] /\ adminCall'[c] = r
      /\ \A d \in AdminCalls : d # c => adminCall'[d] = adminCall[d]
  BY <1>1, <1>3 DEF AccountsInv
<1>10. /\ \A d \in AdminCalls : adminCall'[d].op \in AccountOps => Checked(role, enabled, adminCall'[d])
       /\ \A d \in AdminCalls : adminCall'[d].op = "onboard" => adminCall'[d].to \in NewSlugs
  BY <1>3, <1>8, <1>9 DEF AccountsInv, AccountOps
<1>. QED
  BY <1>1, <1>9, <1>10
  DEF AccountsInv, AdministratorsStay, DisabledAuthorityWasOvertaken, ChangedByOwnAdministrators

\* UpdateUserStatus keeps the invariant.
LEMMA UpdateUserStatusInv ==
    ASSUME AccountsInv, NEW c \in AdminCalls, UpdateUserStatus(c)
    PROVE  AccountsInv'
<1> DEFINE r == adminCall[c]
           Late(d) == IF d # c /\ adminCall[d].user = adminCall[c].user
                      THEN [adminCall[d] EXCEPT !.overlapped = TRUE] ELSE adminCall[d]
<1>1. r \in Call /\ r.op = "status" /\ Checked(role, enabled, r)
  BY DEF UpdateUserStatus, AccountsInv, AccountOps
<1>2. r.user \in Members /\ r.admin \in Members /\ role[r.user] \notin Privileged
      /\ HomeOf[r.admin] = HomeOf[r.user] /\ FirstRole[r.admin] = "UNIVERSITY_ADMIN"
  BY <1>1 DEF Checked
<1>3. /\ enabled' = [enabled EXCEPT ![r.user] = (r.to = "ACTIVE")]
      /\ adminCall' = [[d \in AdminCalls |-> Late(d)] EXCEPT ![c] = NoCall]
      /\ changes' = changes \cup {<<r.admin, r.user>>}
      /\ UNCHANGED <<role, appointed>>
  BY DEF UpdateUserStatus, Overtaken
<1>4. NoCall \in Call /\ NoCall.op = "idle"
  BY DEF NoCall, Call
<1>5. ASSUME NEW d \in AdminCalls
      PROVE  /\ Late(d) \in Call /\ Late(d).op = adminCall[d].op /\ Late(d).user = adminCall[d].user
             /\ Late(d).admin = adminCall[d].admin /\ Late(d).to = adminCall[d].to
             /\ adminCall[d].overlapped => Late(d).overlapped
             /\ d # c /\ adminCall[d].user = r.user => Late(d).overlapped
  <2>1. adminCall[d] \in Call
    BY DEF AccountsInv
  <2>2. CASE d # c /\ adminCall[d].user = r.user
    BY <2>1, <2>2 DEF Call
  <2>3. CASE ~(d # c /\ adminCall[d].user = r.user)
    <3>1. Late(d) = adminCall[d]
      BY <2>3
    <3>. QED
      BY <2>1, <2>3, <3>1
  <2>. QED
    BY <2>2, <2>3
<1> HIDE DEF Late, r
<1>6. /\ adminCall' \in [AdminCalls -> Call] /\ adminCall'[c].op = "idle"
      /\ \A d \in AdminCalls : d # c => adminCall'[d] = Late(d)
  BY <1>3, <1>4, <1>5
<1>7. enabled' \in [Members -> BOOLEAN] /\ \A u \in Members : u # r.user => enabled'[u] = enabled[u]
  BY <1>2, <1>3 DEF AccountsInv
<1>8. ASSUME NEW d \in AdminCalls, adminCall'[d].op \in AccountOps
      PROVE  Checked(role, enabled', adminCall'[d])
  <2>1. d # c /\ adminCall'[d] = Late(d) /\ Checked(role, enabled, adminCall[d])
    BY <1>5, <1>6, <1>8 DEF AccountsInv, AccountOps
  <2>2. \/ adminCall[d].user = r.user /\ Late(d).overlapped
        \/ enabled'[adminCall[d].user] = enabled[adminCall[d].user]
    BY <1>5, <1>7, <2>1 DEF Checked
  <2>. QED
    BY <1>5, <2>1, <2>2 DEF Checked
<1>9. \A d \in AdminCalls : adminCall'[d].op = "onboard" => adminCall'[d].to \in NewSlugs
  BY <1>5, <1>6 DEF AccountsInv
<1>10. AdministratorsStay'
  BY <1>2, <1>3, <1>7 DEF AccountsInv, AdministratorsStay
<1>11. changes' \subseteq Members \X Members /\ ChangedByOwnAdministrators'
  BY <1>2, <1>3 DEF AccountsInv, ChangedByOwnAdministrators
<1>. QED
  BY <1>3, <1>6, <1>7, <1>8, <1>9, <1>10, <1>11 DEF AccountsInv, DisabledAuthorityWasOvertaken

\* UpdateUserRole keeps the invariant.
LEMMA UpdateUserRoleInv ==
    ASSUME AccountsInv, NEW c \in AdminCalls, UpdateUserRole(c)
    PROVE  AccountsInv'
<1> DEFINE r == adminCall[c]
<1>1. r \in Call /\ r.op \in {"role", "authority"} /\ Checked(role, enabled, r)
  BY DEF UpdateUserRole, AccountsInv, AccountOps
<1>2. r.user \in Members /\ r.admin \in Members /\ role[r.user] \notin Privileged
      /\ HomeOf[r.admin] = HomeOf[r.user] /\ FirstRole[r.admin] = "UNIVERSITY_ADMIN"
      /\ r.to \in Roles \ Privileged /\ (r.to = "CAMPUS_AUTHORITY" => enabled[r.user] \/ r.overlapped)
  BY <1>1 DEF Checked
<1>3. /\ role' = [role EXCEPT ![r.user] = r.to]
      /\ adminCall' = [adminCall EXCEPT ![c] = NoCall]
      /\ changes' = changes \cup {<<r.admin, r.user>>}
      /\ appointed' = IF r.to = "CAMPUS_AUTHORITY"
                      THEN appointed \cup {[enabled |-> enabled[r.user], overlapped |-> r.overlapped]}
                      ELSE appointed
      /\ UNCHANGED enabled
  BY DEF UpdateUserRole
<1>4. NoCall \in Call /\ NoCall.op = "idle"
  BY DEF NoCall, Call
<1> HIDE DEF r
<1>5. /\ adminCall' \in [AdminCalls -> Call] /\ adminCall'[c] = NoCall
      /\ \A d \in AdminCalls : d # c => adminCall'[d] = adminCall[d]
  BY <1>3, <1>4 DEF AccountsInv
<1>6. /\ role' \in [Members -> Roles] /\ role'[r.user] = r.to
      /\ \A u \in Members : u # r.user => role'[u] = role[u]
  BY <1>2, <1>3 DEF AccountsInv
<1>7. ASSUME NEW d \in AdminCalls, adminCall'[d].op \in AccountOps
      PROVE  Checked(role', enabled, adminCall'[d])
  <2>1. adminCall'[d] = adminCall[d] /\ Checked(role, enabled, adminCall[d])
    BY <1>4, <1>5, <1>7 DEF AccountsInv, AccountOps
  <2>. QED
    BY <1>2, <1>6, <2>1 DEF Checked
<1>8. \A d \in AdminCalls : adminCall'[d].op = "onboard" => adminCall'[d].to \in NewSlugs
  BY <1>4, <1>5 DEF AccountsInv
<1>9. AdministratorsStay'
  BY <1>2, <1>3, <1>6 DEF AccountsInv, AdministratorsStay
<1>10. changes' \subseteq Members \X Members /\ ChangedByOwnAdministrators'
  BY <1>2, <1>3 DEF AccountsInv, ChangedByOwnAdministrators
<1>11. DisabledAuthorityWasOvertaken'
  BY <1>2, <1>3 DEF AccountsInv, DisabledAuthorityWasOvertaken
<1>. QED
  BY <1>3, <1>5, <1>6, <1>7, <1>8, <1>9, <1>10, <1>11 DEF AccountsInv

-----------------------------------------------------------------------------
(* Universities *)

\* A university is in the list once, and as ACTIVE only when it was opened.
TenantsInv ==
    /\ tenant \subseteq [slug: NewSlugs, status: TenantStatus]
    /\ opened \subseteq NewSlugs
    /\ OfferedWasOpened

\* FindSlug keeps the invariant.
LEMMA FindSlugInv ==
    ASSUME AccountsInv, NEW c \in AdminCalls, NEW admin \in Members, NEW slug \in NewSlugs,
           FindSlug(c, admin, slug)
    PROVE  AccountsInv'
<1> DEFINE r == [NoCall EXCEPT !.op = "onboard", !.admin = admin, !.to = slug]
<1>1. adminCall' = [adminCall EXCEPT ![c] = r] /\ UNCHANGED <<role, enabled, appointed, changes>>
  BY DEF FindSlug
<1>2. r \in Call /\ r.op = "onboard" /\ r.to = slug
  BY DEF NoCall, Call
<1> HIDE DEF r
<1>3. /\ adminCall' \in [AdminCalls -> Call] /\ adminCall'[c] = r
      /\ \A d \in AdminCalls : d # c => adminCall'[d] = adminCall[d]
  BY <1>1, <1>2 DEF AccountsInv
<1>4. /\ \A d \in AdminCalls : adminCall'[d].op \in AccountOps => Checked(role, enabled, adminCall'[d])
      /\ \A d \in AdminCalls : adminCall'[d].op = "onboard" => adminCall'[d].to \in NewSlugs
  BY <1>2, <1>3 DEF AccountsInv, AccountOps
<1>. QED
  BY <1>1, <1>3, <1>4
  DEF AccountsInv, AdministratorsStay, DisabledAuthorityWasOvertaken, ChangedByOwnAdministrators

\* CreateUniversity keeps the invariant.
LEMMA CreateUniversityInv ==
    ASSUME AccountsInv, TenantsInv, NEW c \in AdminCalls, CreateUniversity(c)
    PROVE  AccountsInv' /\ TenantsInv'
<1>1. /\ adminCall[c].to \in NewSlugs /\ adminCall' = [adminCall EXCEPT ![c] = NoCall]
      /\ UNCHANGED <<role, enabled, appointed, changes, opened>>
      /\ \/ tenant' = tenant
         \/ /\ \A t \in tenant : t.slug # adminCall[c].to
            /\ tenant' = tenant \cup {NewTenant(adminCall[c].to)}
  BY DEF CreateUniversity, AccountsInv
<1>2. NoCall \in Call /\ NoCall.op = "idle"
  BY DEF NoCall, Call
<1>3. /\ adminCall' \in [AdminCalls -> Call] /\ adminCall'[c] = NoCall
      /\ \A d \in AdminCalls : d # c => adminCall'[d] = adminCall[d]
  BY <1>1, <1>2 DEF AccountsInv
<1>4. /\ \A d \in AdminCalls : adminCall'[d].op \in AccountOps => Checked(role, enabled, adminCall'[d])
      /\ \A d \in AdminCalls : adminCall'[d].op = "onboard" => adminCall'[d].to \in NewSlugs
  BY <1>2, <1>3 DEF AccountsInv, AccountOps
<1>5. AccountsInv'
  BY <1>1, <1>3, <1>4
  DEF AccountsInv, AdministratorsStay, DisabledAuthorityWasOvertaken, ChangedByOwnAdministrators
<1>6. TenantsInv'
  BY <1>1 DEF TenantsInv, OfferedWasOpened, ListActiveUniversities, NewTenant, TenantStatus
<1>. QED
  BY <1>5, <1>6

\* SetUniversityStatus keeps the invariant.
LEMMA SetUniversityStatusInv ==
    ASSUME TenantsInv, NEW admin \in Members, NEW t \in tenant, NEW status \in TenantStatus,
           SetUniversityStatus(admin, t, status)
    PROVE  TenantsInv'
<1> DEFINE new == [t EXCEPT !.status = status]
<1>1. /\ tenant' = (tenant \ {t}) \cup {new}
      /\ opened' = IF status = "ACTIVE" THEN opened \cup {t.slug} ELSE opened
  BY DEF SetUniversityStatus
<1>2. new \in [slug: NewSlugs, status: TenantStatus] /\ new.slug = t.slug /\ new.status = status
      /\ t.slug \in NewSlugs
  BY DEF TenantsInv
<1> HIDE DEF new
<1>. QED
  BY <1>1, <1>2 DEF TenantsInv, OfferedWasOpened, ListActiveUniversities

-----------------------------------------------------------------------------
(* Recovery rate *)

Rate == [op: {"idle", "counting"}, of: Homes \cup {NoOneYet}, total: 0..Cardinality(Reportable),
         recovered: 0..Cardinality(Reportable), since: SUBSET Reportable]

LostIn(l, home) == {i \in Reportable : l[i] # "none" /\ CampusOfItem(i) = home}

\* The items reported since the first count, of the university that is counted.
Since(r) == {i \in r.since : CampusOfItem(i) = r.of}

\* Between the counts, the items reported are those that were counted and the new ones.
RateInv ==
    /\ lost \in [Reportable -> {"none", "ACTIVE", "RECOVERED"}]
    /\ rate \in Rate
    /\ rate.op = "counting" =>
          \E S \in SUBSET Reportable : Cardinality(S) = rate.total /\ LostIn(lost, rate.of) \subseteq S \cup Since(rate)
    /\ RateIsOffByNewItemsOnly

\* Items of a university are finitely many.
LEMMA SomeItems ==
    ASSUME NEW S \in SUBSET Reportable
    PROVE  IsFiniteSet(S) /\ Cardinality(S) \in 0..Cardinality(Reportable) /\ Cardinality(S) \in Nat
<1>1. IsFiniteSet(S) /\ Cardinality(S) <= Cardinality(Reportable)
  BY AdministrationAssumption, FS_Subset
<1>2. Cardinality(S) \in Nat /\ Cardinality(Reportable) \in Nat
  BY <1>1, AdministrationAssumption, FS_CardinalityType
<1>. QED
  BY <1>1, <1>2

\* The initial states have the invariant.
LEMMA RateInitInv == AdminInit => RateInv
<1> SUFFICES ASSUME AdminInit PROVE RateInv
  OBVIOUS
<1>1. rate = [op |-> "idle", of |-> NoOneYet, total |-> 0, recovered |-> 0, since |-> {}]
      /\ lost = [i \in Reportable |-> "none"]
  BY DEF AdminInit
<1>2. Cardinality(Reportable) \in Nat /\ Cardinality({}) = 0
  BY AdministrationAssumption, FS_CardinalityType, FS_EmptySet
<1>3. rate \in Rate
  BY <1>1, <1>2 DEF Rate
<1>4. {i \in rate.since : CampusOfItem(i) = rate.of} = {}
  BY <1>1
<1>5. RateIsOffByNewItemsOnly
  BY <1>1, <1>2, <1>4 DEF RateIsOffByNewItemsOnly
<1>. QED
  BY <1>1, <1>3, <1>5 DEF RateInv

\* ReportLostItem keeps the invariant.
LEMMA ReportLostItemInv ==
    ASSUME RateInv, NEW i \in Reportable, ReportLostItem(i)
    PROVE  RateInv'
<1>1. lost' = [lost EXCEPT ![i] = "ACTIVE"] /\ lost' \in [Reportable -> {"none", "ACTIVE", "RECOVERED"}]
  BY DEF ReportLostItem, RateInv
<1>2. CASE rate.op = "counting"
  <2> DEFINE new == [rate EXCEPT !.since = @ \cup {i}]
  <2>1. rate' = new
    BY <1>2 DEF ReportLostItem
  <2>2. /\ new \in Rate /\ new.op = "counting" /\ new.of = rate.of /\ new.total = rate.total
        /\ new.recovered = rate.recovered /\ new.since = rate.since \cup {i}
    BY <1>2 DEF RateInv, Rate
  <2> HIDE DEF new
  <2>3. Since(rate) \subseteq Since(new) /\ (CampusOfItem(i) = rate.of => i \in Since(new))
        /\ Since(new) \in SUBSET Reportable /\ Since(rate) \in SUBSET Reportable
    BY <2>2 DEF Since, RateInv, Rate
  <2>4. PICK S \in SUBSET Reportable : Cardinality(S) = rate.total /\ LostIn(lost, rate.of) \subseteq S \cup Since(rate)
    BY <1>2 DEF RateInv
  <2>5. LostIn(lost', rate.of) \subseteq LostIn(lost, rate.of) \cup {k \in {i} : CampusOfItem(k) = rate.of}
    BY <1>1 DEF LostIn, RateInv
  <2>6. LostIn(lost', new.of) \subseteq S \cup Since(new)
    BY <2>2, <2>3, <2>4, <2>5
  <2>7. new.recovered <= new.total + Cardinality(Since(new))
    <3>1. Cardinality(Since(new)) \in Nat /\ Cardinality(Since(rate)) \in Nat
          /\ Cardinality(Since(rate)) <= Cardinality(Since(new))
      BY <2>3, SomeItems, FS_Subset
    <3>2. rate.recovered <= rate.total + Cardinality(Since(rate)) /\ rate.recovered \in Nat /\ rate.total \in Nat
      <4>1. Cardinality(Reportable) \in Nat
        BY AdministrationAssumption, FS_CardinalityType
      <4>. QED
        BY <4>1 DEF RateInv, RateIsOffByNewItemsOnly, Since, Rate
    <3>3. PICK a \in Nat, b \in Nat, c \in Nat, d \in Nat :
              /\ a = rate.recovered /\ b = rate.total /\ c = Cardinality(Since(rate)) /\ d = Cardinality(Since(new))
              /\ a <= b + c /\ c <= d
      BY <3>1, <3>2
    <3>4. a <= b + d
      BY <3>3
    <3>. QED
      BY <2>2, <3>3, <3>4
  <2>8. RateIsOffByNewItemsOnly'
    BY <2>1, <2>7 DEF RateIsOffByNewItemsOnly, Since
  <2>. QED
    BY <1>1, <2>1, <2>2, <2>4, <2>6, <2>8 DEF RateInv
<1>3. CASE rate.op # "counting"
  <2>1. rate' = rate
    BY <1>3 DEF ReportLostItem
  <2>. QED
    BY <1>1, <1>3, <2>1 DEF RateInv, RateIsOffByNewItemsOnly
<1>. QED
  BY <1>2, <1>3

\* RecoverLostItem keeps the invariant.
LEMMA RecoverLostItemInv ==
    ASSUME RateInv, NEW i \in Reportable, RecoverLostItem(i)
    PROVE  RateInv'
<1>1. /\ lost' = [lost EXCEPT ![i] = "RECOVERED"] /\ lost' \in [Reportable -> {"none", "ACTIVE", "RECOVERED"}]
      /\ lost[i] = "ACTIVE" /\ UNCHANGED rate
  BY DEF RecoverLostItem, RateInv
<1>2. LostIn(lost', rate.of) = LostIn(lost, rate.of)
  BY <1>1 DEF LostIn, RateInv
<1>. QED
  BY <1>1, <1>2 DEF RateInv, RateIsOffByNewItemsOnly, Since

\* CountLost keeps the invariant.
LEMMA CountLostInv ==
    ASSUME RateInv, NEW admin \in Members, CountLost(admin)
    PROVE  RateInv'
<1> DEFINE S == LostIn(lost, HomeOf[admin])
           new == [op |-> "counting", of |-> HomeOf[admin], total |-> Cardinality(S), recovered |-> 0, since |-> {}]
<1>1. rate' = new /\ UNCHANGED lost
  BY DEF CountLost, LostOf, LostIn
<1>2. S \in SUBSET Reportable
  BY DEF LostIn
<1>3. Cardinality(S) \in 0..Cardinality(Reportable) /\ Cardinality(S) \in Nat /\ 0 \in 0..Cardinality(Reportable)
  BY <1>2, SomeItems, AdministrationAssumption, FS_CardinalityType
<1> HIDE DEF S
<1>4. /\ new \in Rate /\ new.op = "counting" /\ new.of = HomeOf[admin] /\ new.total = Cardinality(S)
      /\ new.recovered = 0 /\ new.since = {}
  BY <1>3 DEF Rate, Homes
<1> HIDE DEF new
<1>5. Since(new) = {} /\ Cardinality({}) = 0
  BY <1>4, FS_EmptySet DEF Since
<1>6. RateIsOffByNewItemsOnly'
  <2>1. new.recovered <= new.total + Cardinality(Since(new))
    BY <1>3, <1>4, <1>5
  <2>. QED
    BY <1>1, <2>1 DEF RateIsOffByNewItemsOnly, Since
<1>7. LostIn(lost', new.of) \subseteq S \cup Since(new)
  BY <1>1, <1>4 DEF S
<1>. QED
  BY <1>1, <1>2, <1>4, <1>6, <1>7 DEF RateInv

\* CountRecovered keeps the invariant.
LEMMA CountRecoveredInv ==
    ASSUME RateInv, CountRecovered
    PROVE  RateInv'
<1> DEFINE n == IF rate.total = 0 THEN 0 ELSE Cardinality(RecoveredOf(rate.of))
           new == [rate EXCEPT !.op = "idle", !.recovered = n]
<1>1. rate' = new /\ UNCHANGED lost /\ rate.op = "counting"
  BY DEF CountRecovered
<1>2. RecoveredOf(rate.of) \in SUBSET Reportable /\ RecoveredOf(rate.of) \subseteq LostIn(lost, rate.of)
  BY DEF RecoveredOf, LostOf, LostIn
<1>3. Cardinality(Reportable) \in Nat
  BY AdministrationAssumption, FS_CardinalityType
<1>4. n \in 0..Cardinality(Reportable) /\ n \in Nat /\ rate.total \in Nat
  BY <1>2, <1>3, SomeItems DEF RateInv, Rate
<1>5. /\ n <= rate.total + Cardinality(Since(rate)) /\ Since(rate) \in SUBSET Reportable
  <2>1. PICK S \in SUBSET Reportable : Cardinality(S) = rate.total /\ LostIn(lost, rate.of) \subseteq S \cup Since(rate)
    BY <1>1 DEF RateInv
  <2>2. Since(rate) \in SUBSET Reportable
    BY DEF Since, RateInv, Rate
  <2>3. IsFiniteSet(S) /\ IsFiniteSet(Since(rate)) /\ S \cup Since(rate) \in SUBSET Reportable
    BY <2>2, SomeItems
  <2>4. Cardinality(S \cup Since(rate)) = Cardinality(S) + Cardinality(Since(rate)) - Cardinality(S \cap Since(rate))
    BY <2>3, FS_Union
  <2>5. /\ Cardinality(RecoveredOf(rate.of)) <= Cardinality(S \cup Since(rate))
        /\ Cardinality(RecoveredOf(rate.of)) \in Nat /\ Cardinality(S \cup Since(rate)) \in Nat
        /\ Cardinality(S \cap Since(rate)) \in Nat /\ Cardinality(S) \in Nat /\ Cardinality(Since(rate)) \in Nat
    <3>1. RecoveredOf(rate.of) \in SUBSET (S \cup Since(rate)) /\ IsFiniteSet(S \cup Since(rate))
          /\ S \cap Since(rate) \in SUBSET Reportable
      BY <1>2, <2>1, <2>3, SomeItems
    <3>. QED
      BY <1>2, <2>2, <2>3, <3>1, SomeItems, FS_Subset
  <2>6. Cardinality(RecoveredOf(rate.of)) <= Cardinality(S) + Cardinality(Since(rate))
    BY <2>4, <2>5
  <2>7. n <= rate.total + Cardinality(Since(rate))
    BY <2>1, <2>5, <2>6
  <2>. QED
    BY <2>2, <2>7
<1> HIDE DEF n
<1>6. /\ new \in Rate /\ new.op = "idle" /\ new.of = rate.of /\ new.total = rate.total /\ new.recovered = n
      /\ new.since = rate.since
  BY <1>4 DEF RateInv, Rate
<1> HIDE DEF new
<1>7. RateIsOffByNewItemsOnly'
  <2>1. new.recovered <= new.total + Cardinality(Since(new))
    BY <1>5, <1>6 DEF Since
  <2>. QED
    BY <1>1, <2>1 DEF RateIsOffByNewItemsOnly, Since
<1>. QED
  BY <1>1, <1>6, <1>7 DEF RateInv

-----------------------------------------------------------------------------

AdminInv == AccountsInv /\ TenantsInv /\ RateInv

\* The invariant holds in every reachable state.
THEOREM AdminInvariant == AdminSpec => []AdminInv
<1>1. AdminInit => AdminInv
  <2>1. AdminInit => TenantsInv
    BY DEF AdminInit, TenantsInv, OfferedWasOpened, ListActiveUniversities
  <2>. QED
    BY <2>1, AccountsInitInv, RateInitInv DEF AdminInv
<1>2. ASSUME AdminInv, [AdminNext]_adminVars PROVE AdminInv'
  <2>1. AccountsInv /\ TenantsInv /\ RateInv
    BY <1>2 DEF AdminInv
  <2>2. UNCHANGED <<role, enabled, adminCall, changes, appointed>> => AccountsInv'
    BY <2>1 DEF AccountsInv, AdministratorsStay, DisabledAuthorityWasOvertaken, ChangedByOwnAdministrators
  <2>3. UNCHANGED <<tenant, opened>> => TenantsInv'
    BY <2>1 DEF TenantsInv, OfferedWasOpened, ListActiveUniversities
  <2>4. UNCHANGED <<lost, rate>> => RateInv'
    BY <2>1 DEF RateInv, RateIsOffByNewItemsOnly
  <2>5. ASSUME NEW c \in AdminCalls, NEW admin \in Members, NEW u \in Members,
               NEW op \in AccountOps, NEW to \in Targets(op), ReadUser(c, admin, u, op, to)
        PROVE  AdminInv'
    BY <2>1, <2>3, <2>4, <2>5, ReadUserInv DEF AdminInv, ReadUser
  <2>6. ASSUME NEW c \in AdminCalls, UpdateUserStatus(c) PROVE AdminInv'
    BY <2>1, <2>3, <2>4, <2>6, UpdateUserStatusInv DEF AdminInv, UpdateUserStatus
  <2>7. ASSUME NEW c \in AdminCalls, UpdateUserRole(c) PROVE AdminInv'
    BY <2>1, <2>3, <2>4, <2>7, UpdateUserRoleInv DEF AdminInv, UpdateUserRole
  <2>8. ASSUME NEW c \in AdminCalls, NEW admin \in Members, NEW slug \in NewSlugs, FindSlug(c, admin, slug)
        PROVE  AdminInv'
    BY <2>1, <2>3, <2>4, <2>8, FindSlugInv DEF AdminInv, FindSlug
  <2>9. ASSUME NEW c \in AdminCalls, CreateUniversity(c) PROVE AdminInv'
    BY <2>1, <2>4, <2>9, CreateUniversityInv DEF AdminInv, CreateUniversity
  <2>10. ASSUME NEW admin \in Members, NEW t \in tenant, NEW status \in TenantStatus,
                SetUniversityStatus(admin, t, status)
         PROVE  AdminInv'
    BY <2>1, <2>2, <2>4, <2>10, SetUniversityStatusInv DEF AdminInv, SetUniversityStatus
  <2>11. ASSUME NEW i \in Reportable, ReportLostItem(i) PROVE AdminInv'
    BY <2>1, <2>2, <2>3, <2>11, ReportLostItemInv DEF AdminInv, ReportLostItem
  <2>12. ASSUME NEW i \in Reportable, RecoverLostItem(i) PROVE AdminInv'
    BY <2>1, <2>2, <2>3, <2>12, RecoverLostItemInv DEF AdminInv, RecoverLostItem
  <2>13. ASSUME NEW admin \in Members, CountLost(admin) PROVE AdminInv'
    BY <2>1, <2>2, <2>3, <2>13, CountLostInv DEF AdminInv, CountLost
  <2>14. CASE CountRecovered
    BY <2>1, <2>2, <2>3, <2>14, CountRecoveredInv DEF AdminInv, CountRecovered
  <2>15. CASE AccountSteps
    BY <2>5, <2>6, <2>7, <2>15 DEF AccountSteps, AccountOps
  <2>16. CASE UniversitySteps
    BY <2>8, <2>9, <2>10, <2>16 DEF UniversitySteps
  <2>17. CASE RecoverySteps
    BY <2>11, <2>12, <2>13, <2>14, <2>17 DEF RecoverySteps
  <2>18. CASE UNCHANGED adminVars
    BY <2>2, <2>3, <2>4, <2>18 DEF adminVars, AdminInv
  <2>. QED
    BY <1>2, <2>15, <2>16, <2>17, <2>18 DEF AdminNext
<1>. QED
  BY <1>1, <1>2, PTL DEF AdminSpec

\* Administrators stay what they were provisioned as, whoever asks for what at once; a disabled
\* user is appointed, a university offered and a rate above 1 only as the races allow.
THEOREM AdministrationKeepsItsRules == AdminSpec => []AdministrationIsOrderly
<1>1. AdminInv => AdministrationIsOrderly
  BY DEF AdminInv, AccountsInv, TenantsInv, RateInv, AdministrationIsOrderly
<1>. QED
  BY <1>1, AdminInvariant, PTL

\* Accounts, universities and items keep their shape.
THEOREM AdminTypes == AdminSpec => []AdminTypeOK
<1>1. ASSUME AdminInv PROVE AdminTypeOK
  <2>1. \A c \in AdminCalls : adminCall[c].op \in {"idle", "status", "role", "authority", "onboard"}
    BY <1>1 DEF AdminInv, AccountsInv, Call, AccountOps
  <2>. QED
    BY <1>1, <2>1 DEF AdminInv, AccountsInv, TenantsInv, RateInv, Rate, AdminTypeOK
<1>. QED
  BY <1>1, AdminInvariant, PTL

-----------------------------------------------------------------------------
(* The suite, MCItems *)

\* However the suite interleaves its components, each does only what it does alone: what is proved of
\* a component holds in the suite.
THEOREM SuiteIsOfItsComponents == SuiteSpec => Spec /\ ReportSpec /\ AdminSpec
<1>1. SuiteInit => Init /\ ReportInit /\ AdminInit
  BY DEF SuiteInit
<1>2. ASSUME [SuiteNext]_SuiteVars
      PROVE  /\ [Next]_vars
             /\ [ReportNext]_reportVars
             /\ [AdminNext]_adminVars
  <2>1. CASE SuiteNext
    <3>1. FormFocus \/ ImagesFocus \/ ReadingFocus => ReportNext
      BY DEF ReportNext, OtherSteps, FormFocus, ImagesFocus, ReadingFocus
    <3>2. AccountSteps \/ UniversitySteps \/ RecoverySteps => AdminNext
      BY DEF AdminNext
    <3>3. PhotosFocus => Next
      BY DEF PhotosFocus, Next, RequestNext
    <3>. QED
      BY <2>1, <3>1, <3>2, <3>3 DEF SuiteNext
  <2>2. CASE UNCHANGED SuiteVars
    BY <2>2 DEF SuiteVars
  <2>. QED
    BY <1>2, <2>1, <2>2
<1>. QED
  BY <1>1, <1>2, PTL DEF SuiteSpec, Spec, ReportSpec, AdminSpec

\* Every component of the suite keeps its shape.
THEOREM SuiteTypes == SuiteSpec => []SuiteTypeOK
  BY SuiteIsOfItsComponents, MatchingTypes, ReportTypes, AdminTypes, PTL DEF SuiteTypeOK

=============================================================================
