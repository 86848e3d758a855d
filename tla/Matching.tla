----------------------------- MODULE Matching -----------------------------
(***************************************************************************)
(* Background matching of lost and found items: items/, the queue of       *)
(* matching/matching.producer.ts and the worker of matching.service.ts.    *)
(*                                                                         *)
(* A request commits the item and then adds a job; the job names the item  *)
(* and its revision.  A worker checks the revision, embeds the photos that *)
(* are not and keeps the text it reads in them, reads the candidates, and  *)
(* for each of them reads both items, scores them, creates the match row   *)
(* if there is none and notifies both students.  Each await is a step, and *)
(* any step may fail: BullMQ runs a job at most MaxAttempts times.         *)
(*                                                                         *)
(* All items are of one university, category and date window, and whether  *)
(* two of them score more than WEAK is Strong: of their text, which an     *)
(* edit changes, and of the photos whose text was read, which come without *)
(* a new revision.  A photo without text is left out: its vector is of a   *)
(* type the database client does not read, and adds nothing to a score.    *)
(***************************************************************************)
EXTENDS Naturals, FiniteSets

CONSTANTS
    LostItems,
    FoundItems,
    MaxRevision,    \* bound on the revisions of an item
    Photos,         \* photos of an item
    Photographed,   \* bound: items that get photos
    Claimable,      \* bound: items that stop being ACTIVE
    Flaky,          \* bound: items whose jobs may fail
    Strong,         \* pairs of item contents that do not score WEAK
    CandidateLimit, \* how many candidates a query takes
    MaxAttempts,    \* attempts of a job
    Workers,
    None

Items == LostItems \cup FoundItems

VARIABLES
    item,         \* LostItem and FoundItem rows; revision 0 is no row
    photo,        \* ItemImage rows: stored, embedded, or embedded and their text kept
    jobs,         \* every job of the queue, and what it knew its item to say
    worker,       \* what each worker is doing
    matches,      \* ItemMatch rows
    notifications \* how often a student was notified of a match

vars == <<item, photo, jobs, worker, matches, notifications>>

-----------------------------------------------------------------------------

Revision == 1..MaxRevision

\* matchingJobId; the job of a photo has an id of its own.
Job == [item: Items, revision: Revision, photo: Photos \cup {None}]

\* What an item says: its text and the photos whose text was read.
Content == [text: Revision, photos: SUBSET Photos]

\* The unique columns of ItemMatch.
MatchKey == [lost: LostItems, found: FoundItems, lostRevision: Revision, foundRevision: Revision]

\* A row with the contents that were scored for it.
Match == [key: MatchKey, lostContent: Content, foundContent: Content, notifiedAt: BOOLEAN]

Candidate == [item: Items, revision: Revision]

Worker == [pc: {"idle", "photos", "embed", "ocr", "score", "notify_lost", "notify_found", "mark"},
           job: Job \cup {None}, unread: SUBSET Photos, photo: Photos \cup {None},
           todo: SUBSET Candidate, key: MatchKey \cup {None}]

ASSUME MatchingAssumption ==
    /\ MaxRevision \in Nat \ {0}
    /\ CandidateLimit \in Nat \ {0}
    /\ MaxAttempts \in Nat \ {0}
    /\ LostItems \cap FoundItems = {}
    /\ None \notin Items \cup Photos \cup Job \cup MatchKey
    /\ IsFiniteSet(Items)
    /\ Claimable \subseteq Items
    /\ Flaky \subseteq Items
    /\ Photographed \subseteq Items

Idle == [pc |-> "idle", job |-> None, unread |-> {}, photo |-> None, todo |-> {}, key |-> None]

Keys == {m.key : m \in matches}

\* The photos of item i whose text was kept.
Says(i) == {p \in Photos : photo[<<i, p>>] = "read"}

\* What is scored of item i.
Now(i) == [text |-> item[i].content, photos |-> Says(i)]

Init ==
    /\ item = [i \in Items |-> [revision |-> 0, content |-> 0, active |-> FALSE]]
    /\ photo = [x \in Items \X Photos |-> "none"]
    /\ jobs = [j \in Job |-> [state |-> "absent", attempts |-> 0, knew |-> {}]]
    /\ worker = [w \in Workers |-> Idle]
    /\ matches = {}
    /\ notifications = [n \in MatchKey \X {"lost", "found"} |-> 0]

\* The job of a photo, or of the item itself (None).
JobFor(i, n, x) == [item |-> i, revision |-> n, photo |-> x]

-----------------------------------------------------------------------------
(* Requests *)

\* The job of a committed row is added, unless the process dies or Redis refuses
\* it.  BullMQ ignores a job whose id it has.  A job that is added late is like
\* one that waits.
Enqueue(j) ==
    \/ jobs' = [jobs EXCEPT ![j].state = IF @ = "absent" THEN "waiting" ELSE @]
    \/ UNCHANGED jobs

Create(i) ==
    /\ item[i].revision = 0
    /\ item' = [item EXCEPT ![i] = [revision |-> 1, content |-> 1, active |-> TRUE]]
    /\ Enqueue(JobFor(i, 1, None))
    /\ UNCHANGED <<photo, worker, matches, notifications>>

\* Only lost items can be edited.
Edit(i) ==
    /\ i \in LostItems
    /\ item[i].revision \in 1..(MaxRevision - 1)
    /\ item' = [item EXCEPT ![i].revision = @ + 1, ![i].content = @ + 1]
    /\ Enqueue(JobFor(i, item[i].revision + 1, None))
    /\ UNCHANGED <<photo, worker, matches, notifications>>

\* The custody of a found item is not part of what is scored, and no job is added.
UpdateCustody(i) ==
    /\ i \in FoundItems
    /\ item[i].revision \in 1..(MaxRevision - 1)
    /\ item' = [item EXCEPT ![i].revision = @ + 1]
    /\ UNCHANGED <<photo, jobs, worker, matches, notifications>>

\* An upload creates the row of its photo; the item keeps its revision.
StorePhoto(i, p) ==
    /\ i \in Photographed
    /\ item[i].revision > 0
    /\ photo[<<i, p>>] = "none"
    /\ photo' = [photo EXCEPT ![<<i, p>>] = "stored"]
    /\ UNCHANGED <<item, jobs, worker, matches, notifications>>

\* The same request then reads the item's revision and adds a job of the photo's own,
\* unless the process dies first or Redis refuses it.
EnqueuePhoto(i, p) ==
    /\ photo[<<i, p>>] # "none"
    /\ \A n \in Revision : jobs[JobFor(i, n, p)].state = "absent"
    /\ jobs' = [jobs EXCEPT ![JobFor(i, item[i].revision, p)].state = "waiting"]
    /\ UNCHANGED <<item, photo, worker, matches, notifications>>

\* A claim is approved: the item is ACTIVE no more.
ItemClaimed(i) ==
    /\ i \in Claimable
    /\ item[i].active
    /\ item' = [item EXCEPT ![i].active = FALSE]
    /\ UNCHANGED <<photo, jobs, worker, matches, notifications>>

-----------------------------------------------------------------------------
(* The worker *)

\* A job of another revision than the item's is skipped.
TakeJob(w, j) ==
    /\ worker[w].pc = "idle"
    /\ jobs[j].state = "waiting"
    /\ \/ /\ item[j.item].revision # j.revision
          /\ jobs' = [jobs EXCEPT ![j].state = "completed"]
          /\ UNCHANGED worker
       \/ /\ item[j.item].revision = j.revision
          /\ jobs' = [jobs EXCEPT ![j].state = "active"]
          /\ worker' = [worker EXCEPT ![w].pc = "photos", ![w].job = j]
    /\ UNCHANGED <<item, photo, matches, notifications>>

\* The photos that are not embedded are listed: one that was embedded by an attempt
\* that then failed is not among them, whether its text was kept or not.
ListPhotos(w) ==
    /\ worker[w].pc = "photos"
    /\ worker' = [worker EXCEPT ![w].pc = "embed",
                                ![w].unread = {p \in Photos : photo[<<worker[w].job.item, p>>] = "stored"}]
    /\ UNCHANGED <<item, photo, jobs, matches, notifications>>

\* The embedding is inserted, unless another worker did so since the list was read.
EmbedPhoto(w, p) ==
    /\ worker[w].pc = "embed"
    /\ p \in worker[w].unread
    /\ photo' = [photo EXCEPT ![<<worker[w].job.item, p>>] = IF @ = "stored" THEN "embedded" ELSE @]
    /\ worker' = [worker EXCEPT ![w].pc = "ocr", ![w].photo = p]
    /\ UNCHANGED <<item, jobs, matches, notifications>>

\* The text read in the photo is kept, in a write of its own.
ReadPhoto(w) ==
    /\ worker[w].pc = "ocr"
    /\ photo' = [photo EXCEPT ![<<worker[w].job.item, worker[w].photo>>] = "read"]
    /\ worker' = [worker EXCEPT ![w].pc = "embed", ![w].unread = @ \ {worker[w].photo}, ![w].photo = None]
    /\ UNCHANGED <<item, jobs, matches, notifications>>

OtherKind(i) == IF i \in LostItems THEN FoundItems ELSE LostItems

\* Variant: items the job's item was matched with before are left out.
Bug_Candidates(i) ==
    {[item |-> c, revision |-> item[c].revision] :
        c \in {c \in OtherKind(i) : item[c].active
                  /\ \A m \in matches : {m.key.lost, m.key.found} # {i, c}}}

Candidates(i) ==
    {[item |-> c, revision |-> item[c].revision] : c \in {c \in OtherKind(i) : item[c].active}}

FindCandidates(w) ==
    /\ worker[w].pc = "embed"
    /\ worker[w].unread = {}
    /\ \E todo \in SUBSET Candidates(worker[w].job.item) :
          /\ \/ todo = Candidates(worker[w].job.item)
             \/ Cardinality(todo) = CandidateLimit
          /\ Cardinality(todo) <= CandidateLimit
          /\ worker' = [worker EXCEPT ![w].pc = "score", ![w].todo = todo]
    /\ jobs' = [jobs EXCEPT ![worker[w].job].knew = Says(worker[w].job.item)]
    /\ UNCHANGED <<item, photo, matches, notifications>>

\* The match row a candidate of a job gets, as both items are now.
Scored(j, c) ==
    LET lost  == IF j.item \in LostItems THEN j ELSE c
        found == IF j.item \in LostItems THEN c ELSE j
    IN  [key |-> [lost |-> lost.item, found |-> found.item,
                  lostRevision |-> lost.revision, foundRevision |-> found.revision],
         lostContent  |-> Now(lost.item),
         foundContent |-> Now(found.item),
         notifiedAt   |-> FALSE]

IsStrong(m) == <<m.key.lost, m.lostContent, m.key.found, m.foundContent>> \in Strong

\* A worker has scored candidate c: m, unless it is weak or was notified, is next to notify.
Notifies(w, c, m) ==
    worker' = [worker EXCEPT ![w] =
        IF IsStrong(m) /\ ~(\E n \in matches : n.key = m.key /\ n.notifiedAt)
        THEN [worker[w] EXCEPT !.pc = "notify_lost", !.todo = @ \ {c}, !.key = m.key]
        ELSE [worker[w] EXCEPT !.todo = @ \ {c}]]

\* Variant: the row is created as notified.
Bug_ScoreCandidate(w) ==
    /\ worker[w].pc = "score"
    /\ \E c \in worker[w].todo :
          LET m == Scored(worker[w].job, c)
          IN  /\ matches' = IF ~IsStrong(m) \/ m.key \in Keys THEN matches
                            ELSE matches \cup {[m EXCEPT !.notifiedAt = TRUE]}
              /\ Notifies(w, c, m)
    /\ UNCHANGED <<item, photo, jobs, notifications>>

\* Both items are read and scored; a weak score leaves no trace, and the upsert
\* leaves an existing row as it is.  What others do between the reads and the
\* upsert could as well come after it.
ScoreCandidate(w) ==
    /\ worker[w].pc = "score"
    /\ \E c \in worker[w].todo :
          LET m == Scored(worker[w].job, c)
          IN  /\ matches' = IF ~IsStrong(m) \/ m.key \in Keys THEN matches ELSE matches \cup {m}
              /\ Notifies(w, c, m)
    /\ UNCHANGED <<item, photo, jobs, notifications>>

NoMoreCandidates(w) ==
    /\ worker[w].pc = "score"
    /\ worker[w].todo = {}
    /\ jobs' = [jobs EXCEPT ![worker[w].job].state = "completed"]
    /\ worker' = [worker EXCEPT ![w] = Idle]
    /\ UNCHANGED <<item, photo, matches, notifications>>

\* A second notification with the same dedupeKey violates a constraint and is dropped.
CreateDeduped(k, side) ==
    notifications' = [notifications EXCEPT ![<<k, side>>] = IF @ = 0 THEN 1 ELSE @]

NotifyLost(w) ==
    /\ worker[w].pc = "notify_lost"
    /\ CreateDeduped(worker[w].key, "lost")
    /\ worker' = [worker EXCEPT ![w].pc = "notify_found"]
    /\ UNCHANGED <<item, photo, jobs, matches>>

NotifyFound(w) ==
    /\ worker[w].pc = "notify_found"
    /\ CreateDeduped(worker[w].key, "found")
    /\ worker' = [worker EXCEPT ![w].pc = "mark"]
    /\ UNCHANGED <<item, photo, jobs, matches>>

MarkNotified(w) ==
    LET k == worker[w].key
    IN  /\ worker[w].pc = "mark"
        /\ matches' = {IF m.key = k THEN [m EXCEPT !.notifiedAt = TRUE] ELSE m : m \in matches}
        /\ worker' = [worker EXCEPT ![w].pc = "score", ![w].key = None]
        /\ UNCHANGED <<item, photo, jobs, notifications>>

\* Variant: one attempt too many.
Bug_Retried(j) == jobs[j].attempts <= MaxAttempts

\* Whether a job is run again after another failed attempt.
Retried(j) == jobs[j].attempts + 1 < MaxAttempts

\* An await rejects or the worker dies.
JobFail(w) ==
    LET j == worker[w].job
    IN  /\ worker[w].pc # "idle"
        /\ j.item \in Flaky
        /\ jobs' = [jobs EXCEPT ![j].state = IF Retried(j) THEN "waiting" ELSE "failed",
                                ![j].attempts = @ + 1]
        /\ worker' = [worker EXCEPT ![w] = Idle]
        /\ UNCHANGED <<item, photo, matches, notifications>>

-----------------------------------------------------------------------------

RequestNext ==
    \E i \in Items :
        \/ Create(i)
        \/ Edit(i)
        \/ UpdateCustody(i)
        \/ ItemClaimed(i)
        \/ \E p \in Photos : StorePhoto(i, p) \/ EnqueuePhoto(i, p)

WorkerNext ==
    \E w \in Workers :
        \/ \E j \in Job : TakeJob(w, j)
        \/ ListPhotos(w)
        \/ \E p \in Photos : EmbedPhoto(w, p)
        \/ ReadPhoto(w)
        \/ FindCandidates(w)
        \/ ScoreCandidate(w)
        \/ NoMoreCandidates(w)
        \/ NotifyLost(w)
        \/ NotifyFound(w)
        \/ MarkNotified(w)
        \/ JobFail(w)

Next == RequestNext \/ WorkerNext

Spec == Init /\ [][Next]_vars

-----------------------------------------------------------------------------
(* Properties *)

\* Rows, jobs and workers keep their shape, a job is active exactly while a
\* worker has it, and no job is attempted more than MaxAttempts times.
TypeOK ==
    /\ item \in [Items -> [revision: 0..MaxRevision, content: 0..MaxRevision, active: BOOLEAN]]
    /\ photo \in [Items \X Photos -> {"none", "stored", "embedded", "read"}]
    /\ jobs \in [Job -> [state: {"absent", "waiting", "active", "completed", "failed"},
                         attempts: 0..MaxAttempts, knew: SUBSET Photos]]
    /\ \A j \in Job : jobs[j].state = "active" <=> \E w \in Workers : worker[w].job = j
    /\ worker \in [Workers -> Worker]
    /\ matches \subseteq Match
    /\ \A m, n \in matches : m.key = n.key => m = n

\* Two ACTIVE items whose current revisions were both processed, by jobs that knew
\* all that was read in their photos, have been compared as they now are: unless
\* they score WEAK there is a match of exactly these revisions.  Edits, uploads,
\* retries and other workers in between lose no pair.
ProcessedPairIsMatched ==
    \A l \in LostItems, f \in FoundItems :
        LET processed(i) ==
                /\ item[i].revision > 0
                /\ \E x \in Photos \cup {None} :
                      LET j == JobFor(i, item[i].revision, x)
                      IN  jobs[j].state = "completed" /\ jobs[j].knew = Says(i)
        IN  /\ processed(l) /\ processed(f)
            /\ item[l].active /\ item[f].active
            /\ <<l, Now(l), f, Now(f)>> \in Strong
            => \E k \in Keys : /\ k.lost = l /\ k.lostRevision = item[l].revision
                               /\ k.found = f /\ k.foundRevision = item[f].revision

\* A match of two current revisions was scored from the text the items now have: a
\* worker that reads an item after it was edited files the score under a revision
\* that is no longer current.  It was scored from photos that are still there, and
\* not from those that were read after the row was created: these bring no new
\* revision, and the upsert leaves the row its score.
CurrentMatchIsOfCurrentText ==
    \A m \in matches :
        /\ m.key.lostRevision = item[m.key.lost].revision
        /\ m.key.foundRevision = item[m.key.found].revision
        => /\ m.lostContent.text = item[m.key.lost].content
           /\ m.foundContent.text = item[m.key.found].content
           /\ m.lostContent.photos \subseteq Says(m.key.lost)
           /\ m.foundContent.photos \subseteq Says(m.key.found)

\* No photo is left embedded and unread but by an attempt that ended between the two
\* writes: no later attempt reads it.
EmbeddedPhotoIsRead ==
    \A i \in Items, p \in Photos :
        photo[<<i, p>>] = "embedded" =>
            \/ \E w \in Workers : worker[w].pc = "ocr" /\ worker[w].photo = p /\ worker[w].job.item = i
            \/ \E j \in Job : j.item = i /\ jobs[j].attempts > 0

\* When the jobs of two items are done their match is there, of the items' current text,
\* and what their photos say was read (matching.service.ts).
MatchesFollowTheItems ==
    /\ ProcessedPairIsMatched
    /\ CurrentMatchIsOfCurrentText
    /\ EmbeddedPhotoIsRead

\* A student is notified of a match at most once, although two jobs may find
\* the same pair at the same time and a failed attempt starts over; and a match
\* is marked as notified only when both students are.
NotifiedOnce ==
    /\ \A n \in DOMAIN notifications : notifications[n] <= 1
    /\ \A m \in matches :
          m.notifiedAt => notifications[<<m.key, "lost">>] = 1 /\ notifications[<<m.key, "found">>] = 1

=============================================================================
