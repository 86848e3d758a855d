----------------------------- MODULE ReportFlow -----------------------------
(***************************************************************************)
(* Reporting a lost or a found item, from the form to the database:        *)
(* apps/web/components/items/report-lost-flow.tsx and                      *)
(* report-found-flow.tsx, apps/api/src/items and apps/api/src/storage.     *)
(*                                                                         *)
(* One tab shows one form at a time.  Publishing posts the item and then   *)
(* uploads its photo; the server creates the row, adds a matching job,     *)
(* and for a photo counts the images, stores the object, creates the row   *)
(* and adds another job, each on its own.  Any of them may fail, the       *)
(* answer may be lost, and the user may leave the form meanwhile.  Images  *)
(* may also be added to an item by calls to the API.                       *)
(***************************************************************************)
EXTENDS Naturals, Sequences, FiniteSets

CONSTANTS
    Submissions,   \* slots for submissions under way
    Uploads,       \* slots for uploads under way
    MaxImages,     \* MAX_IMAGES_PER_ITEM
    MaxItems,      \* bound on the items ever created
    MaxMounts,     \* bound on how often a form is opened
    MaxObjects,    \* bound on the objects ever stored
    PageSize       \* items to a page of search results

ASSUME ReportFlowAssumption ==
    /\ MaxImages \in Nat \ {0} /\ MaxItems \in Nat /\ MaxMounts \in Nat /\ MaxObjects \in Nat
    /\ PageSize \in Nat \ {0} /\ IsFiniteSet(Uploads)

VARIABLES
    form,       \* the tab: the page it shows and the form's state
    submission, \* submissions under way
    items,      \* rows of lost_items and found_items in the order of createdAt
    upload,     \* uploads under way
    objects,    \* objects in the bucket
    images,     \* rows of item_images
    scoring,    \* matching jobs added, by what they were added for
    reader,     \* a walk through the pages of search results
    errors,     \* history: forms that told their user of an error
    cut         \* history: uploads that died after their row was written

reportVars == <<form, submission, items, upload, objects, images, scoring, reader, errors, cut>>

-----------------------------------------------------------------------------
(* The form *)

Kinds == {"LOST", "FOUND"}

\* text is title and description, which every check takes together.  The fields
\* that nothing depends on are left out.
Fields == {"text", "photo", "category", "date"}

TotalSteps(kind) == IF kind = "LOST" THEN 5 ELSE 4

\* The step that shows a field.
StepOf(kind, field) ==
    CASE field \in {"text", "photo"} -> 1
      [] field = "category" -> IF kind = "LOST" THEN 2 ELSE 1
      [] field = "date" -> IF kind = "LOST" THEN 3 ELSE 2

\* INITIAL_STATE, and the mutation of a component just mounted.
Blank(kind, mount) ==
    [page |-> "form", kind |-> kind, step |-> 1, filled |-> {},
     status |-> "idle", mount |-> mount]

\* Another page, when so many forms have been opened.
Elsewhere(page, mount) == [Blank("LOST", mount) EXCEPT !.page = page]

NoSubmission == [pc |-> "none", mount |-> 0, kind |-> "LOST", filled |-> {},
                 item |-> 0, told |-> FALSE]

NoUpload == [pc |-> "none", item |-> 0, object |-> 0]

NoReader == [page |-> 0, seen |-> {}, due |-> {}]

ReportInit ==
    /\ form = Elsewhere("away", 0)
    /\ submission = [s \in Submissions |-> NoSubmission]
    /\ items = <<>>
    /\ upload = [u \in Uploads |-> NoUpload]
    /\ objects = {}
    /\ images = {}
    /\ scoring = {}
    /\ reader = NoReader
    /\ errors = {}
    /\ cut = {}

\* Opening /report/lost or /report/found mounts a form; mounts are numbered.
Open(kind) ==
    /\ form.page # "form" /\ form.mount < MaxMounts
    /\ form' = Blank(kind, form.mount + 1)
    /\ UNCHANGED <<submission, items, upload, objects, images, scoring, reader, errors, cut>>

\* goBack on the first step, or a link: the component and its state are gone,
\* what it asked of the server is not.
Leave ==
    /\ form.page # "away"
    /\ form' = Elsewhere("away", form.mount)
    /\ UNCHANGED <<submission, items, upload, objects, images, scoring, reader, errors, cut>>

\* A field of the step that is shown is filled in or cleared, also while a
\* submission is pending.
UpdateField(field) ==
    /\ form.page = "form"
    /\ StepOf(form.kind, field) = form.step
    /\ form' = [form EXCEPT !.filled = IF field \in @ THEN @ \ {field} ELSE @ \cup {field}]
    /\ UNCHANGED <<submission, items, upload, objects, images, scoring, reader, errors, cut>>

\* canGoNext of both forms
CanGoNext(f) ==
    /\ f.step = 1 => "text" \in f.filled
    /\ f.step = StepOf(f.kind, "category") => "category" \in f.filled

NextStep ==
    /\ form.page = "form" /\ form.step < TotalSteps(form.kind)
    /\ CanGoNext(form)
    /\ form' = [form EXCEPT !.step = @ + 1]
    /\ UNCHANGED <<submission, items, upload, objects, images, scoring, reader, errors, cut>>

HasPrevious == form.step > 1

PreviousStep ==
    /\ form.page = "form" /\ HasPrevious
    /\ form' = [form EXCEPT !.step = @ - 1]
    /\ UNCHANGED <<submission, items, upload, objects, images, scoring, reader, errors, cut>>

CanPublish ==
    form.page = "form" /\ form.step = TotalSteps(form.kind) /\ form.status # "pending"

\* submitMutation.mutate with the form as it is.
Publish(s) ==
    /\ submission[s] = NoSubmission
    /\ CanPublish
    /\ submission' = [submission EXCEPT ![s] =
          [pc |-> "create", mount |-> form.mount, kind |-> form.kind, filled |-> form.filled,
           item |-> 0, told |-> FALSE]]
    /\ form' = [form EXCEPT !.status = "pending"]
    /\ UNCHANGED <<items, upload, objects, images, scoring, reader, errors, cut>>

\* The tab after a submission's answer.  An error goes to the form that sent it,
\* if it is still there.  onSuccess goes to the router, wherever the user is.
Told(s, ok) ==
    IF ok THEN Elsewhere("success", form.mount)
    ELSE IF form.page = "form" /\ form.mount = submission[s].mount THEN [form EXCEPT !.status = "error"] ELSE form

ShowError(s) ==
    /\ form' = Told(s, FALSE)
    /\ errors' = errors \cup {submission[s].mount}

\* The connection fails, the server goes on with what it was asked.
LoseAnswer(s) ==
    /\ submission[s].pc \in {"create", "enqueue"}
    /\ ~submission[s].told
    /\ ShowError(s)
    /\ submission' = [submission EXCEPT ![s].told = TRUE]
    /\ UNCHANGED <<items, upload, objects, images, scoring, reader, cut>>

-----------------------------------------------------------------------------
(* LostItemsService.create and FoundItemsService.create *)

\* CreateLostItemDto and CreateFoundItemDto: the date is not optional.
DtoAccepted(filled) == {"text", "date"} \subseteq filled

RefuseItem(s) ==
    /\ submission[s].pc = "create"
    /\ ~DtoAccepted(submission[s].filled)
    /\ IF submission[s].told THEN UNCHANGED <<form, errors>> ELSE ShowError(s)
    /\ submission' = [submission EXCEPT ![s] = NoSubmission]
    /\ UNCHANGED <<items, upload, objects, images, scoring, reader, cut>>

CreateItem(s) ==
    /\ submission[s].pc = "create"
    /\ DtoAccepted(submission[s].filled)
    /\ Len(items) < MaxItems
    /\ items' = Append(items, [kind |-> submission[s].kind, described |-> submission[s].filled \cap {"text", "category"},
                               mount |-> submission[s].mount])
    /\ submission' = [submission EXCEPT ![s].pc = "enqueue", ![s].item = Len(items) + 1,
                                           ![s].filled = @ \cap {"photo"}]
    /\ UNCHANGED <<form, upload, objects, images, scoring, reader, errors, cut>>

\* A post of somebody else's, with its job.
PostItem(kind) ==
    /\ Len(items) < MaxItems
    /\ items' = Append(items, [kind |-> kind, described |-> {"text"}, mount |-> 0])
    /\ scoring' = scoring \cup {[item |-> Len(items) + 1, image |-> 0]}
    /\ UNCHANGED <<form, submission, upload, objects, images, reader, errors, cut>>

\* What follows the answer to the post: the upload, or nothing.
AfterPost(s) ==
    IF submission[s].told THEN NoSubmission
    ELSE IF "photo" \in submission[s].filled THEN [submission[s] EXCEPT !.pc = "upload"]
    ELSE NoSubmission

EnqueueItem(s) ==
    /\ submission[s].pc = "enqueue"
    /\ scoring' = scoring \cup {[item |-> submission[s].item, image |-> 0]}
    /\ submission' = [submission EXCEPT ![s] = AfterPost(s)]
    /\ form' = IF ~submission[s].told /\ "photo" \notin submission[s].filled
               THEN Told(s, TRUE) ELSE form
    /\ UNCHANGED <<items, upload, objects, images, reader, errors, cut>>

\* The queue is down, or the process dies: the row stays without a job.
EnqueueFails(s) ==
    /\ submission[s].pc = "enqueue"
    /\ IF submission[s].told THEN UNCHANGED <<form, errors>> ELSE ShowError(s)
    /\ submission' = [submission EXCEPT ![s] = NoSubmission]
    /\ UNCHANGED <<items, upload, objects, images, scoring, reader, cut>>

-----------------------------------------------------------------------------
(* ItemImagesController *)

ImagesOf(i) == {m \in images : m.item = i}

RoomForImage(i) == Cardinality(ImagesOf(i)) < MaxImages

\* A call to the API by the item's owner.
StartUpload(u, i) ==
    /\ upload[u] = NoUpload
    /\ i \in 1..Len(items)
    /\ RoomForImage(i)
    /\ upload' = [upload EXCEPT ![u] = [pc |-> "put", item |-> i, object |-> 0]]
    /\ UNCHANGED <<form, submission, items, objects, images, scoring, reader, errors, cut>>

\* The form's own upload; its item is new, and has room.
UploadPhoto(s, u) ==
    /\ submission[s].pc = "upload"
    /\ upload[u] = NoUpload
    /\ RoomForImage(submission[s].item)
    /\ upload' = [upload EXCEPT ![u] = [pc |-> "put", item |-> submission[s].item, object |-> 0]]
    /\ submission' = [submission EXCEPT ![s].pc = "uploading"]
    /\ UNCHANGED <<form, items, objects, images, scoring, reader, errors, cut>>

\* storage.putObject, under a key of its own.
StoreObject(k) == objects \cup {k}

PutObject(u) ==
    LET used == objects \cup {m.object : m \in images} \cup {upload[v].object : v \in Uploads}
        k == Cardinality(used \ {0}) + 1
    IN  /\ upload[u].pc = "put"
        /\ k <= MaxObjects
        /\ objects' = StoreObject(k)
        /\ upload' = [upload EXCEPT ![u].pc = "row", ![u].object = k]
        /\ UNCHANGED <<form, submission, items, images, scoring, reader, errors, cut>>

CreateImage(u) ==
    /\ upload[u].pc = "row"
    /\ images' = images \cup {[item |-> upload[u].item, object |-> upload[u].object]}
    /\ upload' = [upload EXCEPT ![u].pc = "rescore"]
    /\ UNCHANGED <<form, submission, items, objects, scoring, reader, errors, cut>>

\* Variant: the job has the usual identifier, which the item's first job holds.
Bug_RescoreJob(u) == [item |-> upload[u].item, image |-> 0]

\* forceUnique: a job although the item's revision has had one.
RescoreJob(u) == [item |-> upload[u].item, image |-> upload[u].object]

\* The submission whose photo is being uploaded, if any.
Waiting(u) == {s \in Submissions : submission[s].pc = "uploading" /\ submission[s].item = upload[u].item}

Rescore(u) ==
    /\ upload[u].pc = "rescore"
    /\ scoring' = scoring \cup {RescoreJob(u)}
    /\ upload' = [upload EXCEPT ![u] = NoUpload]
    /\ \/ /\ Waiting(u) = {}
          /\ UNCHANGED <<form, submission>>
       \/ \E s \in Waiting(u) :
             /\ form' = Told(s, TRUE)
             /\ submission' = [submission EXCEPT ![s] = NoSubmission]
    /\ UNCHANGED <<items, objects, images, reader, errors, cut>>

\* The file is no image, the storage or the queue is down, or the process dies.
UploadFails(u) ==
    /\ upload[u].pc # "none"
    /\ upload' = [upload EXCEPT ![u] = NoUpload]
    /\ cut' = IF upload[u].pc = "rescore" THEN cut \cup {upload[u].object} ELSE cut
    /\ \/ /\ Waiting(u) = {}
          /\ UNCHANGED <<form, submission, errors>>
       \/ \E s \in Waiting(u) :
             /\ ShowError(s)
             /\ submission' = [submission EXCEPT ![s] = NoSubmission]
    /\ UNCHANGED <<items, objects, images, scoring, reader>>

-----------------------------------------------------------------------------
(* LostItemsService.search and FoundItemsService.search *)

OfKind(kind) == {i \in 1..Len(items) : items[i].kind = kind}

Newer(kind, i) == {j \in OfKind(kind) : j > i}

\* orderBy createdAt desc, skip and take
SearchPage(kind, page) ==
    {i \in OfKind(kind) :
        Cardinality(Newer(kind, i)) \in (page - 1) * PageSize .. page * PageSize - 1}

\* The lost items, page after page until one is empty.
ReadPage ==
    /\ reader.page > 0 => SearchPage("LOST", reader.page) # {}
    /\ reader' = [page |-> reader.page + 1,
                  seen |-> reader.seen \cup SearchPage("LOST", reader.page + 1),
                  due |-> IF reader.page = 0 THEN OfKind("LOST") ELSE reader.due]
    /\ UNCHANGED <<form, submission, items, upload, objects, images, scoring, errors, cut>>

-----------------------------------------------------------------------------

FormSteps ==
    \/ \E kind \in Kinds : Open(kind)
    \/ Leave \/ NextStep \/ PreviousStep
    \/ \E field \in Fields : UpdateField(field)
    \/ \E s \in Submissions :
          \/ Publish(s) \/ LoseAnswer(s) \/ RefuseItem(s) \/ CreateItem(s)
          \/ EnqueueItem(s) \/ EnqueueFails(s)
          \/ \E u \in Uploads : UploadPhoto(s, u)

UploadSteps ==
    \E u \in Uploads :
        PutObject(u) \/ CreateImage(u) \/ Rescore(u) \/ UploadFails(u)

OtherSteps ==
    \/ \E kind \in Kinds : PostItem(kind)
    \/ \E u \in Uploads, i \in 1..MaxItems : StartUpload(u, i)
    \/ ReadPage

ReportNext == FormSteps \/ UploadSteps \/ OtherSteps

ReportSpec == ReportInit /\ [][ReportNext]_reportVars

-----------------------------------------------------------------------------
(* Properties *)

\* The form, the rows and what is under way keep their shape.
ReportTypeOK ==
    /\ form.page \in {"form", "away", "success"} /\ form.status \in {"idle", "pending", "error"}
    /\ form.step \in 1..TotalSteps(form.kind) /\ form.filled \subseteq Fields
    /\ \A s \in Submissions :
          /\ submission[s].pc \in {"none", "create", "enqueue", "upload", "uploading"}
          /\ submission[s].item \in 0..Len(items)
    /\ items \in Seq([kind: Kinds, described: SUBSET {"text", "category"}, mount: 0..MaxMounts])
    /\ upload \in [Uploads -> [pc: {"none", "put", "row", "rescore"}, item: 0..MaxItems,
                               object: 0..MaxObjects]]
    /\ images \subseteq [item: 1..MaxItems, object: 1..MaxObjects]
    /\ scoring \subseteq [item: 1..MaxItems, image: 0..MaxObjects]

\* Every item published by a form has a title, a description and a category, which the
\* server does not ask for, however the user went back and forth in the form and
\* changed it while it was being sent.
PublishedIsDescribed ==
    \A i \in 1..Len(items) :
        items[i].mount > 0 => {"text", "category"} \subseteq items[i].described

\* One form publishes two items only after telling its user of an error.
DuplicateFollowsAnError ==
    \A i, j \in 1..Len(items) :
        i # j /\ items[i].mount = items[j].mount /\ items[i].mount > 0 => items[i].mount \in errors

\* An image in the database has its object in the bucket, wherever an upload is
\* cut short.
ImageHasItsObject == \A m \in images : m.object \in objects

\* An item is over its limit by no more than the uploads that can overlap.
ImagesOverLimitByOverlap ==
    \A i \in 1..Len(items) : Cardinality(ImagesOf(i)) <= MaxImages + Cardinality(Uploads) - 1

\* Every image has a matching job of its own, unless its upload is still at it or
\* was cut short: the item's first job may have run without the image.
ImageIsScored ==
    \A m \in images :
        \/ [item |-> m.item, image |-> m.object] \in scoring
        \/ m.object \in cut
        \/ \E u \in Uploads : upload[u].object = m.object

\* Whoever reads the pages up to an empty one has seen every item that was there
\* at the start, although reports arrive between two pages.
PagesMissNothing ==
    reader.page > 0 /\ SearchPage("LOST", reader.page) = {} => reader.due \subseteq reader.seen

\* A report reaches the readers and the matcher once and complete, whatever fails or
\* overtakes on the way from the form to the rows (report-lost-flow.tsx,
\* report-found-flow.tsx, items/).
ReportsAreWhole ==
    /\ PublishedIsDescribed
    /\ DuplicateFollowsAnError
    /\ ImageHasItsObject
    /\ ImagesOverLimitByOverlap
    /\ ImageIsScored
    /\ PagesMissNothing

=============================================================================
