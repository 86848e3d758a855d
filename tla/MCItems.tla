------------------------------ MODULE MCItems ------------------------------
(***************************************************************************)
(* Items from the form to the match, and what administrators do with users *)
(* and universities, for TLC.  Each keeps the items it needs in variables  *)
(* of its own, so a behaviour is of one of them: the one in focus moves    *)
(* and the others stay where they start.  Workers, submissions and calls   *)
(* of administrators are a1 and a2, uploads are b1 and b2: a symmetry serves  *)
(***************************************************************************)
EXTENDS Matching, ReportFlow, Administration, TLC

CONSTANTS a1, a2, b1, b2, h1, h2, h3, h4, s1, s2, s3

VARIABLE focus

\* A lost and a found item belong together once the one is edited or the other's photo is read.
StrongOnceDescribed ==
    {s \in LostItems \X Content \X FoundItems \X Content : s[2].text = 2 \/ s[4].photos # {}}

\* Two users in each of two universities.
MemberHomes == h1 :> "a" @@ h2 :> "a" @@ h3 :> "b" @@ h4 :> "b"
Provisioned == h1 :> "UNIVERSITY_ADMIN" @@ h2 :> "STUDENT" @@ h3 :> "STUDENT" @@ h4 :> "PLATFORM_SUPER_ADMIN"

\* Two items of one university and one of the other.
Reporters == s1 :> h2 @@ s2 :> h2 @@ s3 :> h3

\* Photos come while their item is edited or matched, but is neither moved nor claimed.
PhotosFocus ==
    \/ \E i \in Items : \/ Create(i) \/ Edit(i)
                       \/ \E p \in Photos : StorePhoto(i, p) \/ EnqueuePhoto(i, p)
    \/ WorkerNext

\* The form is submitted twice, one image gets stored, and who submitted a form
\* opens no form of the other kind.
FormFocus ==
    /\ FormSteps \/ UploadSteps
    /\ Cardinality(objects') <= 1
    /\ form'.page = "form" =>
          \A s \in Submissions : submission'[s].pc # "none" => submission'[s].kind = form'.kind

\* Images of one item are uploaded at once.
ImagesFocus ==
    \/ \E k \in Kinds : PostItem(k)
    \/ \E u \in Uploads, i \in 1..MaxItems : i = 1 /\ StartUpload(u, i)
    \/ UploadSteps

\* A list is read page by page while items are posted.
ReadingFocus == ReadPage \/ \E k \in Kinds : PostItem(k)

SuiteInit ==
    /\ focus \in {"matching", "photos", "form", "images", "reading", "accounts", "universities", "recovery"}
    /\ Init /\ ReportInit /\ AdminInit

SuiteNext ==
    /\ UNCHANGED focus
    /\ \/ focus = "matching" /\ Next /\ UNCHANGED <<photo, reportVars, adminVars>>
       \/ focus = "photos" /\ PhotosFocus /\ UNCHANGED <<reportVars, adminVars>>
       \/ focus = "form" /\ FormFocus /\ UNCHANGED <<vars, adminVars>>
       \/ focus = "images" /\ ImagesFocus /\ UNCHANGED <<vars, adminVars>>
       \/ focus = "reading" /\ ReadingFocus /\ UNCHANGED <<vars, adminVars>>
       \/ focus = "accounts" /\ AccountSteps /\ UNCHANGED <<vars, reportVars>>
       \/ focus = "universities" /\ UniversitySteps /\ UNCHANGED <<vars, reportVars>>
       \/ focus = "recovery" /\ RecoverySteps /\ UNCHANGED <<vars, reportVars>>

SuiteVars == <<focus, vars, reportVars, adminVars>>

SuiteSpec == SuiteInit /\ [][SuiteNext]_SuiteVars

Symmetry == Permutations({a1, a2}) \cup Permutations({b1, b2})

\* Every component keeps its rows, requests and pages in shape, in whatever order
\* the steps of concurrent requests come.
SuiteTypeOK == TypeOK /\ ReportTypeOK /\ AdminTypeOK
=============================================================================
