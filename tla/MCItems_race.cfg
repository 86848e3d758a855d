\* Two workers match two items that change meanwhile: the lost item is edited, the
\* found item is moved, photographed and claimed, and its jobs may fail.  Two submissions
\* and two uploads of one image; two administrators in each other's way.
CONSTANTS
    a1 = a1
    a2 = a2
    b1 = b1
    b2 = b2
    h1 = h1
    h2 = h2
    h3 = h3
    h4 = h4
    s1 = s1
    s2 = s2
    s3 = s3
    LostItems = {l1}
    FoundItems = {f1}
    MaxRevision = 2
    Photos = {p1}
    Photographed = {f1}
    Claimable = {f1}
    Flaky = {f1}
    Strong <- StrongOnceDescribed
    CandidateLimit = 1
    MaxAttempts = 2
    Workers = {a1, a2}
    None = None
    Submissions = {a1, a2}
    Uploads = {b1, b2}
    MaxImages = 1
    MaxItems = 2
    MaxMounts = 2
    MaxObjects = 3
    PageSize = 1
    Members = {h1, h2, h3, h4}
    HomeOf <- MemberHomes
    FirstRole <- Provisioned
    AdminCalls = {a1, a2}
    NewSlugs = {"s"}
    Reportable = {s1, s2, s3}
    ReporterOf <- Reporters
    NoOneYet = NoOneYet
SPECIFICATION SuiteSpec
SYMMETRY Symmetry
INVARIANTS
    SuiteTypeOK
    MatchesFollowTheItems
    NotifiedOnce
    ReportsAreWhole
    AdministrationIsOrderly
\* The system stops when nothing is left to edit and every job was run.
CHECK_DEADLOCK FALSE
