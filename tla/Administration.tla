--------------------------- MODULE Administration ---------------------------
(***************************************************************************)
(* What administrators do to accounts and universities:                    *)
(* apps/api/src/admin/admin.service.ts, apps/api/src/university and the    *)
(* guards under apps/api/src/common/guards.                                *)
(*                                                                         *)
(* A university administrator's request reads the account, checks it and   *)
(* updates it in two awaits, without a transaction, so that two requests   *)
(* about one account interleave.  A platform administrator's onboarding    *)
(* looks for the slug and then creates the university.  The recovery rate  *)
(* is two counts that run side by side.                                    *)
(***************************************************************************)
EXTENDS Naturals, FiniteSets

CONSTANTS
    Members,        \* users
    HomeOf,         \* the university each is in; no operation changes it
    FirstRole,      \* the role each was given when it was provisioned
    AdminCalls,     \* slots for requests in flight
    NewSlugs,       \* slugs a university may be onboarded under
    Reportable,     \* lost items anybody may report
    ReporterOf,     \* the owner of each
    NoOneYet

VARIABLES
    role,       \* users.role
    enabled,    \* users.isActive
    adminCall,  \* requests in flight
    tenant,     \* rows of universities: a slug and a status
    lost,       \* rows of lost_items: "none", "ACTIVE" or "RECOVERED"
    rate,       \* the last recovery rate reported, a pair of counts
    appointed,  \* history: appointments of campus authorities
    changes,    \* history: which administrator changed which account
    opened      \* history: slugs a platform administrator made ACTIVE

adminVars == <<role, enabled, adminCall, tenant, lost, rate, appointed, changes, opened>>

-----------------------------------------------------------------------------

Roles == {"STUDENT", "STAFF", "CAMPUS_AUTHORITY", "UNIVERSITY_ADMIN", "PLATFORM_SUPER_ADMIN"}

ASSUME AdministrationAssumption ==
    /\ DOMAIN HomeOf = Members
    /\ FirstRole \in [Members -> Roles]
    /\ ReporterOf \in [Reportable -> Members]
    /\ IsFiniteSet(Reportable)
    /\ NoOneYet \notin Members

Privileged == {"UNIVERSITY_ADMIN", "PLATFORM_SUPER_ADMIN"}

TenantStatus == {"ACTIVE", "SUSPENDED", "ONBOARDING"}

Homes == {HomeOf[u] : u \in Members}

NoCall == [op |-> "idle", admin |-> NoOneYet, user |-> NoOneYet, to |-> NoOneYet, overlapped |-> FALSE]

AdminInit ==
    /\ role = FirstRole
    /\ enabled = [u \in Members |-> TRUE]
    /\ adminCall = [c \in AdminCalls |-> NoCall]
    /\ tenant = {}
    /\ lost = [i \in Reportable |-> "none"]
    \* the university, the two counts, and the items reported between them
    /\ rate = [op |-> "idle", of |-> NoOneYet, total |-> 0, recovered |-> 0, since |-> {}]
    /\ appointed = {}
    /\ changes = {}
    /\ opened = {}

-----------------------------------------------------------------------------
(* Accounts *)

\* JwtStrategy reads the account anew, RolesGuard compares its role.
MayAct(u, roles) == enabled[u] /\ role[u] \in roles

\* getUniversityUser
IsUniversityUser(home, u) == HomeOf[u] = home

\* updateUserStatus
StatusMayChange(u) == role[u] \notin Privileged

\* updateUserRole
RoleMayChange(u, to) ==
    /\ role[u] \notin Privileged
    /\ to \notin Privileged
    /\ to = "CAMPUS_AUTHORITY" => enabled[u]

\* Variant: a disabled user may be given the role.
Bug_MayBeAuthority(u) == role[u] \notin Privileged

\* manageCampusAuthority
MayBeAuthority(u) == role[u] \notin Privileged /\ enabled[u]

\* What the body of a request may ask for.
Targets(op) ==
    CASE op = "status" -> {"ACTIVE", "DISABLED"}
      [] op = "role" -> Roles
      [] op = "authority" -> {"CAMPUS_AUTHORITY"}

\* A request up to its update: the account is read and checked.
ReadUser(c, admin, u, op, to) ==
    /\ adminCall[c] = NoCall
    /\ MayAct(admin, {"UNIVERSITY_ADMIN"})
    /\ IsUniversityUser(HomeOf[admin], u)
    /\ CASE op = "status" -> StatusMayChange(u)
         [] op = "role" -> RoleMayChange(u, to)
         [] op = "authority" -> MayBeAuthority(u)
    /\ adminCall' = [adminCall EXCEPT ![c] =
          [op |-> op, admin |-> admin, user |-> u, to |-> to, overlapped |-> FALSE]]
    /\ UNCHANGED <<role, enabled, tenant, lost, rate, appointed, changes, opened>>

\* Requests of others about the account that a status update overtakes.
Overtaken(c) ==
    [d \in AdminCalls |->
        IF d # c /\ adminCall[d].user = adminCall[c].user
        THEN [adminCall[d] EXCEPT !.overlapped = TRUE]
        ELSE adminCall[d]]

UpdateUserStatus(c) ==
    /\ adminCall[c].op = "status"
    /\ enabled' = [enabled EXCEPT ![adminCall[c].user] = adminCall[c].to = "ACTIVE"]
    /\ adminCall' = [Overtaken(c) EXCEPT ![c] = NoCall]
    /\ changes' = changes \cup {<<adminCall[c].admin, adminCall[c].user>>}
    /\ UNCHANGED <<role, tenant, lost, rate, appointed, opened>>

\* updateUserRole and manageCampusAuthority write the role alone.
UpdateUserRole(c) ==
    LET u == adminCall[c].user
        to == adminCall[c].to
    IN  /\ adminCall[c].op \in {"role", "authority"}
        /\ role' = [role EXCEPT ![u] = to]
        /\ adminCall' = [adminCall EXCEPT ![c] = NoCall]
        /\ changes' = changes \cup {<<adminCall[c].admin, u>>}
        /\ appointed' = IF to = "CAMPUS_AUTHORITY"
                        THEN appointed \cup {[enabled |-> enabled[u],
                                              overlapped |-> adminCall[c].overlapped]}
                        ELSE appointed
        /\ UNCHANGED <<enabled, tenant, lost, rate, opened>>

-----------------------------------------------------------------------------
(* Universities *)

\* onboardUniversity finds no university with the slug.
FindSlug(c, admin, slug) ==
    /\ adminCall[c] = NoCall
    /\ MayAct(admin, {"PLATFORM_SUPER_ADMIN"})
    /\ \A t \in tenant : t.slug # slug
    /\ adminCall' = [adminCall EXCEPT ![c] = [NoCall EXCEPT !.op = "onboard", !.admin = admin, !.to = slug]]
    /\ UNCHANGED <<role, enabled, tenant, lost, rate, appointed, changes, opened>>

NewTenant(slug) == [slug |-> slug, status |-> "ONBOARDING"]

\* Slugs are unique: the second of two requests fails here.
CreateUniversity(c) ==
    /\ adminCall[c].op = "onboard"
    /\ tenant' = IF \E t \in tenant : t.slug = adminCall[c].to
                 THEN tenant
                 ELSE tenant \cup {NewTenant(adminCall[c].to)}
    /\ adminCall' = [adminCall EXCEPT ![c] = NoCall]
    /\ UNCHANGED <<role, enabled, lost, rate, appointed, changes, opened>>

SetUniversityStatus(admin, t, status) ==
    /\ MayAct(admin, {"PLATFORM_SUPER_ADMIN"})
    /\ t \in tenant /\ t.status # status
    /\ tenant' = (tenant \ {t}) \cup {[t EXCEPT !.status = status]}
    /\ opened' = IF status = "ACTIVE" THEN opened \cup {t.slug} ELSE opened
    /\ UNCHANGED <<role, enabled, adminCall, lost, rate, appointed, changes>>

\* listActiveUniversities: what the registration form offers.
ListActiveUniversities == {t \in tenant : t.status = "ACTIVE"}

-----------------------------------------------------------------------------
(* Recovery rate *)

CampusOfItem(i) == HomeOf[ReporterOf[i]]

LostOf(home) == {i \in Reportable : lost[i] # "none" /\ CampusOfItem(i) = home}

RecoveredOf(home) == {i \in LostOf(home) : lost[i] = "RECOVERED"}

ReportLostItem(i) ==
    /\ lost[i] = "none"
    /\ lost' = [lost EXCEPT ![i] = "ACTIVE"]
    /\ rate' = IF rate.op = "counting" THEN [rate EXCEPT !.since = @ \cup {i}] ELSE rate
    /\ UNCHANGED <<role, enabled, adminCall, tenant, appointed, changes, opened>>

\* A completed claim (Claims).
RecoverLostItem(i) ==
    /\ lost[i] = "ACTIVE"
    /\ lost' = [lost EXCEPT ![i] = "RECOVERED"]
    /\ UNCHANGED <<role, enabled, adminCall, tenant, rate, appointed, changes, opened>>

\* The count of all lost items...
CountLost(admin) ==
    /\ rate.op = "idle"
    /\ MayAct(admin, {"UNIVERSITY_ADMIN"})
    /\ rate' = [op |-> "counting", of |-> HomeOf[admin],
                total |-> Cardinality(LostOf(HomeOf[admin])), recovered |-> 0, since |-> {}]
    /\ UNCHANGED <<role, enabled, adminCall, tenant, lost, appointed, changes, opened>>

\* ...and that of the recovered ones.  No lost item gives a rate of 0.
CountRecovered ==
    /\ rate.op = "counting"
    /\ rate' = [rate EXCEPT !.op = "idle",
                            !.recovered = IF rate.total = 0 THEN 0
                                          ELSE Cardinality(RecoveredOf(rate.of))]
    /\ UNCHANGED <<role, enabled, adminCall, tenant, lost, appointed, changes, opened>>

-----------------------------------------------------------------------------

AccountSteps ==
    \/ \E c \in AdminCalls, admin \in Members, u \in Members, op \in {"status", "role", "authority"} :
          \E to \in Targets(op) : ReadUser(c, admin, u, op, to)
    \/ \E c \in AdminCalls : UpdateUserStatus(c) \/ UpdateUserRole(c)

UniversitySteps ==
    \/ \E admin \in Members :
          \/ \E c \in AdminCalls, slug \in NewSlugs : FindSlug(c, admin, slug)
          \/ \E t \in tenant, status \in TenantStatus : SetUniversityStatus(admin, t, status)
    \/ \E c \in AdminCalls : CreateUniversity(c)

RecoverySteps ==
    \/ \E i \in Reportable : ReportLostItem(i) \/ RecoverLostItem(i)
    \/ \E admin \in Members : CountLost(admin)
    \/ CountRecovered

AdminNext == AccountSteps \/ UniversitySteps \/ RecoverySteps

AdminSpec == AdminInit /\ [][AdminNext]_adminVars

-----------------------------------------------------------------------------
(* Properties *)

\* Accounts, universities and items keep their shape, and a request that was
\* let through is one of the operations.
AdminTypeOK ==
    /\ role \in [Members -> Roles]
    /\ enabled \in [Members -> BOOLEAN]
    /\ \A c \in AdminCalls :
          adminCall[c].op \in {"idle", "status", "role", "authority", "onboard"}
    /\ tenant \subseteq [slug: NewSlugs, status: TenantStatus]
    /\ lost \in [Reportable -> {"none", "ACTIVE", "RECOVERED"}]
    /\ rate.total \in 0..Cardinality(Reportable) /\ rate.recovered \in 0..Cardinality(Reportable)
    /\ changes \subseteq Members \X Members
    /\ opened \subseteq NewSlugs

\* Administrators are those that were provisioned as such, and stay enabled,
\* however requests about one account interleave.
AdministratorsStay ==
    \A u \in Members :
        /\ role[u] \in Privileged \/ FirstRole[u] \in Privileged => role[u] = FirstRole[u]
        /\ role[u] \in Privileged => enabled[u]

\* A disabled user is made campus authority only by a request that a status
\* update overtook.
DisabledAuthorityWasOvertaken == \A a \in appointed : a.enabled \/ a.overlapped

\* An account is changed by administrators of its own university only.
ChangedByOwnAdministrators ==
    \A admin, u \in Members :
        <<admin, u>> \in changes => HomeOf[admin] = HomeOf[u] /\ FirstRole[admin] = "UNIVERSITY_ADMIN"

\* The registration form offers a university under one slug once, and only when a
\* platform administrator has opened it, although the schema's default is ACTIVE.
OfferedWasOpened ==
    /\ \A t \in ListActiveUniversities : t.slug \in opened
    /\ \A s, t \in tenant : s.slug = t.slug => s = t

\* A recovery rate is above 1 by no more than the items reported between its two
\* counts.
RateIsOffByNewItemsOnly ==
    rate.recovered <= rate.total + Cardinality({i \in rate.since : CampusOfItem(i) = rate.of})

\* Roles, universities and rates follow the rules of the admin pages, but for named
\* races (admin.service.ts).
AdministrationIsOrderly ==
    /\ AdministratorsStay
    /\ DisabledAuthorityWasOvertaken
    /\ ChangedByOwnAdministrators
    /\ OfferedWasOpened
    /\ RateIsOffByNewItemsOnly

=============================================================================
