---------------------------- MODULE WebSession ----------------------------
(***************************************************************************)
(* The session as the browser sees it: apps/web/lib/api-client.ts,         *)
(* components/auth/auth-provider.tsx and auth-guard.tsx, the log out       *)
(* button of the profile page and the query cache.                         *)
(*                                                                         *)
(* The access token is in the storage that all tabs share; whether a tab   *)
(* thinks it is signed in, and the answers it caches, are its own.  The    *)
(* event auth-changed reaches the tab that fired it and no other.          *)
(***************************************************************************)
EXTENDS Naturals, FiniteSets

CONSTANTS
    Pages,     \* browser tabs
    Sessions,  \* access tokens the server may issue
    AccountOf, \* whose each of them is
    MaxSent,   \* bound on the requests in flight
    NoToken

ASSUME WebSessionAssumption ==
    /\ DOMAIN AccountOf = Sessions
    /\ NoToken \notin Sessions \cup Pages
    /\ MaxSent \in Nat

VARIABLES
    token,    \* localStorage.accessToken
    live,     \* sessions the server accepts
    issued,   \* sessions the server has issued
    signedIn, \* authenticated, of each tab's AuthProvider
    sent,     \* requests in flight
    cache,    \* the accounts whose data each tab's QueryClient holds
    writer,   \* history: the tab that wrote the token last
    overtook, \* history: sessions stored while an older request was in flight
    lost      \* history: live sessions a refused query removed from storage

sessionVars == <<token, live, issued, signedIn, sent, cache, writer, overtook, lost>>

-----------------------------------------------------------------------------

\* kind: a query of a guarded page, or the verification of a code on /auth.
\* dropped: the QueryClient was reset and ignores the answer.
Sent == [page: Pages, kind: {"query", "verify"}, with: Sessions \cup {NoToken}, dropped: BOOLEAN]

SessionInit ==
    /\ token = NoToken
    /\ live = {}
    /\ issued = {}
    /\ signedIn = [p \in Pages |-> FALSE]
    /\ sent = {}
    /\ cache = [p \in Pages |-> {}]
    /\ writer = NoToken
    /\ overtook = {}
    /\ lost = {}

-----------------------------------------------------------------------------
(* Writing the token *)

\* setTokens, and the AuthProvider that hears of it.
SetTokens(p, s) ==
    /\ token' = s
    /\ writer' = p
    /\ signedIn' = [signedIn EXCEPT ![p] = TRUE]

\* clearTokens, and the AuthProvider that hears of it.
DropTokens(p) ==
    /\ token' = NoToken
    /\ writer' = p
    /\ signedIn' = [signedIn EXCEPT ![p] = FALSE]

\* Variant: what was cached for the last account is kept.
Bug_ResetQueries(p, requests) ==
    /\ UNCHANGED cache
    /\ sent' = requests

DroppedKinds == {"query"}

\* resetQueries and clear: nothing is cached, and running queries are ignored.
ResetQueries(p, requests) ==
    /\ cache' = [cache EXCEPT ![p] = {}]
    /\ sent' = {IF r.page = p /\ r.kind \in DroppedKinds THEN [r EXCEPT !.dropped = TRUE] ELSE r
                   : r \in requests}

-----------------------------------------------------------------------------
(* Tabs *)

\* A tab is opened or reloaded: the provider reads the storage, the cache is
\* new, and answers to the old page are lost.
Load(p) ==
    /\ signedIn' = [signedIn EXCEPT ![p] = token # NoToken]
    /\ cache' = [cache EXCEPT ![p] = {}]
    /\ sent' = {r \in sent : r.page # p}
    /\ UNCHANGED <<token, live, issued, writer, overtook, lost>>

\* AuthGuard shows a page to a tab that thinks it is signed in and sends any
\* other to /auth.
PageOf(p) == IF signedIn[p] THEN "query" ELSE "verify"

\* request: the token is the one in storage now, whoever put it there.
Send(p) ==
    /\ Cardinality(sent) < MaxSent
    /\ sent' = sent \cup {[page |-> p, kind |-> PageOf(p), with |-> token, dropped |-> FALSE]}
    /\ UNCHANGED <<token, live, issued, signedIn, cache, writer, overtook, lost>>

\* handleLogout
LogOut(p) ==
    /\ signedIn[p]
    /\ DropTokens(p)
    /\ ResetQueries(p, sent)
    /\ UNCHANGED <<live, issued, overtook, lost>>

-----------------------------------------------------------------------------
(* Answers *)

\* A query is answered: JwtStrategy accepted the token it was sent with.
Answered(r) ==
    /\ r \in sent
    /\ r.kind = "query"
    /\ r.with \in live
    /\ sent' = sent \ {r}
    /\ cache' = [cache EXCEPT ![r.page] = IF r.dropped THEN @ ELSE @ \cup {AccountOf[r.with]}]
    /\ UNCHANGED <<token, live, issued, signedIn, writer, overtook, lost>>

\* A code is verified: the session is stored and all queries start afresh.
Verified(r, s) ==
    /\ r \in sent
    /\ r.kind = "verify"
    /\ s \notin issued
    /\ issued' = issued \cup {s}
    /\ live' = live \cup {s}
    /\ SetTokens(r.page, s)
    /\ ResetQueries(r.page, sent \ {r})
    /\ overtook' = IF sent = {r} THEN overtook ELSE overtook \cup {s}
    /\ UNCHANGED lost

\* request clears the tokens for one status only.
SignsOut(status) == status = 401

\* An error: 401 for a session that has ended or a failed sign-in, or another
\* status.  Which token the request carried makes no difference.
Refused(r, status) ==
    /\ r \in sent
    /\ status = 401 => r.with \notin live \/ r.kind = "verify"
    /\ sent' = sent \ {r}
    /\ IF SignsOut(status)
       THEN /\ DropTokens(r.page)
            /\ lost' = IF r.kind = "query" /\ token \in live THEN lost \cup {token} ELSE lost
       ELSE UNCHANGED <<token, writer, signedIn, lost>>
    /\ UNCHANGED <<live, issued, cache, overtook>>

\* 15 minutes, a new password, a disabled account.
SessionEnds(s) ==
    /\ s \in live
    /\ live' = live \ {s}
    /\ UNCHANGED <<token, issued, signedIn, sent, cache, writer, overtook, lost>>

-----------------------------------------------------------------------------

SessionNext ==
    \/ \E p \in Pages : Load(p) \/ Send(p) \/ LogOut(p)
    \/ \E r \in sent :
          \/ Answered(r)
          \/ \E s \in Sessions : Verified(r, s)
          \/ \E status \in {401, 500} : Refused(r, status)
    \/ \E s \in Sessions : SessionEnds(s)

SessionSpec == SessionInit /\ [][SessionNext]_sessionVars

-----------------------------------------------------------------------------
(* Properties *)

\* The storage holds an issued token or none, and requests carry such tokens.
SessionTypeOK ==
    /\ token \in issued \cup {NoToken}
    /\ live \subseteq issued /\ issued \subseteq Sessions
    /\ signedIn \in [Pages -> BOOLEAN]
    /\ sent \subseteq Sent
    /\ \A r \in sent : r.with \in issued \cup {NoToken} /\ (r.dropped => r.kind = "query")
    /\ cache \in [Pages -> SUBSET {AccountOf[s] : s \in issued}]
    /\ writer \in Pages \cup {NoToken}
    /\ overtook \cup lost \subseteq issued

\* A tab that is wrong about being signed in missed a change that another tab
\* made: its own changes, in whatever order answers come, it always knows.
TabKnowsItsOwnChanges ==
    \A p \in Pages : signedIn[p] # (token # NoToken) => writer # p

\* Who signed in on a tab sees nothing that was fetched for another account,
\* not even by requests that were under way, until another tab changes the token.
CacheIsOfTheSignedIn ==
    writer \in Pages /\ token # NoToken => cache[writer] \subseteq {AccountOf[token]}

\* The answer to a query removes a session the server still accepts only if the
\* session was stored while older requests were in flight.  A refused sign-in is not
\* counted: its 401 clears the storage too, and with it the live session of another tab.
LiveSessionSurvives ==
    lost \subseteq overtook

\* A tab knows who is signed in and shows that account's data, and the answer to no
\* query takes a session from it but in the named race, whatever order answers come in
\* (api-client.ts and the auth context).
TabsAgreeWithTheSession ==
    /\ TabKnowsItsOwnChanges
    /\ CacheIsOfTheSignedIn
    /\ LiveSessionSurvives

=============================================================================
