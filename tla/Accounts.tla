----------------------------- MODULE Accounts -----------------------------
(***************************************************************************)
(* Registration, sign-in and sessions: apps/api/src/auth/auth.service.ts   *)
(* and strategies/jwt.strategy.ts.                                         *)
(*                                                                         *)
(* Codes are what PasswordReset models in detail; here one is requested    *)
(* for an address, a university and a purpose, and used at most once.      *)
(* Registration writes the code, the user and the wallet in three awaits   *)
(* outside any transaction, so that a crash leaves what was written.  Time *)
(* is counted in ticks, a few to the second in which tokens are dated.     *)
(***************************************************************************)
EXTENDS Naturals, Sequences, FiniteSets

CONSTANTS
    People,       \* institutional e-mail addresses
    Campuses,     \* universities
    Approved,     \* pairs of an address and a university that lists its domain
    Calls,        \* slots for requests in flight
    MaxCodes,     \* bound on the codes ever requested
    TicksASecond,
    MaxTime,      \* bound on the clock
    Nil

ASSUME AccountsAssumption ==
    /\ Approved \subseteq People \X Campuses
    /\ MaxCodes \in Nat /\ MaxTime \in Nat \ {0}
    /\ TicksASecond \in Nat \ {0}
    /\ Nil \notin People \cup Campuses \cup Calls

VARIABLES
    account,   \* rows of users, and whether each has its row of wallets
    codes,     \* rows of otp_challenges in the order of createdAt
    call,      \* requests in flight
    sessions,  \* access tokens
    now,       \* the clock, in ticks
    crashed    \* history: addresses whose registration died half-way

accountVars == <<account, codes, call, sessions, now, crashed>>

-----------------------------------------------------------------------------

Purposes == {"REGISTRATION", "LOGIN", "PASSWORD_RESET"}

\* changed is passwordChangedAt, 0 for none.
Account == [university: Campuses, active: BOOLEAN, changed: Nat, wallet: BOOLEAN]

ASSUME NilIsNoAccount == Nil \notin Account

OtpCode == [person: People, university: Campuses, purpose: Purposes, used: BOOLEAN]

\* at is when the token was issued, code the code that was verified for it.
Session == [person: People, university: Campuses, at: Nat, code: Nat]

Call == [pc: {"idle", "consume", "create", "wallet", "issue", "commit"},
         person: People \cup {Nil}, university: Campuses \cup {Nil},
         purpose: Purposes, code: Nat, at: Nat]

IdleCall == [pc |-> "idle", person |-> Nil, university |-> Nil, purpose |-> "LOGIN",
             code |-> 0, at |-> 0]

AccountInit ==
    /\ account = [p \in People |-> Nil]
    /\ codes = <<>>
    /\ call = [c \in Calls |-> IdleCall]
    /\ sessions = {}
    /\ now = 1
    /\ crashed = {}

Exists(p) == account[p] # Nil

-----------------------------------------------------------------------------
(* Requesting a code *)

\* requestRegistrationOtp: no account has the address, in any university.
MayRegister(p) == ~Exists(p)

\* requestLoginOtp and verifyLogin
MaySignIn(p, u) == Exists(p) /\ account[p].university = u /\ account[p].active

\* requestOtp: the domain is on the university's list.
RequestCode(p, u, purpose) ==
    /\ Len(codes) < MaxCodes
    /\ IF purpose = "REGISTRATION" THEN MayRegister(p) ELSE MaySignIn(p, u)
    /\ <<p, u>> \in Approved
    /\ codes' = Append(codes, [person |-> p, university |-> u, purpose |-> purpose, used |-> FALSE])
    /\ UNCHANGED <<account, call, sessions, now, crashed>>

-----------------------------------------------------------------------------
(* verifyRegistration and verifyLogin *)

\* The codes verifyOtp takes the last of.
Candidates(p, u, purpose) ==
    {i \in 1..Len(codes) : codes[i] = [person |-> p, university |-> u, purpose |-> purpose,
                                       used |-> FALSE]}

\* The checks, and the code that is found and matches.
VerifyCode(c, p, u, purpose) ==
    /\ call[c].pc = "idle"
    /\ purpose \in {"REGISTRATION", "LOGIN"}
    /\ IF purpose = "REGISTRATION" THEN MayRegister(p) ELSE MaySignIn(p, u)
    /\ \E i \in Candidates(p, u, purpose) :
          /\ \A j \in Candidates(p, u, purpose) : j <= i
          /\ call' = [call EXCEPT ![c] = [pc |-> "consume", person |-> p, university |-> u,
                                          purpose |-> purpose, code |-> i, at |-> 0]]
    /\ UNCHANGED <<account, codes, sessions, now, crashed>>

\* The condition of the update that consumes the code.
StillUnused(i) == ~codes[i].used

\* A code that is used already ends the call.
ConsumeCode(c) ==
    /\ call[c].pc = "consume"
    /\ IF StillUnused(call[c].code)
       THEN /\ codes' = [codes EXCEPT ![call[c].code].used = TRUE]
            /\ call' = [call EXCEPT ![c].pc = IF call[c].purpose = "LOGIN" THEN "issue" ELSE "create"]
       ELSE /\ call' = [call EXCEPT ![c] = IdleCall]
            /\ UNCHANGED codes
    /\ UNCHANGED <<account, sessions, now, crashed>>

\* What follows once the user's row is there.
AfterUser == "wallet"

\* The address is unique: the second of two registrations fails here.
CreateUser(c) ==
    LET p == call[c].person
    IN  /\ call[c].pc = "create"
        /\ IF Exists(p)
           THEN /\ call' = [call EXCEPT ![c] = IdleCall]
                /\ UNCHANGED account
           ELSE /\ account' = [account EXCEPT ![p] =
                      [university |-> call[c].university, active |-> TRUE, changed |-> 0,
                       wallet |-> FALSE]]
                /\ call' = [call EXCEPT ![c].pc = AfterUser]
        /\ UNCHANGED <<codes, sessions, now, crashed>>

CreateWallet(c) ==
    /\ call[c].pc = "wallet"
    /\ account' = [account EXCEPT ![call[c].person].wallet = TRUE]
    /\ call' = [call EXCEPT ![c].pc = "issue"]
    /\ UNCHANGED <<codes, sessions, now, crashed>>

\* issueTokens
IssueTokens(c) ==
    /\ call[c].pc = "issue"
    /\ sessions' = sessions \cup {[person |-> call[c].person, university |-> call[c].university,
                                   at |-> now, code |-> call[c].code]}
    /\ call' = [call EXCEPT ![c] = IdleCall]
    /\ UNCHANGED <<account, codes, now, crashed>>

-----------------------------------------------------------------------------
(* What ends sessions *)

\* resetPassword takes the time after it hashed the password, then commits; of
\* several at once only one commits (PasswordReset).
ChangePassword(c, p) ==
    /\ call[c].pc = "idle"
    /\ Exists(p) /\ account[p].active
    /\ \A d \in Calls : call[d].pc = "commit" => call[d].person # p
    /\ call' = [call EXCEPT ![c] = [pc |-> "commit", person |-> p, university |-> Nil,
                                    purpose |-> "PASSWORD_RESET", code |-> 0, at |-> now]]
    /\ UNCHANGED <<account, codes, sessions, now, crashed>>

CommitPassword(c) ==
    /\ call[c].pc = "commit"
    /\ account' = [account EXCEPT ![call[c].person].changed = call[c].at]
    /\ call' = [call EXCEPT ![c] = IdleCall]
    /\ UNCHANGED <<codes, sessions, now, crashed>>

\* AdminService.updateUserStatus
SetActive(p, active) ==
    /\ Exists(p)
    /\ account[p].active # active
    /\ account' = [account EXCEPT ![p].active = active]
    /\ UNCHANGED <<codes, call, sessions, now, crashed>>

\* Variant: seconds are compared with seconds.
Bug_AfterChange(iat, changed) == iat >= changed \div TicksASecond

\* JwtStrategy compares the token's second with the change's millisecond.
AfterChange(iat, changed) == iat * TicksASecond > changed

Iat(s) == s.at \div TicksASecond

\* JwtStrategy.validate; that tokens expire after 15 minutes is left out.
Accepted(s) ==
    /\ Exists(s.person) /\ account[s.person].active
    /\ account[s.person].changed # 0 => AfterChange(Iat(s), account[s.person].changed)

-----------------------------------------------------------------------------

Crash(c) ==
    /\ call[c].pc # "idle"
    /\ crashed' = IF call[c].pc = "wallet" THEN crashed \cup {call[c].person} ELSE crashed
    /\ call' = [call EXCEPT ![c] = IdleCall]
    /\ UNCHANGED <<account, codes, sessions, now>>

PassTime ==
    /\ now < MaxTime
    /\ now' = now + 1
    /\ UNCHANGED <<account, codes, call, sessions, crashed>>

AccountNext ==
    \/ \E p \in People, u \in Campuses, purpose \in Purposes :
          \/ RequestCode(p, u, purpose)
          \/ \E c \in Calls : VerifyCode(c, p, u, purpose)
    \/ \E c \in Calls :
          \/ ConsumeCode(c) \/ CreateUser(c) \/ CreateWallet(c) \/ IssueTokens(c)
          \/ CommitPassword(c) \/ Crash(c)
          \/ \E p \in People : ChangePassword(c, p)
    \/ \E p \in People, active \in BOOLEAN : SetActive(p, active)
    \/ PassTime

AccountSpec == AccountInit /\ [][AccountNext]_accountVars

-----------------------------------------------------------------------------
(* Properties *)

\* Rows keep their shape.
AccountTypeOK ==
    /\ account \in [People -> Account \cup {Nil}]
    /\ codes \in Seq(OtpCode)
    /\ call \in [Calls -> Call]
    /\ sessions \subseteq Session
    /\ \A c \in Calls : call[c].pc # "idle" /\ call[c].purpose = "LOGIN" => Exists(call[c].person)
    /\ now \in 1..MaxTime
    /\ crashed \subseteq People

\* An account is in a university that lists its address's domain, whatever
\* universities the address asked codes of before it registered.
JoinedApproved == \A p \in People : Exists(p) => <<p, account[p].university>> \in Approved

\* Every session comes from a code of its own, sent to its address to register
\* or to sign in: concurrent verifications of one code yield one session.
SessionHasItsOwnCode ==
    \A s \in sessions :
        /\ codes[s.code].person = s.person
        /\ codes[s.code].purpose # "PASSWORD_RESET"
        /\ \A r \in sessions : r.code = s.code => r = s

\* A user without a wallet is being registered, or the process died between the
\* two rows.
WalletMissingAfterCrashOnly ==
    \A p \in People :
        Exists(p) /\ ~account[p].wallet =>
            p \in crashed \/ \E c \in Calls : call[c].pc = "wallet" /\ call[c].person = p

\* No accepted session is as old as the last change of its password, although
\* tokens are dated in whole seconds.
SessionIsYoungerThanPassword ==
    \A s \in sessions :
        Accepted(s) /\ account[s.person].changed # 0 => s.at > account[s.person].changed

\* An account has its university, its wallet and sessions of its own making, through
\* crashes and concurrent verifications (auth.service.ts, jwt.strategy.ts).
AccountsAreWhole ==
    /\ JoinedApproved
    /\ SessionHasItsOwnCode
    /\ WalletMissingAfterCrashOnly
    /\ SessionIsYoungerThanPassword

=============================================================================
