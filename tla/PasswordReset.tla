--------------------------- MODULE PasswordReset ---------------------------
(***************************************************************************)
(* Resetting the password of one account: the one-time codes of            *)
(* auth/otp.service.ts and the reset tokens of auth/auth.service.ts.       *)
(*                                                                         *)
(* A code is requested, verified and exchanged for a token, and the token  *)
(* is exchanged for a new password.  Only resetPassword's writes are in a  *)
(* transaction; every other await is a step of its own.  Login and         *)
(* registration verify their codes in the same way.                        *)
(***************************************************************************)
EXTENDS Naturals, Sequences, FiniteSets

CONSTANTS
    MaxResends,    \* OTP_MAX_RESENDS_PER_HOUR
    MaxAttempts,   \* OTP_MAX_ATTEMPTS
    MaxChallenges, \* bound on the codes ever requested
    Requests,      \* slots for code requests in flight
    Verifiers,     \* slots for verifications in flight
    Resets         \* slots for password changes in flight

ASSUME PasswordResetAssumption ==
    /\ MaxResends \in Nat \ {0}
    /\ MaxAttempts \in Nat \ {0}
    /\ MaxChallenges \in Nat
    /\ IsFiniteSet(Verifiers)

VARIABLES
    challenges, \* OtpChallenge rows in the order of createdAt
    tokens,     \* PasswordResetToken rows
    changes,    \* history: the token of every password change
    request,    \* code requests past their checks
    verify,     \* verifications in flight
    reset       \* password changes in flight

vars == <<challenges, tokens, changes, request, verify, reset>>

-----------------------------------------------------------------------------

\* Less than 45 seconds, 10 minutes and an hour old, and older.
Ages == {"cooling", "valid", "expired", "old"}

Older == [cooling |-> "valid", valid |-> "expired", expired |-> "old"]

Challenge == [age: Ages, attempts: Nat, consumed: BOOLEAN]

\* after is the number of password changes before the token, challenge its code.
Token == [state: {"live", "expired", "used", "deleted"}, challenge: Nat, after: Nat]

Verification == [pc: {"idle", "attempt", "consume", "clear", "issue"}, challenge: Nat, match: BOOLEAN]

IdleVerify == [pc |-> "idle", challenge |-> 0, match |-> FALSE]

Init ==
    /\ challenges = <<>>
    /\ tokens = <<>>
    /\ changes = <<>>
    /\ request = [q \in Requests |-> "idle"]
    /\ verify = [v \in Verifiers |-> IdleVerify]
    /\ reset = [s \in Resets |-> 0]

Unconsumed == {i \in 1..Len(challenges) : ~challenges[i].consumed}

Latest(i) == i \in Unconsumed /\ \A j \in Unconsumed : j <= i

Expired(i) == challenges[i].age \in {"expired", "old"}

-----------------------------------------------------------------------------
(* requestOtp; the limit per IP address is not modelled *)

RecentRequests == Cardinality({i \in 1..Len(challenges) : challenges[i].age # "old"})

\* Variant: one code too many.
Bug_MayRequest ==
    /\ RecentRequests <= MaxResends
    /\ \A i \in Unconsumed : Latest(i) => challenges[i].age # "cooling"

\* The hourly cap, and the cooldown after the last code that was not used.
MayRequest ==
    /\ RecentRequests < MaxResends
    /\ \A i \in Unconsumed : Latest(i) => challenges[i].age # "cooling"

RequestRead(q) ==
    /\ request[q] = "idle"
    /\ MayRequest
    /\ request' = [request EXCEPT ![q] = "create"]
    /\ UNCHANGED <<challenges, tokens, changes, verify, reset>>

\* The row is kept if the e-mail then fails.
RequestCreate(q) ==
    /\ request[q] = "create"
    /\ Len(challenges) < MaxChallenges
    /\ challenges' = Append(challenges, [age |-> "cooling", attempts |-> 0, consumed |-> FALSE])
    /\ request' = [request EXCEPT ![q] = "idle"]
    /\ UNCHANGED <<tokens, changes, verify, reset>>

RequestFail(q) ==
    /\ request[q] = "create"
    /\ request' = [request EXCEPT ![q] = "idle"]
    /\ UNCHANGED <<challenges, tokens, changes, verify, reset>>

-----------------------------------------------------------------------------
(* verifyOtp and verifyPasswordResetOtp *)

MayTry(i) == challenges[i].attempts < MaxAttempts

VerifyRead(v, i, match) ==
    /\ verify[v].pc = "idle"
    /\ Latest(i)
    /\ ~Expired(i)
    /\ MayTry(i)
    /\ verify' = [verify EXCEPT ![v] = [pc |-> "attempt", challenge |-> i, match |-> match]]
    /\ UNCHANGED <<challenges, tokens, changes, request, reset>>

VerifyAttempt(v) ==
    /\ verify[v].pc = "attempt"
    /\ challenges' = [challenges EXCEPT ![verify[v].challenge].attempts = @ + 1]
    /\ verify' = [verify EXCEPT ![v] = IF @.match THEN [@ EXCEPT !.pc = "consume"] ELSE IdleVerify]
    /\ UNCHANGED <<tokens, changes, request, reset>>

Consumable(i) == ~challenges[i].consumed /\ ~Expired(i)

VerifyConsume(v) ==
    LET i == verify[v].challenge
    IN  /\ verify[v].pc = "consume"
        /\ \/ /\ Consumable(i)
              /\ challenges' = [challenges EXCEPT ![i].consumed = TRUE]
              /\ verify' = [verify EXCEPT ![v].pc = "clear"]
           \/ /\ ~Consumable(i)
              /\ verify' = [verify EXCEPT ![v] = IdleVerify]
              /\ UNCHANGED challenges
        /\ UNCHANGED <<tokens, changes, request, reset>>

\* The tokens of the account that were not used are deleted.
ClearTokens(v) ==
    /\ verify[v].pc = "clear"
    /\ tokens' = [t \in DOMAIN tokens |->
          IF tokens[t].state = "used" THEN tokens[t] ELSE [tokens[t] EXCEPT !.state = "deleted"]]
    /\ verify' = [verify EXCEPT ![v].pc = "issue"]
    /\ UNCHANGED <<challenges, changes, request, reset>>

IssueToken(v) ==
    /\ verify[v].pc = "issue"
    /\ tokens' = Append(tokens, [state |-> "live", challenge |-> verify[v].challenge,
                                 after |-> Len(changes)])
    /\ verify' = [verify EXCEPT ![v] = IdleVerify]
    /\ UNCHANGED <<challenges, changes, request, reset>>

VerifyFail(v) ==
    /\ verify[v].pc # "idle"
    /\ verify' = [verify EXCEPT ![v] = IdleVerify]
    /\ UNCHANGED <<challenges, tokens, changes, request, reset>>

-----------------------------------------------------------------------------
(* resetPassword *)

ResetRead(s, t) ==
    /\ reset[s] = 0
    /\ tokens[t].state = "live"
    /\ reset' = [reset EXCEPT ![s] = t]
    /\ UNCHANGED <<challenges, tokens, changes, request, verify>>

\* The row is there and unused; its expiry is compared with a time taken before
\* the transaction, so a token that has just expired may pass.
StillUsable(t) == tokens[t].state \in {"live", "expired"}

\* Variant: the other tokens are left alone.
Bug_OtherTokens(t) == tokens

\* All other tokens of the account are deleted.
OtherTokens(t) == [u \in DOMAIN tokens |-> [tokens[u] EXCEPT !.state = "deleted"]]

ResetCommit(s) ==
    LET t == reset[s]
    IN  /\ t # 0
        /\ StillUsable(t)
        /\ tokens' = [OtherTokens(t) EXCEPT ![t] = [tokens[t] EXCEPT !.state = "used"]]
        /\ changes' = Append(changes, t)
        /\ reset' = [reset EXCEPT ![s] = 0]
        /\ UNCHANGED <<challenges, request, verify>>

\* The token was consumed, deleted or has expired, or the process dies.
ResetFail(s) ==
    /\ reset[s] # 0
    /\ reset' = [reset EXCEPT ![s] = 0]
    /\ UNCHANGED <<challenges, tokens, changes, request, verify>>

-----------------------------------------------------------------------------
(* Time *)

\* A code ages after the codes before it.
ChallengeAges(i) ==
    /\ challenges[i].age # "old"
    /\ \A j \in 1..(i - 1) : challenges[j].age # challenges[i].age
    /\ challenges' = [challenges EXCEPT ![i].age = Older[@]]
    /\ UNCHANGED <<tokens, changes, request, verify, reset>>

TokenExpires(t) ==
    /\ tokens[t].state = "live"
    /\ tokens' = [tokens EXCEPT ![t].state = "expired"]
    /\ UNCHANGED <<challenges, changes, request, verify, reset>>

-----------------------------------------------------------------------------

CodeNext ==
    \/ \E q \in Requests : RequestRead(q) \/ RequestCreate(q) \/ RequestFail(q)
    \/ \E v \in Verifiers :
          \/ \E i \in 1..Len(challenges), match \in BOOLEAN : VerifyRead(v, i, match)
          \/ VerifyAttempt(v)
          \/ VerifyConsume(v)
          \/ ClearTokens(v)
          \/ IssueToken(v)
          \/ VerifyFail(v)

ResetNext ==
    \E s \in Resets :
        \/ \E t \in 1..Len(tokens) : ResetRead(s, t)
        \/ ResetCommit(s)
        \/ ResetFail(s)

TimeNext ==
    \/ \E i \in 1..Len(challenges) : ChallengeAges(i)
    \/ \E t \in 1..Len(tokens) : TokenExpires(t)

Next == CodeNext \/ ResetNext \/ TimeNext

Spec == Init /\ [][Next]_vars

-----------------------------------------------------------------------------
(* Properties *)

\* Rows keep their shape, tokens name codes that were consumed, and concurrent
\* guesses exceed the limit of a code by less than the number of verifiers.
TypeOK ==
    /\ challenges \in Seq(Challenge)
    /\ tokens \in Seq(Token)
    /\ changes \in Seq(1..Len(tokens))
    /\ request \in [Requests -> {"idle", "create"}]
    /\ verify \in [Verifiers -> Verification]
    /\ reset \in [Resets -> 0..Len(tokens)]
    /\ \A i \in 1..Len(challenges) :
          challenges[i].attempts < MaxAttempts + Cardinality(Verifiers)
    /\ \A t \in 1..Len(tokens) :
          tokens[t].challenge \in (1..Len(challenges)) \ Unconsumed

\* A code is exchanged for at most one token, and so for one password, although
\* two requests may compare it before either consumes it.
CodeUsedOnce ==
    \A t, u \in 1..Len(tokens) : tokens[t].challenge = tokens[u].challenge => t = u

\* A token changes the password at most once, although two requests may both
\* read it as unused.
TokenUsedOnce ==
    \A m, n \in 1..Len(changes) : changes[m] = changes[n] => m = n

\* A token that can still be used was issued after the last password change:
\* no earlier one survives a change, wherever its holder was at that moment.
NoTokenSurvivesChange ==
    \A t \in 1..Len(tokens) :
        tokens[t].state \in {"live", "expired"} => tokens[t].after = Len(changes)

\* Codes and tokens are spent: each is used once, and a password change ends the
\* tokens before it (otp.service.ts, auth.service.ts).
SecretsAreSpent ==
    /\ CodeUsedOnce
    /\ TokenUsedOnce
    /\ NoTokenSurvivesChange

\* No more codes are sent in an hour than allowed, if requests do not overlap.
HourlyCapKept ==
    Cardinality({i \in 1..Len(challenges) : challenges[i].age # "old"}) <= MaxResends

=============================================================================
