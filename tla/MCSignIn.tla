------------------------------ MODULE MCSignIn ------------------------------
(***************************************************************************)
(* How a student gets in and stays in, for TLC: password resets, accounts, *)
(* the forms, the browser's session and the rate limits.  They share no    *)
(* state, so a behaviour is of one of them: the one in focus moves and the *)
(* others stay where they start.  All take their names from the pairs a1,  *)
(* a2 and b1, b2, so that one symmetry serves them all.                    *)
(***************************************************************************)
EXTENDS PasswordReset, Accounts, AuthFlow, WebSession, RateLimits, TLC

CONSTANTS a1, a2, b1, b2, x1, x2, x3, campus1, campus2

VARIABLE focus

\* One address of the only student is on the list of the first university.
ApprovedAddress == {<<x1, campus1>>}

\* Two sessions of one student and one of another.
SessionAccounts == x1 :> campus1 @@ x2 :> campus2 @@ x3 :> campus1

SuiteInit ==
    /\ focus \in {"reset", "accounts", "form", "session", "limits"}
    /\ Init /\ AccountInit /\ FlowInit /\ SessionInit /\ RateInit

SuiteNext ==
    /\ UNCHANGED focus
    /\ \/ focus = "reset" /\ Next /\ UNCHANGED <<accountVars, flowVars, sessionVars, rateVars>>
       \/ focus = "accounts" /\ AccountNext /\ UNCHANGED <<vars, flowVars, sessionVars, rateVars>>
       \/ focus = "form" /\ FlowNext /\ UNCHANGED <<vars, accountVars, sessionVars, rateVars>>
       \/ focus = "session" /\ SessionNext /\ UNCHANGED <<vars, accountVars, flowVars, rateVars>>
       \/ focus = "limits" /\ RateNext /\ UNCHANGED <<vars, accountVars, flowVars, sessionVars>>

SuiteVars == <<focus, vars, accountVars, flowVars, sessionVars, rateVars>>

SuiteSpec == SuiteInit /\ [][SuiteNext]_SuiteVars

Symmetry == Permutations({a1, a2}) \cup Permutations({b1, b2})

\* Every component keeps its rows, requests and pages in shape, in whatever order
\* the steps of concurrent requests come.
SuiteTypeOK == TypeOK /\ AccountTypeOK /\ FlowTypeOK /\ SessionTypeOK /\ RateTypeOK
=============================================================================
