----------------------------- MODULE AuthFlow -----------------------------
(***************************************************************************)
(* The sign-in page: apps/web/components/auth/auth-flow.tsx.               *)
(*                                                                         *)
(* A form with two modes and a password reset, each a few panels long, and *)
(* five mutations.  A mutation keeps what the form held when it was sent;  *)
(* its success handler changes the form whatever it holds by then: reset() *)
(* makes the page forget a mutation, it does not stop its handler.  What   *)
(* is typed is abstracted, except whose e-mail address it is: a field that *)
(* a button needs is typed in the step that presses it.                    *)
(***************************************************************************)
EXTENDS Naturals, FiniteSets

CONSTANTS
    Universities,
    Emails,
    Cooldown,  \* RESEND_COOLDOWN_SECONDS
    MaxTimers, \* bound on the intervals and the requests that may start one
    Blank

ASSUME AuthFlowAssumption ==
    /\ Cooldown \in Nat \ {0}
    /\ MaxTimers \in Nat
    /\ Blank \notin Universities \cup Emails

VARIABLES
    form,      \* the state hooks of the page
    cooldown,  \* seconds until a code may be sent again
    timers,    \* intervals that are running
    pending,   \* mutations in flight
    requested, \* history: codes the server has sent
    late       \* history: operations whose answer found a form that no longer holds
               \* what they were sent with, while what the answer did to it stands

flowVars == <<form, cooldown, timers, pending, requested, late>>

-----------------------------------------------------------------------------

Modes == {"register", "login"}

\* resetToken is the address whose verification yielded the token.
Form == [mode: Modes, stage: {"university", "email", "otp"}, university: Universities \cup {Blank},
         campus: BOOLEAN, email: Emails \cup {Blank}, resetMode: BOOLEAN,
         resetStage: {"email", "otp", "password"}, resetToken: Emails \cup {Blank},
         signedIn: BOOLEAN]

Operations == {"requestOtp", "verifyOtp", "requestReset", "verifyReset", "reset"}

ResetOperations == {"requestReset", "verifyReset", "reset"}

\* watched: the page still shows the mutation's isPending.
Mutation == [op: Operations, for: Modes, university: Universities \cup {Blank},
             email: Emails \cup {Blank}, watched: BOOLEAN]

Code == [for: Modes \cup {"reset"}, university: Universities, email: Emails]

FlowInit ==
    /\ form = [mode |-> "register", stage |-> "university", university |-> Blank,
               campus |-> FALSE, email |-> Blank, resetMode |-> FALSE, resetStage |-> "email",
               resetToken |-> Blank, signedIn |-> FALSE]
    /\ cooldown = 0
    /\ timers = 0
    /\ pending = {}
    /\ requested = {}
    /\ late = {}

-----------------------------------------------------------------------------
(* The panels: what the page offers *)

Busy(op) == \E m \in pending : m.op = op /\ m.watched

UniversityPanel == ~form.resetMode /\ form.stage = "university"

EmailPanel == ~form.resetMode /\ form.stage = "email" /\ form.university # Blank

OtpPanel == ~form.resetMode /\ form.stage = "otp"

ResetEmailPanel == form.resetMode /\ form.resetStage = "email"

ResetOtpPanel == form.resetMode /\ form.resetStage = "otp"

ResetPasswordPanel == form.resetMode /\ form.resetStage = "password"

\* "Send verification code", and "Resend code" once the cooldown is over.
RequestOtpOffered ==
    /\ ~Busy("requestOtp")
    /\ \/ EmailPanel /\ form.email # Blank /\ (form.mode = "register" => form.campus)
       \/ OtpPanel /\ cooldown = 0

VerifyOtpOffered == OtpPanel /\ ~Busy("verifyOtp")

RequestResetOffered ==
    /\ ~Busy("requestReset")
    /\ \/ ResetEmailPanel /\ form.university # Blank /\ form.email # Blank
       \/ ResetOtpPanel /\ cooldown = 0

VerifyResetOffered == ResetOtpPanel /\ ~Busy("verifyReset")

ResetOffered == ResetPasswordPanel /\ ~Busy("reset")

-----------------------------------------------------------------------------
(* What the user does *)

\* Nothing else is offered once the page was left for the home page.
Edit(newForm) ==
    /\ ~form.signedIn
    /\ form' = newForm
    /\ UNCHANGED <<timers, requested, late>>

SelectUniversity(u) ==
    /\ UniversityPanel
    /\ Edit([form EXCEPT !.university = u, !.campus = FALSE, !.stage = "email"])
    /\ UNCHANGED <<pending, cooldown>>

SelectCampus ==
    /\ EmailPanel /\ form.mode = "register" /\ ~form.campus
    /\ Edit([form EXCEPT !.campus = TRUE])
    /\ UNCHANGED <<pending, cooldown>>

TypeEmail(m) ==
    /\ EmailPanel \/ ResetEmailPanel
    /\ form.email # m
    /\ Edit([form EXCEPT !.email = m])
    /\ UNCHANGED <<pending, cooldown>>

SelectResetUniversity(u) ==
    /\ ResetEmailPanel
    /\ form.university # u
    /\ Edit([form EXCEPT !.university = u])
    /\ UNCHANGED <<pending, cooldown>>

\* Variant: only the inputs are cleared.
Bug_Cleared(f) == [f EXCEPT !.university = Blank, !.campus = FALSE, !.email = Blank]

\* What changeMode, startPasswordReset and cancelPasswordReset have in common.
Cleared(f) ==
    [f EXCEPT !.university = Blank, !.campus = FALSE, !.email = Blank,
              !.resetStage = "email", !.resetToken = Blank]

\* reset() of some mutations: they are no longer watched, and still run.
Forget(ops) == {IF m.op \in ops THEN [m EXCEPT !.watched = FALSE] ELSE m : m \in pending}

StartOver(newForm) ==
    /\ ~form.signedIn
    /\ form' = newForm
    /\ cooldown' = 0
    /\ UNCHANGED <<timers, requested>>

\* A fresh start, but for what is in flight.
ChangeMode(mode) ==
    /\ ~form.resetMode
    /\ StartOver([Cleared(form) EXCEPT !.mode = mode, !.stage = "university"])
    /\ pending' = Forget(Operations)
    /\ late' = {}

\* "Forgot password?": the stage behind the reset panels stays "email".
StartPasswordReset ==
    /\ EmailPanel /\ form.mode = "login"
    /\ StartOver([Cleared(form) EXCEPT !.resetMode = TRUE])
    /\ pending' = Forget(ResetOperations)
    /\ late' = late \ ResetOperations

\* "Back to sign in": with no university selected, the stage "email" has no panel.
CancelPasswordReset ==
    /\ form.resetMode
    /\ StartOver([Cleared(form) EXCEPT !.resetMode = FALSE])
    /\ pending' = Forget(ResetOperations)
    /\ late' = late \ ResetOperations

\* What a mutation throws without, before anything is sent; the server refuses a
\* blank address.
Complete(op) ==
    IF op = "reset" THEN form.resetToken # Blank
    ELSE /\ form.university # Blank /\ form.email # Blank
         /\ op \in {"requestOtp", "verifyOtp"} /\ form.mode = "register" => form.campus

\* The token in the form decides whose password is set.
Mutate(op) ==
    /\ ~form.signedIn
    /\ Complete(op)
    /\ Cardinality(pending) + timers < MaxTimers
    /\ pending' = pending \cup {[op |-> op, for |-> form.mode, university |-> form.university,
                                 email |-> form.email, watched |-> TRUE]}
    /\ UNCHANGED <<form, cooldown, timers, requested, late>>

Submit ==
    \/ RequestOtpOffered /\ Mutate("requestOtp")
    \/ VerifyOtpOffered /\ Mutate("verifyOtp")
    \/ RequestResetOffered /\ Mutate("requestReset")
    \/ VerifyResetOffered /\ Mutate("verifyReset")
    \/ ResetOffered /\ Mutate("reset")

-----------------------------------------------------------------------------
(* Answers *)

\* startCooldown: an interval that runs already is not stopped.
StartCooldown ==
    /\ cooldown' = Cooldown
    /\ timers' = timers + 1

\* The interval has run out.
LastSecond == cooldown <= 1

\* One second of one interval; it clears itself when it finds at most one left.
Tick ==
    /\ timers > 0
    /\ IF LastSecond
       THEN cooldown' = 0 /\ timers' = timers - 1
       ELSE cooldown' = cooldown - 1 /\ UNCHANGED timers
    /\ UNCHANGED <<form, pending, requested, late>>

CodeSent(m, for) == [for |-> for, university |-> m.university, email |-> m.email]

OtpRequested(m) ==
    /\ m.op = "requestOtp"
    /\ form' = [form EXCEPT !.stage = "otp"]
    /\ requested' = requested \cup {CodeSent(m, m.for)}
    /\ StartCooldown

\* setTokens and on to the home page; this page is gone.
OtpVerified(m) ==
    /\ m.op = "verifyOtp"
    /\ CodeSent(m, m.for) \in requested
    /\ form' = [form EXCEPT !.signedIn = TRUE]
    /\ UNCHANGED <<cooldown, timers, requested>>

ResetRequested(m) ==
    /\ m.op = "requestReset"
    /\ form' = [form EXCEPT !.resetStage = "otp"]
    /\ requested' = requested \cup {CodeSent(m, "reset")}
    /\ StartCooldown

ResetVerified(m) ==
    /\ m.op = "verifyReset"
    /\ CodeSent(m, "reset") \in requested
    /\ form' = [form EXCEPT !.resetToken = m.email, !.resetStage = "password"]
    /\ UNCHANGED <<cooldown, timers, requested>>

PasswordWasReset(m) ==
    /\ m.op = "reset"
    /\ form' = [Cleared(form) EXCEPT !.resetMode = FALSE, !.stage = "university"]
    /\ cooldown' = 0
    /\ UNCHANGED <<timers, requested>>

\* The form still holds what the mutation was sent with.
OfThisForm(m) ==
    /\ m.for = form.mode /\ m.university = form.university /\ m.email = form.email
    /\ m.op \in ResetOperations <=> form.resetMode

Succeed(m) ==
    /\ ~form.signedIn
    /\ pending' = IF m.op = "reset" THEN Forget(ResetOperations) \ {[m EXCEPT !.watched = FALSE]}
                  ELSE pending \ {m}
    /\ \/ OtpRequested(m)
       \/ OtpVerified(m)
       \/ ResetRequested(m)
       \/ ResetVerified(m)
       \/ PasswordWasReset(m)
    /\ \/ m.op = "reset" /\ late' = {}
       \/ m.op # "reset" /\ OfThisForm(m) /\ late' = late \ {m.op}
       \/ m.op # "reset" /\ ~OfThisForm(m) /\ late' = late \cup {m.op}

\* An error is shown and nothing else changes.
Fail(m) ==
    /\ pending' = pending \ {m}
    /\ UNCHANGED <<form, cooldown, timers, requested, late>>

-----------------------------------------------------------------------------

FlowNext ==
    \/ \E u \in Universities : SelectUniversity(u) \/ SelectResetUniversity(u)
    \/ \E m \in Emails : TypeEmail(m)
    \/ \E mode \in Modes : ChangeMode(mode)
    \/ SelectCampus
    \/ StartPasswordReset
    \/ CancelPasswordReset
    \/ Submit
    \/ Tick
    \/ \E m \in pending : Succeed(m) \/ Fail(m)

FlowSpec == FlowInit /\ [][FlowNext]_flowVars

-----------------------------------------------------------------------------
(* Properties *)

\* The form and the mutations keep their shape.
FlowTypeOK ==
    /\ form \in Form
    /\ cooldown \in 0..Cooldown
    /\ timers \in 0..MaxTimers
    /\ pending \subseteq Mutation
    /\ requested \subseteq Code
    /\ late \subseteq Operations

\* A code of this mode went to the address that is shown.
ShownCode(for) == [for |-> for, university |-> form.university, email |-> form.email]

\* A panel that asks for a code names a university and an address to which a code of its
\* kind went, unless it stands because a request for another entry was answered late.  No
\* other answer, and no way back and forth between the panels, brings it up.
CodePanelWasRequested ==
    /\ OtpPanel /\ "requestOtp" \notin late => ShownCode(form.mode) \in requested
    /\ ResetOtpPanel /\ "requestReset" \notin late => ShownCode("reset") \in requested

\* A reset token is that of the address shown, and shows in the password panel or the one
\* that asks for a code again: none outlives the reset it was for, and no other one is
\* offered a new password.  The exception is a verification of another address that is
\* answered late: its token then sets that other account's password, until it is
\* answered in time or the user starts over.
PasswordPanelIsOfShownAccount ==
    "verifyReset" \notin late =>
        /\ form.resetToken # Blank => form.resetMode /\ form.resetToken = form.email /\ form.resetStage # "email"
        /\ ResetPasswordPanel => form.resetToken # Blank

\* The panels of the form are about what its user entered, however its modes, resets and
\* mutations follow each other, except the one panel that a late answer has just opened, and
\* starting over ends that as well (auth-flow.tsx).
FlowFollowsTheUser == CodePanelWasRequested /\ PasswordPanelIsOfShownAccount

=============================================================================
