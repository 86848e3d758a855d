---------------------------- MODULE SignInProofs ----------------------------
(***************************************************************************)
(* Codes, sessions and the pages that ask for them, for every limit and    *)
(* any number of addresses, universities, codes, tabs and requests in      *)
(* flight, and the limits every request passes.                            *)
(*                                                                         *)
(* That a code gives one session needs what happens between consuming the  *)
(* code and issuing the token: the holders' invariants say that a call     *)
(* that is there is the only one with its code and that no session, or     *)
(* token, of the code exists. Consuming is conditional on the code being   *)
(* unused, and a code that a call or a session has is used.                *)
(***************************************************************************)
EXTENDS MCSignIn, RunningTotalLemmas, SequenceTheorems, FiniteSetTheorems, TLAPS

-----------------------------------------------------------------------------
(* Codes and the reset of a password *)

\* The shape of the rows and slots, and that what they refer to exists.
RowsInv ==
    /\ challenges \in Seq(Challenge)
    /\ tokens \in Seq(Token)
    /\ changes \in Seq(Nat)
    /\ \A n \in 1..Len(changes) : changes[n] \in 1..Len(tokens)
    /\ request \in [Requests -> {"idle", "create"}]
    /\ verify \in [Verifiers -> Verification]
    /\ \A v \in Verifiers : verify[v].pc # "idle" => verify[v].challenge \in 1..Len(challenges)
    /\ reset \in [Resets -> Nat]
    /\ \A s \in Resets : reset[s] \in 0..Len(tokens)

\* A token's code was consumed.
CodeInv ==
    \A t \in 1..Len(tokens) :
        /\ tokens[t].challenge \in 1..Len(challenges)
        /\ challenges[tokens[t].challenge].consumed

\* A verification that has consumed its code and not yet issued the token.
Holds(v) == verify[v].pc \in {"clear", "issue"}

\* It is the only one to hold that code, and there is no token of it.
HolderInv ==
    \A v \in Verifiers : Holds(v) =>
        /\ challenges[verify[v].challenge].consumed
        /\ \A t \in 1..Len(tokens) : tokens[t].challenge # verify[v].challenge
        /\ \A w \in Verifiers :
              Holds(w) /\ verify[w].challenge = verify[v].challenge => w = v

\* A token that changed the password is used or deleted.
ChangesInv ==
    \A n \in 1..Len(changes) : tokens[changes[n]].state \in {"used", "deleted"}

\* The guesses at a code that are about to be counted.
Guessing(i) == {v \in Verifiers : verify[v].pc = "attempt" /\ verify[v].challenge = i}

\* The counted guesses at a code and those about to be counted together exceed
\* the limit by less than the number of verifiers.
AttemptsInv ==
    \A i \in 1..Len(challenges) :
        challenges[i].attempts + Cardinality(Guessing(i)) < MaxAttempts + Cardinality(Verifiers)

ResetInv ==
    /\ RowsInv
    /\ CodeInv
    /\ HolderInv
    /\ ChangesInv
    /\ CodeUsedOnce
    /\ TokenUsedOnce
    /\ NoTokenSurvivesChange

-----------------------------------------------------------------------------
(* Sequences of rows *)

\* A function on 1..n is a sequence of length n.
LEMMA FunctionIsSeq ==
    ASSUME NEW S, NEW n \in Nat, NEW f \in [1..n -> S]
    PROVE  f \in Seq(S) /\ Len(f) = n
<1>1. f \in Seq(S)
  BY SeqDef
<1>2. DOMAIN f = 1..Len(f) /\ Len(f) \in Nat
  BY <1>1, LenProperties
<1>3. 1..Len(f) = 1..n
  BY <1>2
<1>. QED
  BY <1>1, <1>2, <1>3

\* What appending a row does.
LEMMA Appended ==
    ASSUME NEW S, NEW s \in Seq(S), NEW e \in S
    PROVE  /\ Append(s, e) \in Seq(S)
           /\ Len(s) \in Nat
           /\ Len(Append(s, e)) = Len(s) + 1
           /\ \A i \in 1..Len(s) : Append(s, e)[i] = s[i]
           /\ Append(s, e)[Len(s) + 1] = e
  BY LenProperties, AppendProperties

\* An update of challenges keeps the rest of the state and the codes consumed.
LEMMA ChallengesUpdated ==
    ASSUME ResetInv, UNCHANGED <<tokens, changes, reset>>,
           challenges' \in Seq(Challenge), Len(challenges') >= Len(challenges),
           \A i \in 1..Len(challenges) : challenges[i].consumed => challenges'[i].consumed
    PROVE  /\ CodeInv' /\ ChangesInv' /\ CodeUsedOnce' /\ TokenUsedOnce' /\ NoTokenSurvivesChange'
           /\ \A i \in 1..Len(challenges) : i \in 1..Len(challenges')
<1>1. Len(challenges) \in Nat /\ Len(challenges') \in Nat
  BY LenProperties DEF ResetInv, RowsInv
<1>2. \A i \in 1..Len(challenges) : i \in 1..Len(challenges')
  BY <1>1
<1>3. CodeInv'
  BY <1>2 DEF ResetInv, CodeInv
<1>4. ChangesInv' /\ CodeUsedOnce' /\ TokenUsedOnce' /\ NoTokenSurvivesChange'
  BY DEF ResetInv, ChangesInv, CodeUsedOnce, TokenUsedOnce, NoTokenSurvivesChange
<1>. QED
  BY <1>2, <1>3, <1>4

-----------------------------------------------------------------------------

\* An account without codes satisfies the invariant.
LEMMA InitInv == Init => ResetInv
<1>. SUFFICES ASSUME Init PROVE ResetInv
  OBVIOUS
<1>1. Len(challenges) = 0 /\ Len(tokens) = 0 /\ Len(changes) = 0
  BY DEF Init
<1>2. challenges \in Seq(Challenge) /\ tokens \in Seq(Token) /\ changes \in Seq(Nat)
  BY EmptySeq DEF Init
<1>3. verify \in [Verifiers -> Verification] /\ \A v \in Verifiers : verify[v].pc = "idle"
  BY DEF Init, IdleVerify, Verification
<1>4. RowsInv
  BY <1>1, <1>2, <1>3 DEF Init, RowsInv
<1>5. CodeInv /\ HolderInv /\ ChangesInv
  BY <1>1, <1>3 DEF CodeInv, HolderInv, Holds, ChangesInv
<1>6. CodeUsedOnce /\ TokenUsedOnce /\ NoTokenSurvivesChange
  BY <1>1 DEF CodeUsedOnce, TokenUsedOnce, NoTokenSurvivesChange
<1>. QED
  BY <1>4, <1>5, <1>6 DEF ResetInv

\* A request for a code adds a row at most.
LEMMA RequestInv ==
    ASSUME ResetInv, NEW q \in Requests, RequestRead(q) \/ RequestCreate(q) \/ RequestFail(q)
    PROVE  ResetInv'
<1>1. UNCHANGED <<tokens, changes, reset, verify>>
  BY DEF RequestRead, RequestCreate, RequestFail
<1>2. request' \in [Requests -> {"idle", "create"}]
  BY DEF RequestRead, RequestCreate, RequestFail, ResetInv, RowsInv
<1>3. /\ challenges' \in Seq(Challenge)
      /\ Len(challenges) \in Nat
      /\ Len(challenges') >= Len(challenges)
      /\ \A i \in 1..Len(challenges) : challenges'[i] = challenges[i]
  <2>1. CASE UNCHANGED challenges
    BY <2>1, LenProperties DEF ResetInv, RowsInv
  <2>2. CASE RequestCreate(q)
    <3>. DEFINE c == [age |-> "cooling", attempts |-> 0, consumed |-> FALSE]
    <3>1. c \in Challenge
      BY DEF Challenge, Ages
    <3>2. challenges' = Append(challenges, c)
      BY <2>2 DEF RequestCreate
    <3>. QED
      BY <3>1, <3>2, Appended DEF ResetInv, RowsInv
  <2>. QED
    BY <2>1, <2>2 DEF RequestRead, RequestFail
<1>4. /\ CodeInv' /\ ChangesInv' /\ CodeUsedOnce' /\ TokenUsedOnce' /\ NoTokenSurvivesChange'
      /\ \A i \in 1..Len(challenges) : i \in 1..Len(challenges')
  BY <1>1, <1>3, ChallengesUpdated
<1>5. RowsInv'
  BY <1>1, <1>2, <1>3, <1>4 DEF ResetInv, RowsInv
<1>6. HolderInv'
  BY <1>1, <1>3 DEF ResetInv, RowsInv, HolderInv, Holds
<1>. QED
  BY <1>4, <1>5, <1>6 DEF ResetInv

\* Codes only age.
LEMMA AgeInv ==
    ASSUME ResetInv, NEW i \in 1..Len(challenges), ChallengeAges(i)
    PROVE  ResetInv'
<1>1. UNCHANGED <<tokens, changes, reset, verify, request>>
  BY DEF ChallengeAges
<1>2. PICK c : c = [challenges[i] EXCEPT !.age = Older[@]] /\ challenges' = [challenges EXCEPT ![i] = c]
  BY DEF ChallengeAges
<1>3. challenges \in Seq(Challenge) /\ challenges[i] \in Challenge
  BY ElementOfSeq DEF ResetInv, RowsInv
<1>4. c \in Challenge /\ c.consumed = challenges[i].consumed
  <2>1. Older[challenges[i].age] \in Ages
    BY <1>3 DEF ChallengeAges, Older, Challenge, Ages
  <2>. QED
    BY <1>2, <1>3, <2>1 DEF Challenge
<1>5. /\ challenges' \in Seq(Challenge)
      /\ Len(challenges') = Len(challenges)
      /\ \A j \in 1..Len(challenges) : challenges'[j].consumed = challenges[j].consumed
  BY <1>2, <1>3, <1>4, ExceptSeq
<1>6. CodeInv' /\ ChangesInv' /\ CodeUsedOnce' /\ TokenUsedOnce' /\ NoTokenSurvivesChange'
  BY <1>1, <1>3, <1>5, ChallengesUpdated, LenProperties
<1>7. RowsInv'
  BY <1>1, <1>5 DEF ResetInv, RowsInv
<1>8. HolderInv'
  BY <1>1, <1>5 DEF ResetInv, RowsInv, HolderInv, Holds
<1>. QED
  BY <1>6, <1>7, <1>8 DEF ResetInv

-----------------------------------------------------------------------------
(* verifyOtp and verifyPasswordResetOtp *)

\* A step of one verification that leaves the rows alone and holds no new code.
LEMMA VerifySlotInv ==
    ASSUME ResetInv, UNCHANGED <<challenges, tokens, changes, request, reset>>,
           NEW v \in Verifiers, NEW new \in Verification,
           verify' = [verify EXCEPT ![v] = new],
           new.pc # "idle" => new.challenge \in 1..Len(challenges),
           new.pc \in {"clear", "issue"} => Holds(v) /\ new.challenge = verify[v].challenge
    PROVE  ResetInv'
<1>1. \A w \in Verifiers : verify'[w] = IF w = v THEN new ELSE verify[w]
  BY DEF ResetInv, RowsInv
<1>2. RowsInv'
  BY <1>1 DEF ResetInv, RowsInv
<1>3. CodeInv' /\ ChangesInv' /\ CodeUsedOnce' /\ TokenUsedOnce' /\ NoTokenSurvivesChange'
  BY DEF ResetInv, CodeInv, ChangesInv, CodeUsedOnce, TokenUsedOnce, NoTokenSurvivesChange
<1>4. \A w \in Verifiers : Holds(w)' => Holds(w) /\ verify'[w].challenge = verify[w].challenge
  BY <1>1 DEF Holds
<1>5. HolderInv'
  BY <1>4 DEF ResetInv, HolderInv
<1>. QED
  BY <1>2, <1>3, <1>5 DEF ResetInv

\* Reading a code and giving up.
LEMMA ReadOrFailInv ==
    ASSUME ResetInv, NEW v \in Verifiers,
           \/ VerifyFail(v)
           \/ \E i \in 1..Len(challenges), match \in BOOLEAN : VerifyRead(v, i, match)
    PROVE  ResetInv'
<1>1. CASE VerifyFail(v)
  <2>1. IdleVerify \in Verification /\ IdleVerify.pc = "idle"
    BY DEF IdleVerify, Verification
  <2>. QED
    BY <1>1, <2>1, VerifySlotInv DEF VerifyFail
<1>2. ASSUME NEW i \in 1..Len(challenges), NEW match \in BOOLEAN, VerifyRead(v, i, match)
      PROVE  ResetInv'
  <2>. DEFINE n == [pc |-> "attempt", challenge |-> i, match |-> match]
  <2>1. n \in Verification /\ n.pc = "attempt" /\ n.challenge = i
    BY DEF Verification
  <2>2. verify' = [verify EXCEPT ![v] = n] /\ UNCHANGED <<challenges, tokens, changes, request, reset>>
    BY <1>2 DEF VerifyRead
  <2>. HIDE DEF n
  <2>. QED
    BY <2>1, <2>2, VerifySlotInv
<1>. QED
  BY <1>1, <1>2

\* What VerifyAttempt leaves in the slot.
LEMMA AttemptSlot ==
    ASSUME RowsInv, NEW v \in Verifiers, VerifyAttempt(v)
    PROVE  \E new \in Verification :
               /\ verify' = [verify EXCEPT ![v] = new]
               /\ new.pc \in {"idle", "consume"}
               /\ new.pc # "idle" => new.challenge = verify[v].challenge
<1>1. verify[v] \in Verification /\ IdleVerify \in Verification /\ IdleVerify.pc = "idle"
  BY DEF RowsInv, IdleVerify, Verification
<1>2. CASE verify[v].match
  <2>. DEFINE n == [verify[v] EXCEPT !.pc = "consume"]
  <2>1. n \in Verification /\ n.pc = "consume" /\ n.challenge = verify[v].challenge
    BY <1>1 DEF Verification
  <2>2. verify' = [verify EXCEPT ![v] = n]
    BY <1>2 DEF VerifyAttempt
  <2>. QED
    BY <2>1, <2>2
<1>3. CASE ~verify[v].match
  BY <1>1, <1>3 DEF VerifyAttempt
<1>. QED
  BY <1>2, <1>3

\* Counting a guess.
LEMMA AttemptInv ==
    ASSUME ResetInv, NEW v \in Verifiers, VerifyAttempt(v)
    PROVE  ResetInv'
<1>. DEFINE i == verify[v].challenge
<1>1. /\ UNCHANGED <<tokens, changes, request, reset>>
      /\ i \in 1..Len(challenges)
      /\ challenges \in Seq(Challenge)
      /\ challenges[i] \in Challenge
  BY ElementOfSeq DEF VerifyAttempt, ResetInv, RowsInv
<1>2. PICK c : c = [challenges[i] EXCEPT !.attempts = @ + 1] /\ challenges' = [challenges EXCEPT ![i] = c]
  BY DEF VerifyAttempt
<1>3. c \in Challenge /\ c.consumed = challenges[i].consumed
  BY <1>1, <1>2 DEF Challenge
<1>4. /\ challenges' \in Seq(Challenge)
      /\ Len(challenges') = Len(challenges)
      /\ \A j \in 1..Len(challenges) : challenges'[j].consumed = challenges[j].consumed
  BY <1>1, <1>2, <1>3, ExceptSeq
<1>5. PICK new \in Verification :
          /\ verify' = [verify EXCEPT ![v] = new]
          /\ new.pc \in {"idle", "consume"}
          /\ new.pc # "idle" => new.challenge = verify[v].challenge
  BY AttemptSlot DEF ResetInv
<1>6. \A w \in Verifiers : verify'[w] = IF w = v THEN new ELSE verify[w]
  BY <1>5 DEF ResetInv, RowsInv
<1>7. CodeInv' /\ ChangesInv' /\ CodeUsedOnce' /\ TokenUsedOnce' /\ NoTokenSurvivesChange'
  BY <1>1, <1>4, ChallengesUpdated, LenProperties
<1>8. RowsInv'
  BY <1>1, <1>4, <1>5, <1>6 DEF ResetInv, RowsInv
<1>9. HolderInv'
  <2>1. \A w \in Verifiers : Holds(w)' => Holds(w) /\ verify'[w] = verify[w]
    BY <1>5, <1>6 DEF Holds
  <2>. QED
    BY <1>1, <1>4, <2>1 DEF ResetInv, RowsInv, HolderInv, Holds
<1>. QED
  BY <1>7, <1>8, <1>9 DEF ResetInv

\* The conditional update lets one verification alone hold a code: no token of
\* an unconsumed code exists, and nobody else holds it.
LEMMA ConsumeInv ==
    ASSUME ResetInv, NEW v \in Verifiers, VerifyConsume(v)
    PROVE  ResetInv'
<1>. DEFINE i == verify[v].challenge
<1>1. /\ UNCHANGED <<tokens, changes, request, reset>>
      /\ i \in 1..Len(challenges)
      /\ challenges \in Seq(Challenge)
      /\ challenges[i] \in Challenge
      /\ verify[v] \in Verification
  BY ElementOfSeq DEF VerifyConsume, ResetInv, RowsInv
<1>2. CASE ~Consumable(i)
  <2>1. IdleVerify \in Verification /\ IdleVerify.pc = "idle"
    BY DEF IdleVerify, Verification
  <2>. QED
    BY <1>2, <2>1, VerifySlotInv DEF VerifyConsume
<1>3. CASE Consumable(i)
  <2>1. PICK c : c = [challenges[i] EXCEPT !.consumed = TRUE] /\ challenges' = [challenges EXCEPT ![i] = c]
    BY <1>3 DEF VerifyConsume
  <2>2. PICK new : new = [verify[v] EXCEPT !.pc = "clear"] /\ verify' = [verify EXCEPT ![v] = new]
    BY <1>3 DEF VerifyConsume
  <2>3. c \in Challenge /\ c.consumed
    BY <1>1, <2>1 DEF Challenge
  <2>4. new \in Verification /\ new.pc = "clear" /\ new.challenge = i
    BY <1>1, <2>2 DEF Verification
  <2>5. /\ challenges' \in Seq(Challenge)
        /\ Len(challenges') = Len(challenges)
        /\ \A j \in 1..Len(challenges) : challenges[j].consumed \/ j = i <=> challenges'[j].consumed
    <3>1. /\ challenges' \in Seq(Challenge)
          /\ Len(challenges') = Len(challenges)
          /\ \A j \in 1..Len(challenges) : challenges'[j] = IF j = i THEN c ELSE challenges[j]
      BY <1>1, <2>1, <2>3, ExceptSeq
    <3>. QED
      BY <2>3, <3>1
  <2>6. \A w \in Verifiers : verify'[w] = IF w = v THEN new ELSE verify[w]
    BY <2>2 DEF ResetInv, RowsInv
  <2>7. CodeInv' /\ ChangesInv' /\ CodeUsedOnce' /\ TokenUsedOnce' /\ NoTokenSurvivesChange'
    BY <1>1, <2>5, ChallengesUpdated, LenProperties
  <2>8. RowsInv'
    BY <1>1, <2>2, <2>4, <2>5, <2>6 DEF ResetInv, RowsInv
  <2>9. ~challenges[i].consumed
    BY <1>3 DEF Consumable
  <2>10. \A w \in Verifiers : w # v /\ Holds(w) => verify[w].challenge # i
    BY <2>9 DEF ResetInv, HolderInv
  <2>11. \A t \in 1..Len(tokens) : tokens[t].challenge # i
    BY <2>9 DEF ResetInv, CodeInv
  <2>12. HolderInv'
    <3>. SUFFICES ASSUME NEW w \in Verifiers, Holds(w)'
                  PROVE  /\ challenges'[verify'[w].challenge].consumed
                         /\ \A t \in 1..Len(tokens) : tokens[t].challenge # verify'[w].challenge
                         /\ \A x \in Verifiers :
                               Holds(x)' /\ verify'[x].challenge = verify'[w].challenge => x = w
      BY <1>1 DEF HolderInv
    <3>1. CASE w = v
      <4>1. verify'[w].challenge = i
        BY <2>4, <2>6, <3>1
      <4>2. \A x \in Verifiers : Holds(x)' /\ x # v => Holds(x) /\ verify'[x].challenge = verify[x].challenge
        BY <2>6 DEF Holds
      <4>. QED
        BY <1>1, <2>5, <2>10, <2>11, <3>1, <4>1, <4>2
    <3>2. CASE w # v
      <4>1. Holds(w) /\ verify'[w] = verify[w] /\ verify[w].challenge \in 1..Len(challenges)
        BY <2>6, <3>2 DEF Holds, ResetInv, RowsInv
      <4>2. /\ challenges[verify[w].challenge].consumed
            /\ \A t \in 1..Len(tokens) : tokens[t].challenge # verify[w].challenge
            /\ \A x \in Verifiers :
                  Holds(x) /\ verify[x].challenge = verify[w].challenge => x = w
        BY <4>1 DEF ResetInv, HolderInv
      <4>3. verify'[v].challenge # verify'[w].challenge
        BY <2>4, <2>6, <2>10, <3>2, <4>1
      <4>4. \A x \in Verifiers : Holds(x)' /\ x # v => Holds(x) /\ verify'[x] = verify[x]
        BY <2>6 DEF Holds
      <4>. QED
        BY <2>5, <4>1, <4>2, <4>3, <4>4
    <3>. QED
      BY <3>1, <3>2
  <2>. QED
    BY <2>7, <2>8, <2>12 DEF ResetInv
<1>. QED
  BY <1>2, <1>3

-----------------------------------------------------------------------------
(* Tokens *)

\* Tokens keep what they say and never become usable again.
OnlyEnds(u) ==
    /\ tokens'[u].challenge = tokens[u].challenge
    /\ tokens'[u].after = tokens[u].after
    /\ tokens[u].state \in {"used", "deleted"} => tokens'[u].state \in {"used", "deleted"}

\* An update of the states of tokens in which no token becomes usable again.
LEMMA TokensUpdated ==
    ASSUME ResetInv, UNCHANGED <<challenges, changes>>,
           tokens' \in Seq(Token), Len(tokens') = Len(tokens),
           \A u \in 1..Len(tokens) : OnlyEnds(u)
    PROVE  CodeInv' /\ ChangesInv' /\ CodeUsedOnce' /\ TokenUsedOnce' /\ NoTokenSurvivesChange'
<1>1. CodeInv' /\ CodeUsedOnce'
  BY DEF ResetInv, CodeInv, CodeUsedOnce, OnlyEnds
<1>2. ChangesInv' /\ TokenUsedOnce'
  BY DEF ResetInv, RowsInv, ChangesInv, TokenUsedOnce, OnlyEnds
<1>3. NoTokenSurvivesChange'
  <2>. SUFFICES ASSUME NEW u \in 1..Len(tokens), tokens'[u].state \in {"live", "expired"}
                PROVE  tokens'[u].after = Len(changes)
    BY DEF NoTokenSurvivesChange
  <2>1. tokens[u] \in Token /\ OnlyEnds(u)
    BY ElementOfSeq DEF ResetInv, RowsInv
  <2>2. tokens[u].state \in {"live", "expired"}
    BY <2>1 DEF OnlyEnds, Token
  <2>. QED
    BY <2>1, <2>2 DEF OnlyEnds, ResetInv, NoTokenSurvivesChange
<1>. QED
  BY <1>1, <1>2, <1>3

\* Deleting a set of tokens.
LEMMA Deleted ==
    ASSUME tokens \in Seq(Token), NEW kept,
           tokens' = [u \in DOMAIN tokens |->
                         IF u \in kept THEN tokens[u] ELSE [tokens[u] EXCEPT !.state = "deleted"]]
    PROVE  /\ tokens' \in Seq(Token)
           /\ Len(tokens') = Len(tokens)
           /\ \A u \in 1..Len(tokens) : OnlyEnds(u)
           /\ \A u \in 1..Len(tokens) : u \notin kept => tokens'[u].state = "deleted"
<1>1. Len(tokens) \in Nat /\ DOMAIN tokens = 1..Len(tokens)
  BY LenProperties
<1>2. \A u \in 1..Len(tokens) : tokens[u] \in Token
  BY ElementOfSeq
<1>3. \A u \in 1..Len(tokens) : [tokens[u] EXCEPT !.state = "deleted"] \in Token
  BY <1>2 DEF Token
<1>4. tokens' \in [1..Len(tokens) -> Token]
  BY <1>1, <1>2, <1>3
<1>5. tokens' \in Seq(Token) /\ Len(tokens') = Len(tokens)
  BY <1>1, <1>4, FunctionIsSeq
<1>6. \A u \in 1..Len(tokens) :
          tokens'[u] = IF u \in kept THEN tokens[u] ELSE [tokens[u] EXCEPT !.state = "deleted"]
  BY <1>1
<1>7. \A u \in 1..Len(tokens) : OnlyEnds(u)
  BY <1>2, <1>6 DEF OnlyEnds, Token
<1>8. \A u \in 1..Len(tokens) : u \notin kept => tokens'[u].state = "deleted"
  BY <1>2, <1>6 DEF Token
<1>. QED
  BY <1>5, <1>7, <1>8

\* The tokens that were not used are deleted before a new one is issued.
LEMMA ClearTokensInv ==
    ASSUME ResetInv, NEW v \in Verifiers, ClearTokens(v)
    PROVE  ResetInv'
<1>1. UNCHANGED <<challenges, changes, request, reset>>
  BY DEF ClearTokens
<1>2. tokens \in Seq(Token) /\ verify[v] \in Verification /\ verify[v].pc = "clear"
  BY DEF ResetInv, RowsInv, ClearTokens
<1>3. PICK kept : kept = {u \in DOMAIN tokens : tokens[u].state = "used"}
  OBVIOUS
<1>4. tokens' = [u \in DOMAIN tokens |->
                    IF u \in kept THEN tokens[u] ELSE [tokens[u] EXCEPT !.state = "deleted"]]
  BY <1>3 DEF ClearTokens
<1>5. /\ tokens' \in Seq(Token)
      /\ Len(tokens') = Len(tokens)
      /\ \A u \in 1..Len(tokens) : OnlyEnds(u)
  BY <1>2, <1>4, Deleted
<1>6. CodeInv' /\ ChangesInv' /\ CodeUsedOnce' /\ TokenUsedOnce' /\ NoTokenSurvivesChange'
  BY <1>1, <1>5, TokensUpdated
<1>7. PICK new : new = [verify[v] EXCEPT !.pc = "issue"] /\ verify' = [verify EXCEPT ![v] = new]
  BY DEF ClearTokens
<1>8. new \in Verification /\ new.pc = "issue" /\ new.challenge = verify[v].challenge
  BY <1>2, <1>7 DEF Verification
<1>9. \A w \in Verifiers : verify'[w] = IF w = v THEN new ELSE verify[w]
  BY <1>7 DEF ResetInv, RowsInv
<1>10. RowsInv'
  BY <1>1, <1>2, <1>5, <1>7, <1>8, <1>9 DEF ResetInv, RowsInv
<1>11. HolderInv'
  <2>1. \A w \in Verifiers : Holds(w)' => Holds(w) /\ verify'[w].challenge = verify[w].challenge
    BY <1>2, <1>8, <1>9 DEF Holds
  <2>. QED
    BY <1>1, <1>5, <2>1 DEF ResetInv, HolderInv, OnlyEnds
<1>. QED
  BY <1>6, <1>10, <1>11 DEF ResetInv

\* The one verification that holds a code issues its token.
LEMMA IssueTokenInv ==
    ASSUME ResetInv, NEW v \in Verifiers, IssueToken(v)
    PROVE  ResetInv'
<1>. DEFINE i == verify[v].challenge
<1>1. UNCHANGED <<challenges, changes, request, reset>>
  BY DEF IssueToken
<1>2. PICK e : /\ e = [state |-> "live", challenge |-> i, after |-> Len(changes)]
               /\ tokens' = Append(tokens, e)
  BY DEF IssueToken
<1>3. /\ verify[v].pc = "issue" /\ i \in 1..Len(challenges)
      /\ Len(changes) \in Nat /\ Len(challenges) \in Nat
  BY LenProperties DEF ResetInv, RowsInv, IssueToken
<1>4. e \in Token
  BY <1>2, <1>3 DEF Token
<1>5. /\ tokens' \in Seq(Token)
      /\ Len(tokens) \in Nat
      /\ Len(tokens') = Len(tokens) + 1
      /\ \A u \in 1..Len(tokens) : tokens'[u] = tokens[u]
      /\ tokens'[Len(tokens) + 1] = e
  BY <1>2, <1>4, Appended DEF ResetInv, RowsInv
<1>6. \A u \in 1..Len(tokens') : u \in 1..Len(tokens) \/ u = Len(tokens) + 1
  BY <1>5
<1>7. \A u \in 1..Len(tokens) : u \in 1..Len(tokens')
  BY <1>5
<1>8. IdleVerify \in Verification /\ IdleVerify.pc = "idle"
  BY DEF IdleVerify, Verification
<1>9. verify' = [verify EXCEPT ![v] = IdleVerify]
  BY DEF IssueToken
<1>10. \A w \in Verifiers : verify'[w] = IF w = v THEN IdleVerify ELSE verify[w]
  BY <1>9 DEF ResetInv, RowsInv
<1>11. RowsInv'
  <2>1. \A s \in Resets : reset'[s] \in 0..Len(tokens')
    BY <1>1, <1>5 DEF ResetInv, RowsInv
  <2>. QED
    BY <1>1, <1>5, <1>7, <1>8, <1>9, <1>10, <2>1 DEF ResetInv, RowsInv
<1>12. challenges[i].consumed /\ \A t \in 1..Len(tokens) : tokens[t].challenge # i
  BY <1>3 DEF ResetInv, HolderInv, Holds
<1>13. CodeInv'
  BY <1>1, <1>2, <1>3, <1>5, <1>6, <1>12 DEF ResetInv, CodeInv
<1>14. CodeUsedOnce'
  BY <1>2, <1>5, <1>6, <1>12 DEF ResetInv, CodeUsedOnce
<1>15. ChangesInv' /\ TokenUsedOnce'
  BY <1>1, <1>5 DEF ResetInv, RowsInv, ChangesInv, TokenUsedOnce
<1>16. NoTokenSurvivesChange'
  BY <1>1, <1>2, <1>5, <1>6 DEF ResetInv, NoTokenSurvivesChange
<1>17. HolderInv'
  <2>1. \A w \in Verifiers : Holds(w)' => w # v /\ Holds(w) /\ verify'[w] = verify[w]
    BY <1>8, <1>10 DEF Holds
  <2>2. \A w \in Verifiers : w # v /\ Holds(w) => verify[w].challenge # i
    BY <1>3 DEF ResetInv, HolderInv, Holds
  <2>3. \A w \in Verifiers : Holds(w)' =>
            \A t \in 1..Len(tokens') : tokens'[t].challenge # verify'[w].challenge
    BY <1>2, <1>5, <1>6, <2>1, <2>2 DEF ResetInv, HolderInv
  <2>. QED
    BY <1>1, <2>1, <2>3 DEF ResetInv, HolderInv
<1>. QED
  BY <1>11, <1>13, <1>14, <1>15, <1>16, <1>17 DEF ResetInv

\* A token expires.
LEMMA TokenExpiresInv ==
    ASSUME ResetInv, NEW t \in 1..Len(tokens), TokenExpires(t)
    PROVE  ResetInv'
<1>1. UNCHANGED <<challenges, changes, request, verify, reset>> /\ tokens[t].state = "live"
  BY DEF TokenExpires
<1>2. PICK e : e = [tokens[t] EXCEPT !.state = "expired"] /\ tokens' = [tokens EXCEPT ![t] = e]
  BY DEF TokenExpires
<1>3. tokens \in Seq(Token) /\ tokens[t] \in Token
  BY ElementOfSeq DEF ResetInv, RowsInv
<1>4. e \in Token /\ e.challenge = tokens[t].challenge /\ e.after = tokens[t].after
  BY <1>2, <1>3 DEF Token
<1>5. /\ tokens' \in Seq(Token)
      /\ Len(tokens') = Len(tokens)
      /\ \A u \in 1..Len(tokens) : tokens'[u] = IF u = t THEN e ELSE tokens[u]
  BY <1>2, <1>3, <1>4, ExceptSeq
<1>6. \A u \in 1..Len(tokens) : OnlyEnds(u)
  BY <1>1, <1>4, <1>5 DEF OnlyEnds
<1>7. CodeInv' /\ ChangesInv' /\ CodeUsedOnce' /\ TokenUsedOnce' /\ NoTokenSurvivesChange'
  BY <1>1, <1>5, <1>6, TokensUpdated
<1>8. RowsInv'
  BY <1>1, <1>5 DEF ResetInv, RowsInv
<1>9. HolderInv'
  BY <1>1, <1>5, <1>6 DEF ResetInv, HolderInv, Holds, OnlyEnds
<1>. QED
  BY <1>7, <1>8, <1>9 DEF ResetInv

-----------------------------------------------------------------------------
(* resetPassword *)

\* Reading a token and giving up.
LEMMA ResetSlotInv ==
    ASSUME ResetInv, NEW s \in Resets,
           ResetFail(s) \/ \E t \in 1..Len(tokens) : ResetRead(s, t)
    PROVE  ResetInv'
<1>1. UNCHANGED <<challenges, tokens, changes, request, verify>>
  BY DEF ResetFail, ResetRead
<1>2. PICK n \in 0..Len(tokens) : reset' = [reset EXCEPT ![s] = n]
  <2>1. Len(tokens) \in Nat
    BY LenProperties DEF ResetInv, RowsInv
  <2>2. 0 \in 0..Len(tokens) /\ \A t \in 1..Len(tokens) : t \in 0..Len(tokens)
    BY <2>1
  <2>3. ResetFail(s) => reset' = [reset EXCEPT ![s] = 0]
    BY DEF ResetFail
  <2>4. \A t \in 1..Len(tokens) : ResetRead(s, t) => reset' = [reset EXCEPT ![s] = t]
    BY DEF ResetRead
  <2>. QED
    BY <2>2, <2>3, <2>4, Zenon
<1>3. RowsInv'
  BY <1>1, <1>2 DEF ResetInv, RowsInv
<1>4. CodeInv' /\ HolderInv' /\ ChangesInv' /\ CodeUsedOnce' /\ TokenUsedOnce' /\ NoTokenSurvivesChange'
  BY <1>1 DEF ResetInv, CodeInv, HolderInv, Holds, ChangesInv, CodeUsedOnce, TokenUsedOnce,
     NoTokenSurvivesChange
<1>. QED
  BY <1>3, <1>4 DEF ResetInv

\* The transaction uses a token that is there and unused, so it never changed a
\* password before, and it leaves no usable token behind.
LEMMA ResetCommitInv ==
    ASSUME ResetInv, NEW s \in Resets, ResetCommit(s)
    PROVE  ResetInv'
<1>. DEFINE t == reset[s]
<1>1. UNCHANGED <<challenges, request, verify>> /\ reset' = [reset EXCEPT ![s] = 0]
  BY DEF ResetCommit
<1>2. /\ tokens \in Seq(Token) /\ changes \in Seq(Nat)
      /\ Len(tokens) \in Nat /\ Len(changes) \in Nat
      /\ t \in 1..Len(tokens) /\ t \in Nat
      /\ tokens[t].state \in {"live", "expired"}
  BY LenProperties DEF ResetInv, RowsInv, ResetCommit, StillUsable
<1>3. \A u \in 1..Len(tokens) : tokens[u] \in Token
  BY <1>2, ElementOfSeq
<1>4. /\ OtherTokens(t) \in Seq(Token)
      /\ Len(OtherTokens(t)) = Len(tokens)
      /\ \A u \in 1..Len(tokens) : OtherTokens(t)[u] = [tokens[u] EXCEPT !.state = "deleted"]
  <2>1. DOMAIN tokens = 1..Len(tokens)
    BY <1>2, LenProperties
  <2>2. \A u \in 1..Len(tokens) : [tokens[u] EXCEPT !.state = "deleted"] \in Token
    BY <1>3 DEF Token
  <2>3. OtherTokens(t) \in [1..Len(tokens) -> Token]
    BY <2>1, <2>2 DEF OtherTokens
  <2>4. \A u \in 1..Len(tokens) : OtherTokens(t)[u] = [tokens[u] EXCEPT !.state = "deleted"]
    BY <2>1 DEF OtherTokens
  <2>. QED
    BY <1>2, <2>3, <2>4, FunctionIsSeq
<1>5. PICK e : /\ e = [tokens[t] EXCEPT !.state = "used"]
               /\ tokens' = [OtherTokens(t) EXCEPT ![t] = e]
  BY DEF ResetCommit
<1>6. e \in Token /\ e.state = "used"
  BY <1>2, <1>3, <1>5 DEF Token
<1>7. /\ tokens' \in Seq(Token)
      /\ Len(tokens') = Len(tokens)
      /\ \A u \in 1..Len(tokens) :
            tokens'[u] = IF u = t THEN e ELSE [tokens[u] EXCEPT !.state = "deleted"]
  BY <1>2, <1>4, <1>5, <1>6, ExceptSeq
<1>8. \A u \in 1..Len(tokens) : /\ tokens'[u].state \in {"used", "deleted"}
                               /\ tokens'[u].challenge = tokens[u].challenge
  <2>. SUFFICES ASSUME NEW u \in 1..Len(tokens)
                PROVE  /\ tokens'[u].state \in {"used", "deleted"}
                       /\ tokens'[u].challenge = tokens[u].challenge
    OBVIOUS
  <2>1. e.challenge = tokens[t].challenge
    BY <1>2, <1>3, <1>5 DEF Token
  <2>2. /\ [tokens[u] EXCEPT !.state = "deleted"].state = "deleted"
        /\ [tokens[u] EXCEPT !.state = "deleted"].challenge = tokens[u].challenge
    BY <1>3 DEF Token
  <2>. QED
    BY <1>6, <1>7, <2>1, <2>2
<1>9. /\ changes' \in Seq(Nat)
      /\ Len(changes') = Len(changes) + 1
      /\ \A n \in 1..Len(changes) : changes'[n] = changes[n]
      /\ changes'[Len(changes) + 1] = t
  BY <1>2, Appended DEF ResetCommit
<1>10. \A n \in 1..Len(changes') : n \in 1..Len(changes) \/ n = Len(changes) + 1
  BY <1>2, <1>9
<1>11. \A n \in 1..Len(changes') : changes'[n] \in 1..Len(tokens)
  BY <1>2, <1>9, <1>10 DEF ResetInv, RowsInv
<1>12. RowsInv'
  <2>1. reset' \in [Resets -> Nat] /\ \A r \in Resets : reset'[r] \in 0..Len(tokens)
    BY <1>1, <1>2 DEF ResetInv, RowsInv
  <2>. QED
    BY <1>1, <1>7, <1>9, <1>11, <2>1 DEF ResetInv, RowsInv
<1>13. CodeInv' /\ CodeUsedOnce'
  BY <1>1, <1>7, <1>8 DEF ResetInv, CodeInv, CodeUsedOnce
<1>14. HolderInv'
  BY <1>1, <1>7, <1>8 DEF ResetInv, HolderInv, Holds
<1>15. ChangesInv'
  BY <1>8, <1>11 DEF ChangesInv
<1>16. \A n \in 1..Len(changes) : changes[n] # t
  BY <1>2 DEF ResetInv, ChangesInv
<1>17. TokenUsedOnce'
  BY <1>9, <1>10, <1>16 DEF ResetInv, TokenUsedOnce
<1>18. NoTokenSurvivesChange'
  BY <1>7, <1>8 DEF NoTokenSurvivesChange
<1>. QED
  BY <1>12, <1>13, <1>14, <1>15, <1>17, <1>18 DEF ResetInv

-----------------------------------------------------------------------------

\* ResetInv is inductive.
LEMMA NextInv == ResetInv /\ [Next]_vars => ResetInv'
<1>. SUFFICES ASSUME ResetInv, [Next]_vars PROVE ResetInv'
  OBVIOUS
<1>1. CASE CodeNext
  <2>1. CASE \E q \in Requests : RequestRead(q) \/ RequestCreate(q) \/ RequestFail(q)
    BY <2>1, RequestInv
  <2>2. ASSUME NEW v \in Verifiers,
               \/ \E i \in 1..Len(challenges), match \in BOOLEAN : VerifyRead(v, i, match)
               \/ VerifyAttempt(v)
               \/ VerifyConsume(v)
               \/ ClearTokens(v)
               \/ IssueToken(v)
               \/ VerifyFail(v)
        PROVE  ResetInv'
    BY <2>2, ReadOrFailInv, AttemptInv, ConsumeInv, ClearTokensInv, IssueTokenInv
  <2>. QED
    BY <1>1, <2>1, <2>2 DEF CodeNext
<1>2. CASE ResetNext
  BY <1>2, ResetSlotInv, ResetCommitInv DEF ResetNext
<1>3. CASE TimeNext
  BY <1>3, AgeInv, TokenExpiresInv DEF TimeNext
<1>4. CASE UNCHANGED vars
  BY <1>4 DEF vars, ResetInv, RowsInv, CodeInv, HolderInv, Holds, ChangesInv, CodeUsedOnce,
     TokenUsedOnce, NoTokenSurvivesChange
<1>. QED
  BY <1>1, <1>2, <1>3, <1>4 DEF Next

\* The invariant holds in every reachable state.
THEOREM ResetInvariant == Spec => []ResetInv
  BY InitInv, NextInv, PTL DEF Spec

\* A code is exchanged for at most one token, however many verifications compare
\* it before one of them consumes it.
THEOREM CodesAreUsedOnce == Spec => []CodeUsedOnce
  BY ResetInvariant, PTL DEF ResetInv

\* A token changes the password at most once.
THEOREM TokensAreUsedOnce == Spec => []TokenUsedOnce
  BY ResetInvariant, PTL DEF ResetInv

\* No token that was issued before a password change is usable after it.
THEOREM ChangesEndTokens == Spec => []NoTokenSurvivesChange
  BY ResetInvariant, PTL DEF ResetInv

\* No code and no token is used again, and none outlives a password change.
THEOREM SecretsStaySpent == Spec => []SecretsAreSpent
<1>1. ResetInv => SecretsAreSpent
  BY DEF ResetInv, SecretsAreSpent
<1>. QED
  BY <1>1, ResetInvariant, PTL

-----------------------------------------------------------------------------
(* The limit of guesses *)

\* The attempts of a row are a number.
LEMMA AttemptsAreNat ==
    ASSUME RowsInv, NEW i \in 1..Len(challenges)
    PROVE  challenges[i].attempts \in Nat
<1>1. challenges[i] \in Challenge
  BY ElementOfSeq DEF RowsInv
<1>. QED
  BY <1>1 DEF Challenge

\* There are at most as many guesses in flight as verifiers.
LEMMA GuessingBound ==
    ASSUME NEW i
    PROVE  /\ IsFiniteSet(Guessing(i))
           /\ Cardinality(Guessing(i)) \in Nat
           /\ Cardinality(Guessing(i)) <= Cardinality(Verifiers)
           /\ Cardinality(Verifiers) \in Nat
<1>1. Guessing(i) \in SUBSET Verifiers /\ IsFiniteSet(Verifiers)
  BY PasswordResetAssumption DEF Guessing
<1>. QED
  BY <1>1, FS_Subset, FS_CardinalityType

\* The same in the next state.
LEMMA GuessingBoundNext ==
    ASSUME NEW i
    PROVE  /\ IsFiniteSet(Guessing(i)')
           /\ Cardinality(Guessing(i)') \in Nat
           /\ Cardinality(Guessing(i)') <= Cardinality(Verifiers)
<1>1. Guessing(i)' \in SUBSET Verifiers /\ IsFiniteSet(Verifiers)
  BY PasswordResetAssumption DEF Guessing
<1>. QED
  BY <1>1, FS_Subset, FS_CardinalityType

\* A step that counts nothing and starts no guess keeps the bound.
LEMMA AttemptsKept ==
    ASSUME RowsInv, AttemptsInv, RowsInv',
           Len(challenges') = Len(challenges),
           \A i \in 1..Len(challenges) : challenges'[i].attempts = challenges[i].attempts,
           \A v \in Verifiers : verify'[v].pc = "attempt" => verify'[v] = verify[v]
    PROVE  AttemptsInv'
<1>. SUFFICES ASSUME NEW i \in 1..Len(challenges)
              PROVE  challenges[i].attempts + Cardinality(Guessing(i)') < MaxAttempts + Cardinality(Verifiers)
  BY DEF AttemptsInv
<1>1. Guessing(i)' \in SUBSET Guessing(i)
  BY DEF Guessing
<1>2. Cardinality(Guessing(i)') <= Cardinality(Guessing(i))
  BY <1>1, GuessingBound, FS_Subset
<1>3. challenges[i].attempts \in Nat
  BY AttemptsAreNat
<1>4. challenges[i].attempts + Cardinality(Guessing(i)) < MaxAttempts + Cardinality(Verifiers)
  BY DEF AttemptsInv
<1>. QED
  BY <1>2, <1>3, <1>4, GuessingBound, GuessingBoundNext, PasswordResetAssumption

\* A new code has no attempts, and fewer guesses in flight than the bound.
LEMMA RequestAttempts ==
    ASSUME RowsInv, AttemptsInv, RowsInv', NEW q \in Requests, RequestCreate(q)
    PROVE  AttemptsInv'
<1>1. PICK c : c.attempts = 0 /\ c \in Challenge /\ challenges' = Append(challenges, c)
  <2>. DEFINE c == [age |-> "cooling", attempts |-> 0, consumed |-> FALSE]
  <2>1. c \in Challenge /\ c.attempts = 0
    BY DEF Challenge, Ages
  <2>. QED
    BY <2>1 DEF RequestCreate
<1>2. /\ Len(challenges) \in Nat
      /\ Len(challenges') = Len(challenges) + 1
      /\ \A i \in 1..Len(challenges) : challenges'[i] = challenges[i]
      /\ challenges'[Len(challenges) + 1] = c
  BY <1>1, Appended DEF RowsInv
<1>3. \A i : Guessing(i)' = Guessing(i)
  BY DEF RequestCreate, Guessing
<1>. SUFFICES ASSUME NEW i \in 1..Len(challenges')
              PROVE  challenges'[i].attempts + Cardinality(Guessing(i)) < MaxAttempts + Cardinality(Verifiers)
  BY <1>3 DEF AttemptsInv
<1>4. CASE i \in 1..Len(challenges)
  BY <1>2, <1>4 DEF AttemptsInv
<1>5. CASE i = Len(challenges) + 1
  BY <1>1, <1>2, <1>5, GuessingBound, PasswordResetAssumption
<1>. QED
  BY <1>2, <1>4, <1>5

\* A guess is only started while the attempts are below the limit.
LEMMA ReadAttempts ==
    ASSUME RowsInv, AttemptsInv, RowsInv', NEW v \in Verifiers,
           NEW i \in 1..Len(challenges), NEW match \in BOOLEAN, VerifyRead(v, i, match)
    PROVE  AttemptsInv'
<1>1. challenges' = challenges /\ challenges[i].attempts < MaxAttempts
  BY DEF VerifyRead, MayTry
<1>2. \A w \in Verifiers :
         verify'[w] = IF w = v THEN [pc |-> "attempt", challenge |-> i, match |-> match] ELSE verify[w]
  BY DEF VerifyRead, RowsInv
<1>. SUFFICES ASSUME NEW j \in 1..Len(challenges)
              PROVE  challenges[j].attempts + Cardinality(Guessing(j)') < MaxAttempts + Cardinality(Verifiers)
  BY <1>1 DEF AttemptsInv
<1>3. challenges[j].attempts \in Nat
  BY AttemptsAreNat
<1>4. CASE j = i
  <2>1. /\ Cardinality(Guessing(j)') \in Nat
        /\ Cardinality(Guessing(j)') <= Cardinality(Verifiers)
        /\ Cardinality(Verifiers) \in Nat
    BY GuessingBound, GuessingBoundNext
  <2>. QED
    BY <1>1, <1>3, <1>4, <2>1, PasswordResetAssumption
<1>5. CASE j # i
  <2>1. Guessing(j)' \in SUBSET Guessing(j)
    BY <1>2, <1>5 DEF Guessing
  <2>2. Cardinality(Guessing(j)') <= Cardinality(Guessing(j))
    BY <2>1, GuessingBound, FS_Subset
  <2>3. challenges[j].attempts + Cardinality(Guessing(j)) < MaxAttempts + Cardinality(Verifiers)
    BY DEF AttemptsInv
  <2>. QED
    BY <1>3, <2>2, <2>3, GuessingBound, GuessingBoundNext, PasswordResetAssumption
<1>. QED
  BY <1>4, <1>5

\* A guess in flight becomes a counted one.
LEMMA CountAttempts ==
    ASSUME RowsInv, AttemptsInv, RowsInv', NEW v \in Verifiers, VerifyAttempt(v)
    PROVE  AttemptsInv'
<1>. DEFINE i == verify[v].challenge
<1>1. /\ i \in 1..Len(challenges)
      /\ verify[v].pc = "attempt"
      /\ challenges \in Seq(Challenge)
      /\ \A j \in 1..Len(challenges) : challenges[j] \in Challenge
  BY ElementOfSeq DEF VerifyAttempt, RowsInv
<1>2. PICK c : c = [challenges[i] EXCEPT !.attempts = @ + 1] /\ challenges' = [challenges EXCEPT ![i] = c]
  BY DEF VerifyAttempt
<1>3. c \in Challenge /\ c.attempts = challenges[i].attempts + 1
  <2>1. challenges[i] \in Challenge
    BY <1>1
  <2>. QED
    BY <1>2, <2>1 DEF Challenge
<1>4. /\ Len(challenges') = Len(challenges)
      /\ \A j \in 1..Len(challenges) : challenges'[j] = IF j = i THEN c ELSE challenges[j]
  BY <1>1, <1>2, <1>3, ExceptSeq
<1>5. PICK new \in Verification :
          /\ verify' = [verify EXCEPT ![v] = new]
          /\ new.pc \in {"idle", "consume"}
          /\ new.pc # "idle" => new.challenge = verify[v].challenge
  BY AttemptSlot
<1>6. \A w \in Verifiers : verify'[w] = IF w = v THEN new ELSE verify[w]
  BY <1>5 DEF RowsInv
<1>. SUFFICES ASSUME NEW j \in 1..Len(challenges)
              PROVE  challenges'[j].attempts + Cardinality(Guessing(j)') < MaxAttempts + Cardinality(Verifiers)
  BY <1>4 DEF AttemptsInv
<1>7. Guessing(j)' = Guessing(j) \ {v}
  BY <1>5, <1>6 DEF Guessing
<1>8. v \in Guessing(i)
  BY <1>1 DEF Guessing
<1>9. /\ challenges[j].attempts \in Nat
      /\ challenges[j].attempts + Cardinality(Guessing(j)) < MaxAttempts + Cardinality(Verifiers)
  BY <1>1 DEF AttemptsInv, Challenge
<1>10. Cardinality(Guessing(j) \ {v}) =
          IF v \in Guessing(j) THEN Cardinality(Guessing(j)) - 1 ELSE Cardinality(Guessing(j))
  BY GuessingBound, FS_RemoveElement
<1>11. CASE j = i
  BY <1>3, <1>4, <1>7, <1>8, <1>9, <1>10, <1>11, GuessingBound, PasswordResetAssumption
<1>12. CASE j # i
  <2>1. v \notin Guessing(j)
    BY <1>12 DEF Guessing
  <2>. QED
    BY <1>4, <1>7, <1>9, <1>10, <1>12, <2>1
<1>. QED
  BY <1>11, <1>12

\* Every other step keeps the attempts and starts no guess.
LEMMA NextAttempts ==
    ASSUME RowsInv, AttemptsInv, RowsInv', [Next]_vars
    PROVE  AttemptsInv'
<1>1. ASSUME NEW v \in Verifiers, VerifyConsume(v) \/ ClearTokens(v) \/ IssueToken(v) \/ VerifyFail(v)
      PROVE  AttemptsInv'
  <2>1. PICK new : verify' = [verify EXCEPT ![v] = new] /\ new.pc # "attempt"
    <3>1. verify[v] \in Verification /\ IdleVerify.pc # "attempt"
      BY DEF RowsInv, IdleVerify
    <3>2. /\ [verify[v] EXCEPT !.pc = "clear"].pc # "attempt"
          /\ [verify[v] EXCEPT !.pc = "issue"].pc # "attempt"
      BY <3>1 DEF Verification
    <3>. QED
      BY <1>1, <3>1, <3>2 DEF VerifyConsume, ClearTokens, IssueToken, VerifyFail
  <2>2. \A w \in Verifiers : verify'[w].pc = "attempt" => verify'[w] = verify[w]
    BY <2>1 DEF RowsInv
  <2>3. CASE UNCHANGED challenges
    BY <2>2, <2>3, AttemptsKept
  <2>4. CASE VerifyConsume(v) /\ Consumable(verify[v].challenge)
    <3>. DEFINE i == verify[v].challenge
    <3>1. i \in 1..Len(challenges) /\ challenges \in Seq(Challenge) /\ challenges[i] \in Challenge
      BY <2>4, ElementOfSeq DEF RowsInv, VerifyConsume
    <3>2. PICK c : c = [challenges[i] EXCEPT !.consumed = TRUE] /\ challenges' = [challenges EXCEPT ![i] = c]
      BY <2>4 DEF VerifyConsume
    <3>3. c \in Challenge /\ c.attempts = challenges[i].attempts
      BY <3>1, <3>2 DEF Challenge
    <3>4. /\ Len(challenges') = Len(challenges)
          /\ \A j \in 1..Len(challenges) : challenges'[j].attempts = challenges[j].attempts
      BY <3>1, <3>2, <3>3, ExceptSeq
    <3>. QED
      BY <2>2, <3>4, AttemptsKept
  <2>. QED
    BY <1>1, <2>3, <2>4 DEF VerifyConsume, ClearTokens, IssueToken, VerifyFail
<1>2. ASSUME NEW i \in 1..Len(challenges), ChallengeAges(i)
      PROVE  AttemptsInv'
  <2>1. challenges \in Seq(Challenge) /\ challenges[i] \in Challenge
    BY ElementOfSeq DEF RowsInv
  <2>2. PICK c : c = [challenges[i] EXCEPT !.age = Older[@]] /\ challenges' = [challenges EXCEPT ![i] = c]
    BY <1>2 DEF ChallengeAges
  <2>3. Older[challenges[i].age] \in Ages
    BY <1>2, <2>1 DEF ChallengeAges, Older, Challenge, Ages
  <2>4. c \in Challenge /\ c.attempts = challenges[i].attempts
    BY <2>1, <2>2, <2>3 DEF Challenge
  <2>5. /\ Len(challenges') = Len(challenges)
        /\ \A j \in 1..Len(challenges) : challenges'[j].attempts = challenges[j].attempts
    BY <2>1, <2>2, <2>4, ExceptSeq
  <2>. QED
    BY <1>2, <2>5, AttemptsKept DEF ChallengeAges
<1>3. CASE UNCHANGED <<challenges, verify>>
  BY <1>3, AttemptsKept
<1>4. CASE CodeNext
  <2>1. ASSUME NEW q \in Requests, RequestRead(q) \/ RequestCreate(q) \/ RequestFail(q)
        PROVE  AttemptsInv'
    BY <1>3, <2>1, RequestAttempts DEF RequestRead, RequestFail
  <2>2. ASSUME NEW v \in Verifiers,
               \/ \E i \in 1..Len(challenges), match \in BOOLEAN : VerifyRead(v, i, match)
               \/ VerifyAttempt(v)
        PROVE  AttemptsInv'
    BY <2>2, ReadAttempts, CountAttempts
  <2>. QED
    BY <1>1, <1>4, <2>1, <2>2 DEF CodeNext
<1>5. CASE ResetNext
  BY <1>3, <1>5 DEF ResetNext, ResetRead, ResetCommit, ResetFail
<1>6. CASE TimeNext
  BY <1>2, <1>3, <1>6 DEF TimeNext, TokenExpires
<1>7. CASE UNCHANGED vars
  BY <1>3, <1>7 DEF vars
<1>. QED
  BY <1>4, <1>5, <1>6, <1>7 DEF Next

\* The invariants imply TypeOK.
LEMMA InvariantsImplyType == ResetInv /\ AttemptsInv => TypeOK
<1>. SUFFICES ASSUME ResetInv, AttemptsInv PROVE TypeOK
  OBVIOUS
<1>1. changes \in Seq(1..Len(tokens))
  <2>1. Len(changes) \in Nat /\ DOMAIN changes = 1..Len(changes) /\ changes \in [1..Len(changes) -> Nat]
    BY LenProperties DEF ResetInv, RowsInv
  <2>2. changes \in [1..Len(changes) -> 1..Len(tokens)]
    BY <2>1 DEF ResetInv, RowsInv
  <2>. QED
    BY <2>1, <2>2, FunctionIsSeq
<1>2. \A i \in 1..Len(challenges) : challenges[i].attempts < MaxAttempts + Cardinality(Verifiers)
  <2>. SUFFICES ASSUME NEW i \in 1..Len(challenges)
                PROVE  challenges[i].attempts < MaxAttempts + Cardinality(Verifiers)
    OBVIOUS
  <2>1. challenges[i].attempts \in Nat
    BY AttemptsAreNat DEF ResetInv
  <2>2. challenges[i].attempts + Cardinality(Guessing(i)) < MaxAttempts + Cardinality(Verifiers)
    BY DEF AttemptsInv
  <2>. QED
    BY <2>1, <2>2, GuessingBound, PasswordResetAssumption
<1>3. \A t \in 1..Len(tokens) : tokens[t].challenge \in (1..Len(challenges)) \ Unconsumed
  BY DEF ResetInv, CodeInv, Unconsumed
<1>4. reset \in [Resets -> 0..Len(tokens)]
  BY DEF ResetInv, RowsInv
<1>. QED
  BY <1>1, <1>2, <1>3, <1>4 DEF ResetInv, RowsInv, TypeOK

\* TypeOK, and with it that concurrent guesses exceed the limit of a code by
\* less than the number of verifications in flight.
THEOREM ResetTypeOK == Spec => []TypeOK
<1>1. Init => AttemptsInv
  BY DEF Init, AttemptsInv
<1>2. ResetInv => RowsInv
  BY DEF ResetInv
<1>3. ResetInv /\ ResetInv' /\ AttemptsInv /\ [Next]_vars => AttemptsInv'
  BY NextAttempts DEF ResetInv
<1>. QED
  BY <1>1, <1>3, ResetInvariant, InvariantsImplyType, PTL DEF Spec

-----------------------------------------------------------------------------
(* How many codes are sent *)

\* requestOtp counts the codes of the last hour and inserts one after an await: requests that overlap
\* count the same codes.
RequestsApart ==
    \A q, r \in Requests : request[q] = "create" /\ request[r] = "create" => q = r

\* A request that was let through finds room under the cap for the code it is going to insert.
CapInv ==
    /\ HourlyCapKept
    /\ \A q \in Requests : request[q] = "create" => RecentRequests < MaxResends

\* Rows that are not old are counted by a number.
LEMMA RecentIsNatural ==
    ASSUME NEW rows \in Seq(Challenge)
    PROVE  Cardinality({i \in 1..Len(rows) : rows[i].age # "old"}) \in Nat
<1>. DEFINE young == {i \in 1..Len(rows) : rows[i].age # "old"}
<1>1. IsFiniteSet(1..Len(rows))
  BY FS_Interval, LenProperties
<1>2. IsFiniteSet(young)
  BY <1>1, FS_Subset
<1>. QED
  BY <1>2, FS_CardinalityType

\* They become no more when no code is added and none becomes younger.
LEMMA RecentShrinks ==
    ASSUME ResetInv, Len(challenges') = Len(challenges),
           \A i \in 1..Len(challenges) : challenges'[i].age # "old" => challenges[i].age # "old"
    PROVE  RecentRequests' <= RecentRequests
<1>. DEFINE young == {i \in 1..Len(challenges) : challenges[i].age # "old"}
<1>1. IsFiniteSet(1..Len(challenges))
  BY FS_Interval, LenProperties DEF ResetInv, RowsInv
<1>2. IsFiniteSet(young) /\ young' \in SUBSET young
  BY <1>1, FS_Subset
<1>3. Cardinality(young') <= Cardinality(young)
  BY <1>2, FS_Subset
<1>. QED
  BY <1>3 DEF RecentRequests

\* A new code is one more.
LEMMA RecentGrows ==
    ASSUME ResetInv, NEW q \in Requests, RequestCreate(q)
    PROVE  RecentRequests' = RecentRequests + 1
<1>. DEFINE young == {i \in 1..Len(challenges) : challenges[i].age # "old"}
            c == [age |-> "cooling", attempts |-> 0, consumed |-> FALSE]
<1>1. IsFiniteSet(1..Len(challenges)) /\ Len(challenges) \in Nat
  BY FS_Interval, LenProperties DEF ResetInv, RowsInv
<1>2. c \in Challenge /\ challenges \in Seq(Challenge) /\ c.age = "cooling"
  BY DEF Challenge, Ages, ResetInv, RowsInv
<1>3. challenges' = Append(challenges, c)
  BY DEF RequestCreate
<1>4. /\ Len(challenges') = Len(challenges) + 1 /\ challenges'[Len(challenges) + 1] = c
      /\ \A i \in 1..Len(challenges) : challenges'[i] = challenges[i]
  <2>. HIDE DEF c
  <2>. QED
    BY <1>2, <1>3, Appended
<1>5. IsFiniteSet(young) /\ Len(challenges) + 1 \notin young
  BY <1>1, FS_Subset
<1>6. young' = young \cup {Len(challenges) + 1}
  <2>1. \A i \in 1..Len(challenges') : i \in 1..Len(challenges) \/ i = Len(challenges) + 1
    BY <1>1, <1>4
  <2>2. Len(challenges) + 1 \in 1..Len(challenges') /\ \A i \in 1..Len(challenges) : i \in 1..Len(challenges')
    BY <1>1, <1>4
  <2>. QED
    BY <1>2, <1>4, <2>1, <2>2
<1>7. Cardinality(young') = Cardinality(young) + 1
  <2>. HIDE DEF young
  <2>. QED
    BY <1>5, <1>6, FS_AddElement
<1>. QED
  BY <1>7 DEF RecentRequests

\* Every other step adds no code and makes none younger.
LEMMA CodesOnlyAge ==
    ASSUME ResetInv, [Next]_vars, UNCHANGED request
    PROVE  /\ Len(challenges') = Len(challenges)
           /\ \A i \in 1..Len(challenges) : challenges'[i].age # "old" => challenges[i].age # "old"
<1>1. challenges \in Seq(Challenge) /\ Len(challenges) \in Nat
      /\ \A i \in 1..Len(challenges) : challenges[i] \in Challenge
  BY LenProperties, ElementOfSeq DEF ResetInv, RowsInv
<1>2. request \in [Requests -> {"idle", "create"}]
  BY DEF ResetInv, RowsInv
<1>3. ASSUME NEW i \in 1..Len(challenges), NEW c \in Challenge, c.age # "old" => challenges[i].age # "old",
             challenges' = [challenges EXCEPT ![i] = c]
      PROVE  /\ Len(challenges') = Len(challenges)
             /\ \A j \in 1..Len(challenges) : challenges'[j].age # "old" => challenges[j].age # "old"
  BY <1>1, <1>3, ExceptSeq
<1>4. ASSUME NEW v \in Verifiers, VerifyAttempt(v)
      PROVE  \E i \in 1..Len(challenges), c \in Challenge :
                 /\ c.age = challenges[i].age
                 /\ challenges' = [challenges EXCEPT ![i] = c]
  <2>1. verify[v].challenge \in 1..Len(challenges)
    BY <1>4 DEF VerifyAttempt, ResetInv, RowsInv
  <2>2. PICK i \in 1..Len(challenges) : i = verify[v].challenge
    BY <2>1
  <2>. DEFINE c == [challenges[i] EXCEPT !.attempts = @ + 1]
  <2>3. c \in Challenge /\ c.age = challenges[i].age
    BY <1>1 DEF Challenge
  <2>4. challenges' = [challenges EXCEPT ![i] = c]
    BY <1>4, <2>2 DEF VerifyAttempt
  <2>. QED
    BY <2>3, <2>4
<1>5. ASSUME NEW v \in Verifiers, VerifyConsume(v), challenges' # challenges
      PROVE  \E i \in 1..Len(challenges), c \in Challenge :
                 /\ c.age = challenges[i].age
                 /\ challenges' = [challenges EXCEPT ![i] = c]
  <2>1. verify[v].challenge \in 1..Len(challenges)
    BY <1>5 DEF VerifyConsume, ResetInv, RowsInv
  <2>2. PICK i \in 1..Len(challenges) : i = verify[v].challenge
    BY <2>1
  <2>. DEFINE c == [challenges[i] EXCEPT !.consumed = TRUE]
  <2>3. c \in Challenge /\ c.age = challenges[i].age
    BY <1>1 DEF Challenge
  <2>4. challenges' = [challenges EXCEPT ![i] = c]
    BY <1>5, <2>2 DEF VerifyConsume
  <2>. QED
    BY <2>3, <2>4
<1>6. ASSUME NEW i \in 1..Len(challenges), ChallengeAges(i)
      PROVE  \E c \in Challenge :
                 /\ challenges[i].age # "old"
                 /\ challenges' = [challenges EXCEPT ![i] = c]
  <2>. DEFINE c == [challenges[i] EXCEPT !.age = Older[@]]
  <2>1. Older[challenges[i].age] \in Ages
    BY <1>1, <1>6 DEF ChallengeAges, Older, Challenge, Ages
  <2>2. c \in Challenge
    BY <1>1, <2>1 DEF Challenge
  <2>. QED
    BY <1>6, <2>2 DEF ChallengeAges
<1>7. CASE UNCHANGED challenges
  BY <1>7
<1>8. CASE challenges' # challenges
  <2>1. CASE CodeNext
    <3>1. ASSUME NEW q \in Requests, RequestCreate(q)
          PROVE  FALSE
      BY <1>2, <3>1 DEF RequestCreate
    <3>2. PICK v \in Verifiers : VerifyAttempt(v) \/ VerifyConsume(v)
      BY <1>8, <2>1, <3>1 DEF CodeNext, RequestRead, RequestFail, VerifyRead, ClearTokens, IssueToken, VerifyFail
    <3>. QED
      BY <1>3, <1>4, <1>5, <1>8, <3>2
  <2>2. CASE ResetNext
    BY <1>8, <2>2 DEF ResetNext, ResetRead, ResetCommit, ResetFail
  <2>3. CASE TimeNext
    BY <1>3, <1>6, <1>8, <2>3 DEF TimeNext, TokenExpires
  <2>. QED
    BY <1>8, <2>1, <2>2, <2>3 DEF Next, vars
<1>. QED
  BY <1>7, <1>8

\* While requests do not overlap, every step keeps the invariant.
LEMMA CapKept ==
    ASSUME ResetInv, ResetInv', CapInv, RequestsApart, [Next]_vars
    PROVE  CapInv'
<1>1. RecentRequests \in Nat /\ RecentRequests' \in Nat /\ RecentRequests <= MaxResends
  <2>1. challenges \in Seq(Challenge) /\ challenges' \in Seq(Challenge)
    BY DEF ResetInv, RowsInv
  <2>. QED
    BY <2>1, RecentIsNatural DEF CapInv, HourlyCapKept, RecentRequests
<1>2. CASE UNCHANGED request
  <2>1. RecentRequests' <= RecentRequests
    BY <1>2, CodesOnlyAge, RecentShrinks
  <2>. QED
    BY <1>1, <1>2, <2>1, PasswordResetAssumption DEF CapInv, HourlyCapKept, RecentRequests
<1>3. CASE request' # request
  <2>1. PICK q \in Requests : RequestRead(q) \/ RequestCreate(q) \/ RequestFail(q)
    BY <1>3 DEF Next, vars, CodeNext, VerifyRead, VerifyAttempt, VerifyConsume, ClearTokens, IssueToken,
       VerifyFail, ResetNext, ResetRead, ResetCommit, ResetFail, TimeNext, ChallengeAges, TokenExpires
  <2>2. /\ request \in [Requests -> {"idle", "create"}] /\ MaxResends \in Nat
        /\ \A r \in Requests : request[r] = "create" => RecentRequests < MaxResends
    BY PasswordResetAssumption DEF ResetInv, RowsInv, CapInv
  <2>3. HourlyCapKept' <=> RecentRequests' <= MaxResends
    BY DEF HourlyCapKept, RecentRequests
  <2>4. CASE RequestRead(q)
    <3>1. UNCHANGED challenges /\ RecentRequests < MaxResends
      BY <2>4 DEF RequestRead, MayRequest
    <3>2. RecentRequests' = RecentRequests
      BY <3>1 DEF RecentRequests
    <3>. QED
      BY <1>1, <2>2, <2>3, <3>1, <3>2 DEF CapInv
  <2>5. CASE RequestFail(q)
    <3>1. UNCHANGED challenges /\ request' = [request EXCEPT ![q] = "idle"]
      BY <2>5 DEF RequestFail
    <3>2. RecentRequests' = RecentRequests
      BY <3>1 DEF RecentRequests
    <3>. QED
      BY <1>1, <2>2, <2>3, <3>1, <3>2 DEF CapInv
  <2>6. CASE RequestCreate(q)
    <3>1. request[q] = "create" /\ request' = [request EXCEPT ![q] = "idle"]
      BY <2>6 DEF RequestCreate
    <3>2. RecentRequests' = RecentRequests + 1 /\ RecentRequests < MaxResends
      BY <2>2, <2>6, <3>1, RecentGrows
    <3>3. \A r \in Requests : request'[r] # "create"
      BY <2>2, <3>1 DEF RequestsApart
    <3>. QED
      BY <1>1, <2>2, <2>3, <3>2, <3>3 DEF CapInv
  <2>. QED
    BY <2>1, <2>4, <2>5, <2>6
<1>. QED
  BY <1>2, <1>3

\* No more codes are sent in an hour than the cap, as long as no two requests for one overlap
\* (otp.service.ts).
THEOREM CapBreaksOnlyInARace == Spec /\ []RequestsApart => []HourlyCapKept
<1>1. Init => CapInv
  <2>. SUFFICES ASSUME Init PROVE CapInv
    OBVIOUS
  <2>1. {i \in 1..Len(challenges) : challenges[i].age # "old"} = {}
    BY DEF Init
  <2>2. RecentRequests = 0
    BY <2>1, FS_EmptySet DEF RecentRequests
  <2>3. \A q \in Requests : request[q] # "create"
    BY DEF Init
  <2>. QED
    BY <2>2, <2>3, PasswordResetAssumption DEF CapInv, HourlyCapKept, RecentRequests
<1>2. ResetInv /\ ResetInv' /\ CapInv /\ RequestsApart /\ [Next]_vars => CapInv'
  BY CapKept
<1>3. CapInv => HourlyCapKept
  BY DEF CapInv
<1>. QED
  BY <1>1, <1>2, <1>3, ResetInvariant, PTL DEF Spec

-----------------------------------------------------------------------------
(* The sign-in page *)

\* What a form shows, apart from the panel that a late answer has opened.
Calm(f, mailed, tardy) ==
    /\ f.stage = "otp" /\ "requestOtp" \notin tardy =>
          ~f.resetMode /\ [for |-> f.mode, university |-> f.university, email |-> f.email] \in mailed
    /\ f.resetStage = "otp" /\ "requestReset" \notin tardy =>
          f.resetMode /\ [for |-> "reset", university |-> f.university, email |-> f.email] \in mailed
    /\ f.resetToken # Blank /\ "verifyReset" \notin tardy =>
          f.resetMode /\ f.resetToken = f.email /\ f.resetStage # "email"
    /\ f.resetStage = "password" => f.resetToken # Blank

FormInv ==
    /\ form \in Form
    /\ pending \subseteq Mutation
    /\ requested \subseteq Code
    /\ late \subseteq Operations
    /\ \A m \in pending : m.op # "reset" => m.university # Blank /\ m.email # Blank
    /\ Calm(form, requested, late)

\* The initial states have the invariant.
LEMMA FormInitInv == FlowInit => FormInv
<1> SUFFICES ASSUME FlowInit PROVE FormInv
  OBVIOUS
<1>1. form \in Form
  BY DEF FlowInit, Form, Modes
<1>2. Calm(form, requested, late) /\ pending = {} /\ requested = {} /\ late = {}
  BY DEF FlowInit, Calm
<1>. QED
  BY <1>1, <1>2 DEF FormInv

-----------------------------------------------------------------------------
(* The user *)

\* A change of the form that leaves what it shows calm.
LEMMA EditInv ==
    ASSUME FormInv, NEW f \in Form, Edit(f), UNCHANGED pending, Calm(f, requested, late)
    PROVE  FormInv'
<1>1. form' = f /\ late' = late /\ requested' = requested /\ pending' = pending
  BY DEF Edit
<1>. QED
  BY <1>1 DEF FormInv

\* Filling in a field keeps the form in order: the fields of a panel that waits for a code
\* or a password cannot be edited.
LEMMA FieldsInv ==
    ASSUME FormInv,
           \/ \E u \in Universities : SelectUniversity(u) \/ SelectResetUniversity(u)
           \/ \E e \in Emails : TypeEmail(e)
           \/ SelectCampus
    PROVE  FormInv'
<1>0. form \in Form /\ Calm(form, requested, late)
  BY DEF FormInv
<1>1. ASSUME NEW u \in Universities, SelectUniversity(u) PROVE FormInv'
  <2> DEFINE f == [form EXCEPT !.university = u, !.campus = FALSE, !.stage = "email"]
  <2>1. Edit(f) /\ UNCHANGED pending /\ ~form.resetMode
    BY <1>1 DEF SelectUniversity, UniversityPanel
  <2>2. /\ f \in Form /\ f.stage = "email" /\ f.resetMode = form.resetMode /\ f.resetToken = form.resetToken
        /\ f.resetStage = form.resetStage
    BY <1>0 DEF Form
  <2> HIDE DEF f
  <2>3. Calm(f, requested, late)
    BY <1>0, <2>1, <2>2 DEF Calm
  <2>. QED
    BY <2>1, <2>2, <2>3, EditInv
<1>2. CASE SelectCampus
  <2> DEFINE f == [form EXCEPT !.campus = TRUE]
  <2>1. Edit(f) /\ UNCHANGED pending
    BY <1>2 DEF SelectCampus
  <2>2. /\ f \in Form /\ f.stage = form.stage /\ f.resetMode = form.resetMode /\ f.resetToken = form.resetToken
        /\ f.mode = form.mode /\ f.university = form.university /\ f.email = form.email
        /\ f.resetStage = form.resetStage
    BY <1>0 DEF Form
  <2> HIDE DEF f
  <2>3. Calm(f, requested, late)
    BY <1>0, <2>2 DEF Calm
  <2>. QED
    BY <2>1, <2>2, <2>3, EditInv
<1>3. ASSUME NEW f \in Form, Edit(f), UNCHANGED pending, EmailPanel \/ ResetEmailPanel,
             f.stage = form.stage, f.resetMode = form.resetMode, f.resetToken = form.resetToken,
             f.resetStage = form.resetStage
      PROVE  FormInv'
  <2>1. (~form.resetMode /\ form.stage = "email") \/ (form.resetMode /\ form.resetStage = "email")
    BY <1>3 DEF EmailPanel, ResetEmailPanel
  <2>2. Calm(f, requested, late)
    BY <1>0, <1>3, <2>1 DEF Calm
  <2>. QED
    BY <1>3, <2>2, EditInv
<1>4. ASSUME NEW e \in Emails, TypeEmail(e) PROVE FormInv'
  <2> DEFINE f == [form EXCEPT !.email = e]
  <2>1. Edit(f) /\ UNCHANGED pending /\ (EmailPanel \/ ResetEmailPanel)
    BY <1>4 DEF TypeEmail
  <2>2. /\ f \in Form /\ f.stage = form.stage /\ f.resetMode = form.resetMode /\ f.resetToken = form.resetToken
        /\ f.resetStage = form.resetStage
    BY <1>0 DEF Form
  <2> HIDE DEF f
  <2>. QED
    BY <1>3, <2>1, <2>2
<1>5. ASSUME NEW u \in Universities, SelectResetUniversity(u) PROVE FormInv'
  <2> DEFINE f == [form EXCEPT !.university = u]
  <2>1. Edit(f) /\ UNCHANGED pending /\ ResetEmailPanel
    BY <1>5 DEF SelectResetUniversity
  <2>2. /\ f \in Form /\ f.stage = form.stage /\ f.resetMode = form.resetMode /\ f.resetToken = form.resetToken
        /\ f.resetStage = form.resetStage
    BY <1>0 DEF Form
  <2> HIDE DEF f
  <2>. QED
    BY <1>3, <2>1, <2>2
<1>. QED
  BY <1>1, <1>2, <1>4, <1>5

\* What clearing leaves of a form.
LEMMA ClearedForm ==
    ASSUME NEW f \in Form
    PROVE  /\ Cleared(f) \in Form /\ Cleared(f).resetToken = Blank /\ Cleared(f).stage = f.stage
           /\ Cleared(f).resetStage = "email" /\ Cleared(f).resetMode = f.resetMode
           /\ Cleared(f).mode = f.mode
<1> DEFINE g == [f EXCEPT !.university = Blank, !.campus = FALSE, !.email = Blank]
<1>1. /\ g \in Form /\ g.stage = f.stage /\ g.resetMode = f.resetMode /\ g.mode = f.mode
  BY DEF Form
<1>2. Cleared(f) = [g EXCEPT !.resetStage = "email", !.resetToken = Blank]
  BY DEF Cleared
<1> HIDE DEF g
<1>. QED
  BY <1>1, <1>2 DEF Form

\* The mutations that are forgotten still run.
LEMMA ForgottenRun ==
    ASSUME FormInv, NEW ops
    PROVE  /\ Forget(ops) \subseteq Mutation
           /\ \A n \in Forget(ops) : n.op # "reset" => n.university # Blank /\ n.email # Blank
<1>1. ASSUME NEW n \in Forget(ops)
      PROVE  n \in Mutation /\ (n.op # "reset" => n.university # Blank /\ n.email # Blank)
  <2>1. PICK m \in pending : n = IF m.op \in ops THEN [m EXCEPT !.watched = FALSE] ELSE m
    BY DEF Forget
  <2>2. m \in Mutation /\ (m.op # "reset" => m.university # Blank /\ m.email # Blank)
    BY DEF FormInv
  <2>3. n \in Mutation /\ n.op = m.op /\ n.university = m.university /\ n.email = m.email
    BY <2>1, <2>2 DEF Mutation
  <2>. QED
    BY <2>2, <2>3
<1>. QED
  BY <1>1 DEF Forget

\* StartOver keeps the invariant: no reset stage and no token is left, so the answers that
\* came late to the reset no longer count.
LEMMA StartOverInv ==
    ASSUME FormInv, (\E mode \in Modes : ChangeMode(mode)) \/ StartPasswordReset \/ CancelPasswordReset
    PROVE  FormInv'
<1>0. form \in Form /\ late \subseteq Operations /\ Calm(form, requested, late)
  BY DEF FormInv
<1>1. ASSUME NEW f \in Form, NEW ops, form' = f, pending' = Forget(ops), requested' = requested,
             late' \subseteq Operations, f.resetStage = "email", f.resetToken = Blank,
             f.stage = "otp" => "requestOtp" \in late'
      PROVE  FormInv'
  <2>1. Calm(f, requested, late')
    BY <1>1 DEF Calm
  <2>. QED
    BY <1>1, <2>1, ForgottenRun DEF FormInv
<1>2. ASSUME NEW mode \in Modes, ChangeMode(mode) PROVE FormInv'
  <2> DEFINE f == [Cleared(form) EXCEPT !.mode = mode, !.stage = "university"]
  <2>1. form' = f /\ pending' = Forget(Operations) /\ requested' = requested /\ late' = {}
    BY <1>2 DEF ChangeMode, StartOver
  <2>2. f \in Form /\ f.stage = "university" /\ f.resetToken = Blank /\ f.resetStage = "email"
    BY <1>0, ClearedForm DEF Form
  <2> HIDE DEF f
  <2>. QED
    BY <1>1, <2>1, <2>2
<1>3. CASE StartPasswordReset
  <2> DEFINE f == [Cleared(form) EXCEPT !.resetMode = TRUE]
  <2>1. /\ form' = f /\ pending' = Forget(ResetOperations) /\ requested' = requested
        /\ late' = late \ ResetOperations /\ form.stage = "email"
    BY <1>3 DEF StartPasswordReset, StartOver, EmailPanel
  <2>2. /\ Cleared(form) \in Form /\ Cleared(form).resetToken = Blank /\ Cleared(form).stage = form.stage
        /\ Cleared(form).resetStage = "email"
    BY <1>0, ClearedForm
  <2>3. f \in Form /\ f.stage = form.stage /\ f.resetToken = Blank /\ f.resetStage = "email"
    BY <2>2 DEF Form
  <2> HIDE DEF f
  <2>. QED
    BY <1>0, <1>1, <2>1, <2>3
<1>4. CASE CancelPasswordReset
  <2> DEFINE f == [Cleared(form) EXCEPT !.resetMode = FALSE]
  <2>1. /\ form' = f /\ pending' = Forget(ResetOperations) /\ requested' = requested
        /\ late' = late \ ResetOperations /\ form.resetMode
    BY <1>4 DEF CancelPasswordReset, StartOver
  <2>2. f \in Form /\ f.stage = form.stage /\ f.resetToken = Blank /\ f.resetStage = "email"
    BY <1>0, ClearedForm DEF Form
  <2> HIDE DEF f
  <2>3. f.stage = "otp" => "requestOtp" \in late'
    BY <1>0, <2>1, <2>2 DEF Calm, ResetOperations
  <2>. QED
    BY <1>0, <1>1, <2>1, <2>2, <2>3
<1>. QED
  BY <1>2, <1>3, <1>4

\* Submit keeps the invariant.
LEMMA SubmitInv ==
    ASSUME FormInv, Submit
    PROVE  FormInv'
<1>1. PICK op \in Operations : Mutate(op)
  BY DEF Submit, Operations
<1> DEFINE new == [op |-> op, for |-> form.mode, university |-> form.university,
                   email |-> form.email, watched |-> TRUE]
<1>2. pending' = pending \cup {new} /\ UNCHANGED <<form, requested, late>> /\ Complete(op)
  BY <1>1 DEF Mutate
<1>3. /\ new \in Mutation /\ new.op = op /\ new.university = form.university /\ new.email = form.email
  BY DEF FormInv, Form, Mutation
<1> HIDE DEF new
<1>4. new.op # "reset" => new.university # Blank /\ new.email # Blank
  BY <1>2, <1>3 DEF Complete
<1>. QED
  BY <1>2, <1>3, <1>4 DEF FormInv

-----------------------------------------------------------------------------
(* Answers *)

\* Succeed keeps the invariant: an answer that finds what it was sent with keeps the form
\* calm, and one that does not is counted as late.
LEMMA SucceedInv ==
    ASSUME FormInv, NEW m \in pending, Succeed(m)
    PROVE  FormInv'
<1>0. /\ form \in Form /\ m \in Mutation /\ late \subseteq Operations
      /\ (m.op # "reset" => m.university # Blank /\ m.email # Blank)
      /\ Calm(form, requested, late)
  BY DEF FormInv
<1>1. ASSUME m.op # "reset", NEW f \in Form, form' = f, requested' \subseteq Code,
             Calm(f, requested', late')
      PROVE  FormInv'
  <2>1. pending' = pending \ {m} /\ late' \subseteq Operations
    BY <1>0, <1>1 DEF Succeed, Mutation
  <2>. QED
    BY <1>0, <1>1, <2>1 DEF FormInv
<1>2. \A for \in Modes \cup {"reset"} : m.op # "reset" => CodeSent(m, for) \in Code
  BY <1>0 DEF CodeSent, Code, Mutation
<1>3. m.op # "reset" =>
          /\ OfThisForm(m) => late' = late \ {m.op}
          /\ ~OfThisForm(m) => late' = late \cup {m.op}
  BY DEF Succeed
<1>4. CASE OtpRequested(m)
  <2> DEFINE f == [form EXCEPT !.stage = "otp"]
  <2>1. form' = f /\ requested' = requested \cup {CodeSent(m, m.for)} /\ m.op = "requestOtp"
    BY <1>4 DEF OtpRequested
  <2>2. /\ f \in Form /\ f.stage = "otp" /\ f.mode = form.mode /\ f.university = form.university
        /\ f.email = form.email /\ f.resetMode = form.resetMode /\ f.resetToken = form.resetToken
        /\ f.resetStage = form.resetStage
    BY <1>0 DEF Form
  <2> HIDE DEF f
  <2>3. m.for \in Modes \cup {"reset"} /\ CodeSent(m, m.for) \in Code
    BY <1>0, <1>2, <2>1 DEF Mutation
  <2>4. OfThisForm(m) => ~f.resetMode /\ CodeSent(m, m.for) = [for |-> f.mode, university |-> f.university, email |-> f.email]
    BY <1>0, <2>1, <2>2 DEF Form, OfThisForm, ResetOperations, CodeSent
  <2>5. Calm(f, requested', late')
    BY <1>0, <1>3, <2>1, <2>2, <2>4 DEF Calm
  <2>6. requested' \subseteq Code
    BY <2>1, <2>3 DEF FormInv
  <2>. QED
    BY <1>1, <2>1, <2>2, <2>5, <2>6
<1>5. CASE OtpVerified(m)
  <2> DEFINE f == [form EXCEPT !.signedIn = TRUE]
  <2>1. form' = f /\ requested' = requested /\ m.op = "verifyOtp"
    BY <1>5 DEF OtpVerified
  <2>2. /\ f \in Form /\ f.stage = form.stage /\ f.mode = form.mode /\ f.university = form.university
        /\ f.email = form.email /\ f.resetMode = form.resetMode /\ f.resetToken = form.resetToken
        /\ f.resetStage = form.resetStage
    BY <1>0 DEF Form
  <2> HIDE DEF f
  <2>3. Calm(f, requested', late')
    BY <1>0, <1>3, <2>1, <2>2 DEF Calm
  <2>4. requested' \subseteq Code
    BY <2>1 DEF FormInv
  <2>. QED
    BY <1>1, <2>1, <2>2, <2>3, <2>4
<1>6. CASE ResetRequested(m)
  <2> DEFINE f == [form EXCEPT !.resetStage = "otp"]
  <2>1. form' = f /\ requested' = requested \cup {CodeSent(m, "reset")} /\ m.op = "requestReset"
    BY <1>6 DEF ResetRequested
  <2>2. /\ f \in Form /\ f.stage = form.stage /\ f.mode = form.mode /\ f.university = form.university
        /\ f.email = form.email /\ f.resetMode = form.resetMode /\ f.resetToken = form.resetToken
        /\ f.resetStage = "otp"
    BY <1>0 DEF Form
  <2> HIDE DEF f
  <2>3. OfThisForm(m) => f.resetMode /\ CodeSent(m, "reset") = [for |-> "reset", university |-> f.university, email |-> f.email]
    BY <1>0, <2>1, <2>2 DEF Form, OfThisForm, ResetOperations, CodeSent
  <2>4. Calm(f, requested', late')
    BY <1>0, <1>3, <2>1, <2>2, <2>3 DEF Calm
  <2>5. requested' \subseteq Code
    BY <1>2, <2>1 DEF FormInv
  <2>. QED
    BY <1>1, <2>1, <2>2, <2>4, <2>5
<1>7. CASE ResetVerified(m)
  <2> DEFINE f == [form EXCEPT !.resetToken = m.email, !.resetStage = "password"]
  <2>1. form' = f /\ requested' = requested /\ m.op = "verifyReset"
    BY <1>7 DEF ResetVerified
  <2>2. /\ f \in Form /\ f.stage = form.stage /\ f.mode = form.mode /\ f.university = form.university
        /\ f.email = form.email /\ f.resetMode = form.resetMode /\ f.resetToken = m.email
        /\ f.resetStage = "password"
    BY <1>0 DEF Form, Mutation
  <2> HIDE DEF f
  <2>3. OfThisForm(m) => f.resetMode /\ m.email = f.email
    BY <1>0, <2>1, <2>2 DEF Form, OfThisForm, ResetOperations
  <2>4. Calm(f, requested', late')
    BY <1>0, <1>3, <2>1, <2>2, <2>3 DEF Calm
  <2>5. requested' \subseteq Code
    BY <2>1 DEF FormInv
  <2>. QED
    BY <1>1, <2>1, <2>2, <2>4, <2>5
<1>8. CASE PasswordWasReset(m)
  <2> DEFINE f == [Cleared(form) EXCEPT !.resetMode = FALSE, !.stage = "university"]
  <2>1. /\ form' = f /\ requested' = requested /\ m.op = "reset" /\ late' = {}
        /\ pending' = Forget(ResetOperations) \ {[m EXCEPT !.watched = FALSE]}
    BY <1>8 DEF PasswordWasReset, Succeed
  <2>2. f \in Form /\ f.stage = "university" /\ f.resetStage = "email" /\ f.resetToken = Blank
    BY <1>0, ClearedForm DEF Form
  <2> HIDE DEF f
  <2>3. Calm(f, requested, late')
    BY <2>2 DEF Calm
  <2>. QED
    BY <2>1, <2>2, <2>3, ForgottenRun DEF FormInv
<1>. QED
  BY <1>4, <1>5, <1>6, <1>7, <1>8 DEF Succeed

\* The cooldown stays within its bounds.
CooldownInv == cooldown \in 0..Cooldown /\ timers \in Nat

FlowInv == FormInv /\ CooldownInv

\* The invariant holds in every reachable state.
THEOREM FlowInvariant == FlowSpec => []FlowInv
<1>1. FlowInit => FlowInv
  <2>1. FlowInit => CooldownInv
    BY AuthFlowAssumption DEF FlowInit, CooldownInv
  <2>. QED
    BY <2>1, FormInitInv DEF FlowInv
<1>2. ASSUME FlowInv, [FlowNext]_flowVars PROVE FormInv'
  <2>1. FormInv
    BY <1>2 DEF FlowInv
  <2>2. CASE UNCHANGED <<form, pending, requested, late>>
    BY <2>1, <2>2 DEF FormInv
  <2>3. Tick => UNCHANGED <<form, pending, requested, late>>
    BY DEF Tick
  <2>4. ASSUME NEW m \in pending, Fail(m) PROVE FormInv'
    BY <2>1, <2>4 DEF Fail, FormInv
  <2>5. UNCHANGED flowVars => UNCHANGED <<form, pending, requested, late>>
    BY DEF flowVars
  <2>. QED
    BY <1>2, <2>1, <2>2, <2>3, <2>4, <2>5, FieldsInv, StartOverInv, SubmitInv, SucceedInv DEF FlowNext
<1>3. ASSUME FlowInv, [FlowNext]_flowVars PROVE CooldownInv'
  <2>1. cooldown \in 0..Cooldown /\ timers \in Nat /\ Cooldown \in Nat
    BY <1>3, AuthFlowAssumption DEF FlowInv, CooldownInv
  <2>2. \/ UNCHANGED <<cooldown, timers>>
        \/ cooldown' = 0 /\ timers' = timers
        \/ cooldown' = Cooldown /\ timers' = timers + 1
        \/ timers > 0 /\ cooldown' = 0 /\ timers' = timers - 1
        \/ timers > 0 /\ cooldown > 1 /\ cooldown' = cooldown - 1 /\ timers' = timers
    <3>1. CASE Tick
      BY <2>1, <3>1 DEF Tick, LastSecond
    <3>2. CASE FlowNext /\ ~Tick
      BY <3>2 DEF FlowNext, SelectUniversity, SelectCampus, TypeEmail, SelectResetUniversity, Edit,
         ChangeMode, StartPasswordReset, CancelPasswordReset, StartOver, Submit, Mutate, Succeed, Fail,
         OtpRequested, OtpVerified, ResetRequested, ResetVerified, PasswordWasReset, StartCooldown
    <3>3. CASE UNCHANGED flowVars
      BY <3>3 DEF flowVars
    <3>. QED
      BY <1>3, <3>1, <3>2, <3>3
  <2>. QED
    BY <2>1, <2>2 DEF CooldownInv
<1>. QED
  BY <1>1, <1>2, <1>3, PTL DEF FlowSpec, FlowInv

\* The panels of the form are about what its user entered, except the one panel that a
\* late answer has opened; starting over ends that too.
THEOREM FormFollowsTheUser == FlowSpec => []FlowFollowsTheUser
<1>1. FlowInv => FlowFollowsTheUser
  BY DEF FlowInv, FormInv, Calm, FlowFollowsTheUser, CodePanelWasRequested, PasswordPanelIsOfShownAccount,
     OtpPanel, ResetOtpPanel, ResetPasswordPanel, ShownCode
<1>. QED
  BY <1>1, FlowInvariant, PTL

-----------------------------------------------------------------------------
(* The mutations in flight and the intervals *)

\* Forgetting mutations makes them no more.
LEMMA ForgetIsNoMore ==
    ASSUME IsFiniteSet(pending), NEW ops
    PROVE  IsFiniteSet(Forget(ops)) /\ Cardinality(Forget(ops)) <= Cardinality(pending)
<1>. DEFINE f == [m \in pending |-> IF m.op \in ops THEN [m EXCEPT !.watched = FALSE] ELSE m]
<1>1. f \in Surjection(pending, Forget(ops))
  BY DEF Surjection, Forget
<1>. QED
  BY <1>1, FS_Surjection

\* Every interval was started by a mutation that is no longer in flight.
TimersInv == IsFiniteSet(pending) /\ Cardinality(pending) + timers <= MaxTimers

\* Fewer mutations in flight make room for as many intervals.
LEMMA TimersStep ==
    ASSUME FlowInv, TimersInv, [FlowNext]_flowVars
    PROVE  TimersInv'
<1>0. /\ timers \in Nat /\ MaxTimers \in Nat /\ IsFiniteSet(pending) /\ Cardinality(pending) \in Nat
      /\ Cardinality(pending) + timers <= MaxTimers
  BY AuthFlowAssumption, FS_CardinalityType DEF FlowInv, CooldownInv, TimersInv
<1>1. ASSUME NEW ops, pending' = Forget(ops), timers' = timers PROVE TimersInv'
  <2>1. IsFiniteSet(pending') /\ Cardinality(pending') <= Cardinality(pending) /\ Cardinality(pending') \in Nat
    BY <1>0, <1>1, ForgetIsNoMore, FS_CardinalityType
  <2>. QED
    BY <1>0, <1>1, <2>1 DEF TimersInv
<1>2. ASSUME NEW op, Mutate(op) PROVE TimersInv'
  <2>. DEFINE new == [op |-> op, for |-> form.mode, university |-> form.university,
                      email |-> form.email, watched |-> TRUE]
  <2>1. pending' = pending \cup {new} /\ timers' = timers /\ Cardinality(pending) + timers < MaxTimers
    BY <1>2 DEF Mutate
  <2>2. IsFiniteSet(pending') /\ Cardinality(pending') <= Cardinality(pending) + 1 /\ Cardinality(pending') \in Nat
    <3>. HIDE DEF new
    <3>1. /\ IsFiniteSet(pending \cup {new})
          /\ Cardinality(pending \cup {new}) = IF new \in pending THEN Cardinality(pending) ELSE Cardinality(pending) + 1
      BY <1>0, FS_AddElement
    <3>. QED
      BY <1>0, <2>1, <3>1
  <2>. QED
    BY <1>0, <2>1, <2>2 DEF TimersInv
<1>3. ASSUME NEW m \in pending, Succeed(m) \/ Fail(m) PROVE TimersInv'
  <2>1. /\ IsFiniteSet(pending \ {m}) /\ Cardinality(pending \ {m}) = Cardinality(pending) - 1
    BY <1>0, FS_RemoveElement
  <2>2. CASE pending' = pending \ {m} /\ timers' \in {timers, timers + 1}
    BY <1>0, <2>1, <2>2 DEF TimersInv
  <2>3. CASE m.op = "reset" /\ pending' = Forget(ResetOperations) \ {[m EXCEPT !.watched = FALSE]} /\ timers' = timers
    <3>1. IsFiniteSet(Forget(ResetOperations)) /\ Cardinality(Forget(ResetOperations)) <= Cardinality(pending)
      BY <1>0, ForgetIsNoMore
    <3>2. pending' \subseteq Forget(ResetOperations)
      BY <2>3
    <3>3. IsFiniteSet(pending') /\ Cardinality(pending') <= Cardinality(Forget(ResetOperations))
      BY <3>1, <3>2, FS_Subset
    <3>4. Cardinality(pending') \in Nat /\ Cardinality(Forget(ResetOperations)) \in Nat
      BY <3>1, <3>3, FS_CardinalityType
    <3>. QED
      BY <1>0, <2>3, <3>1, <3>3, <3>4 DEF TimersInv
  <2>. QED
    BY <1>3, <2>2, <2>3 DEF Succeed, Fail, OtpRequested, OtpVerified, ResetRequested, ResetVerified,
       PasswordWasReset, StartCooldown
<1>4. ASSUME Tick PROVE TimersInv'
  <2>1. pending' = pending /\ timers' \in {timers, timers - 1}
    BY <1>4 DEF Tick
  <2>. QED
    BY <1>0, <2>1 DEF TimersInv
<1>5. ASSUME UNCHANGED <<pending, timers>> PROVE TimersInv'
  BY <1>5 DEF TimersInv
<1>6. ASSUME \/ \E u \in Universities : SelectUniversity(u) \/ SelectResetUniversity(u)
             \/ \E m \in Emails : TypeEmail(m)
             \/ SelectCampus
      PROVE  UNCHANGED <<pending, timers>>
  BY <1>6 DEF SelectUniversity, SelectResetUniversity, TypeEmail, SelectCampus, Edit
<1>7. ASSUME \/ \E mode \in Modes : ChangeMode(mode)
             \/ StartPasswordReset
             \/ CancelPasswordReset
      PROVE  timers' = timers /\ \E ops : pending' = Forget(ops)
  BY <1>7 DEF ChangeMode, StartPasswordReset, CancelPasswordReset, StartOver
<1>8. flowVars' = flowVars => UNCHANGED <<pending, timers>>
  BY DEF flowVars
<1>. QED
  BY <1>1, <1>2, <1>3, <1>4, <1>5, <1>6, <1>7, <1>8 DEF FlowNext, Submit

\* The form and its mutations keep their shape, and intervals come from answers only: however late
\* they are, there are no more than mutations were sent.
THEOREM FlowTypes == FlowSpec => []FlowTypeOK
<1>1. FlowInit => TimersInv
  <2>1. MaxTimers \in Nat /\ IsFiniteSet({}) /\ Cardinality({}) = 0
    BY AuthFlowAssumption, FS_EmptySet
  <2>. QED
    BY <2>1 DEF FlowInit, TimersInv
<1>2. ASSUME FlowInv, TimersInv PROVE FlowTypeOK
  <2>1. Cardinality(pending) \in Nat /\ timers \in Nat /\ MaxTimers \in Nat
    BY <1>2, FS_CardinalityType, AuthFlowAssumption DEF FlowInv, CooldownInv, TimersInv
  <2>2. timers \in 0..MaxTimers
    BY <1>2, <2>1 DEF TimersInv
  <2>. QED
    BY <1>2, <2>2 DEF FlowInv, FormInv, CooldownInv, FlowTypeOK
<1>. QED
  BY <1>1, <1>2, FlowInvariant, TimersStep, PTL DEF FlowSpec

-----------------------------------------------------------------------------
(* The session as the browser sees it *)

\* A request that is not ignored and was sent by the tab that wrote the token carries that
\* token, and so does every request unless the token overtook one.
RequestsInv ==
    \A r \in sent :
        /\ writer = r.page /\ token # NoToken /\ r.kind = "query" /\ ~r.dropped => r.with = token
        /\ token # NoToken => r.with = token \/ token \in overtook

SessionInv == SessionTypeOK /\ RequestsInv /\ TabsAgreeWithTheSession

\* The initial states have the invariant.
LEMMA SessionInitInv == SessionInit => SessionInv
<1>1. SessionInit => SessionTypeOK
  BY DEF SessionInit, SessionTypeOK
<1>2. SessionInit => RequestsInv /\ TabsAgreeWithTheSession
  BY DEF SessionInit, RequestsInv, TabsAgreeWithTheSession, TabKnowsItsOwnChanges, CacheIsOfTheSignedIn,
     LiveSessionSurvives
<1>. QED
  BY <1>1, <1>2 DEF SessionInv

\* Load keeps the invariant.
LEMMA LoadInv ==
    ASSUME SessionInv, NEW p \in Pages, Load(p)
    PROVE  SessionInv'
<1>1. /\ signedIn' = [signedIn EXCEPT ![p] = token # NoToken]
      /\ cache' = [cache EXCEPT ![p] = {}]
      /\ sent' = {r \in sent : r.page # p}
      /\ UNCHANGED <<token, live, issued, writer, overtook, lost>>
  BY DEF Load
<1>2. /\ signedIn' \in [Pages -> BOOLEAN] /\ signedIn'[p] = (token # NoToken)
      /\ \A q \in Pages : q # p => signedIn'[q] = signedIn[q]
  BY <1>1 DEF SessionInv, SessionTypeOK
<1>3. /\ cache' \in [Pages -> SUBSET {AccountOf[s] : s \in issued}]
      /\ \A q \in Pages : cache'[q] \subseteq cache[q]
  BY <1>1 DEF SessionInv, SessionTypeOK
<1>4. sent' \subseteq sent
  BY <1>1
<1>5. SessionTypeOK'
  BY <1>1, <1>2, <1>3, <1>4 DEF SessionInv, SessionTypeOK
<1>6. RequestsInv'
  BY <1>1, <1>4 DEF SessionInv, RequestsInv
<1>7. TabKnowsItsOwnChanges'
  BY <1>1, <1>2 DEF SessionInv, TabsAgreeWithTheSession, TabKnowsItsOwnChanges
<1>8. CacheIsOfTheSignedIn' /\ LiveSessionSurvives'
  BY <1>1, <1>3 DEF SessionInv, TabsAgreeWithTheSession, CacheIsOfTheSignedIn, LiveSessionSurvives
<1>. QED
  BY <1>5, <1>6, <1>7, <1>8 DEF SessionInv, TabsAgreeWithTheSession

\* Send keeps the invariant.
LEMMA SendInv ==
    ASSUME SessionInv, NEW p \in Pages, Send(p)
    PROVE  SessionInv'
<1> DEFINE new == [page |-> p, kind |-> PageOf(p), with |-> token, dropped |-> FALSE]
<1>1. sent' = sent \cup {new} /\ UNCHANGED <<token, live, issued, signedIn, cache, writer, overtook, lost>>
  BY DEF Send
<1>2. new \in Sent /\ new.with = token /\ ~new.dropped
  BY DEF Sent, PageOf, SessionInv, SessionTypeOK
<1> HIDE DEF new
<1>3. SessionTypeOK'
  BY <1>1, <1>2 DEF SessionInv, SessionTypeOK
<1>4. RequestsInv'
  BY <1>1, <1>2 DEF SessionInv, RequestsInv
<1>. QED
  BY <1>1, <1>3, <1>4
  DEF SessionInv, TabsAgreeWithTheSession, TabKnowsItsOwnChanges, CacheIsOfTheSignedIn, LiveSessionSurvives

\* Answered keeps the invariant.
LEMMA AnsweredInv ==
    ASSUME SessionInv, NEW r \in sent, Answered(r)
    PROVE  SessionInv'
<1>1. /\ r.kind = "query" /\ r.with \in live /\ sent' = sent \ {r}
      /\ cache' = [cache EXCEPT ![r.page] = IF r.dropped THEN @ ELSE @ \cup {AccountOf[r.with]}]
      /\ UNCHANGED <<token, live, issued, signedIn, writer, overtook, lost>>
  BY DEF Answered
<1>2. r \in Sent /\ r.page \in Pages
  BY DEF SessionInv, SessionTypeOK, Sent
<1>3. /\ cache' \in [Pages -> SUBSET {AccountOf[s] : s \in issued}]
      /\ \A p \in Pages : p # r.page \/ r.dropped => cache'[p] = cache[p]
      /\ cache'[r.page] \subseteq cache[r.page] \cup {AccountOf[r.with]}
  BY <1>1, <1>2 DEF SessionInv, SessionTypeOK
<1>4. SessionTypeOK' /\ RequestsInv'
  BY <1>1, <1>3 DEF SessionInv, SessionTypeOK, RequestsInv
<1>5. CacheIsOfTheSignedIn'
  BY <1>1, <1>2, <1>3
  DEF SessionInv, TabsAgreeWithTheSession, CacheIsOfTheSignedIn, RequestsInv
<1>. QED
  BY <1>1, <1>4, <1>5
  DEF SessionInv, TabsAgreeWithTheSession, TabKnowsItsOwnChanges, LiveSessionSurvives

\* What resetQueries leaves of the requests and of the cache.
LEMMA QueriesReset ==
    ASSUME SessionInv, NEW p \in Pages, NEW requests \in SUBSET sent, ResetQueries(p, requests)
    PROVE  /\ cache' \in [Pages -> SUBSET {AccountOf[s] : s \in issued}] /\ cache'[p] = {}
           /\ \A q \in Pages : q # p => cache'[q] = cache[q]
           /\ sent' \subseteq Sent
           /\ \A n \in sent' : \E r \in requests :
                 /\ n.page = r.page /\ n.kind = r.kind /\ n.with = r.with
                 /\ n.dropped => n.kind = "query"
                 /\ n.kind = "query" => n.page # p \/ n.dropped
<1>1. cache' = [cache EXCEPT ![p] = {}]
  BY DEF ResetQueries
<1>2. ASSUME NEW n \in sent'
      PROVE  /\ n \in Sent
             /\ \E r \in requests :
                 /\ n.page = r.page /\ n.kind = r.kind /\ n.with = r.with
                 /\ n.dropped => n.kind = "query"
                 /\ n.kind = "query" => n.page # p \/ n.dropped
  <2>1. PICK r \in requests : n = IF r.page = p /\ r.kind \in DroppedKinds THEN [r EXCEPT !.dropped = TRUE] ELSE r
    BY DEF ResetQueries
  <2>2. r \in Sent /\ (r.dropped => r.kind = "query")
    BY DEF SessionInv, SessionTypeOK
  <2>3. CASE r.page = p /\ r.kind = "query"
    <3>1. n = [r EXCEPT !.dropped = TRUE]
      BY <2>1, <2>3 DEF DroppedKinds
    <3>. QED
      BY <2>2, <2>3, <3>1 DEF Sent
  <2>4. CASE ~(r.page = p /\ r.kind = "query")
    <3>1. n = r
      BY <2>1, <2>4 DEF DroppedKinds
    <3>. QED
      BY <2>2, <2>4, <3>1
  <2>. QED
    BY <2>3, <2>4
<1>. QED
  BY <1>1, <1>2 DEF SessionInv, SessionTypeOK

\* LogOut keeps the invariant.
LEMMA LogOutInv ==
    ASSUME SessionInv, NEW p \in Pages, LogOut(p)
    PROVE  SessionInv'
<1>1. /\ token' = NoToken /\ writer' = p /\ signedIn' = [signedIn EXCEPT ![p] = FALSE]
      /\ ResetQueries(p, sent) /\ UNCHANGED <<live, issued, overtook, lost>>
  BY DEF LogOut, DropTokens
<1>2. /\ cache' \in [Pages -> SUBSET {AccountOf[s] : s \in issued}]
      /\ sent' \subseteq Sent
      /\ \A n \in sent' : \E r \in sent : n.with = r.with /\ (n.dropped => n.kind = "query")
  BY <1>1, QueriesReset
<1>3. SessionTypeOK'
  BY <1>1, <1>2 DEF SessionInv, SessionTypeOK
<1>4. RequestsInv' /\ CacheIsOfTheSignedIn' /\ LiveSessionSurvives'
  BY <1>1 DEF SessionInv, TabsAgreeWithTheSession, RequestsInv, CacheIsOfTheSignedIn, LiveSessionSurvives
<1>5. TabKnowsItsOwnChanges'
  BY <1>1 DEF SessionInv, SessionTypeOK, TabKnowsItsOwnChanges
<1>. QED
  BY <1>3, <1>4, <1>5 DEF SessionInv, TabsAgreeWithTheSession

\* Verified keeps the invariant.
LEMMA VerifiedInv ==
    ASSUME SessionInv, NEW r \in sent, NEW s \in Sessions, Verified(r, s)
    PROVE  SessionInv'
<1>1. /\ s \notin issued /\ issued' = issued \cup {s} /\ live' = live \cup {s}
      /\ token' = s /\ writer' = r.page /\ signedIn' = [signedIn EXCEPT ![r.page] = TRUE]
      /\ ResetQueries(r.page, sent \ {r}) /\ UNCHANGED lost
      /\ overtook' = IF sent = {r} THEN overtook ELSE overtook \cup {s}
  BY DEF Verified, SetTokens
<1>2. r.page \in Pages /\ s # NoToken
  BY WebSessionAssumption DEF SessionInv, SessionTypeOK, Sent
<1>3. /\ cache' \in [Pages -> SUBSET {AccountOf[q] : q \in issued}] /\ cache'[r.page] = {}
      /\ sent' \subseteq Sent
      /\ \A n \in sent' : \E q \in sent \ {r} :
            /\ n.page = q.page /\ n.kind = q.kind /\ n.with = q.with
            /\ n.dropped => n.kind = "query"
            /\ n.kind = "query" => n.page # r.page \/ n.dropped
  BY <1>1, <1>2, QueriesReset
<1>4. SessionTypeOK'
  <2>1. cache' \in [Pages -> SUBSET {AccountOf[q] : q \in issued'}]
    BY <1>1, <1>3
  <2>. QED
    BY <1>1, <1>2, <1>3, <2>1 DEF SessionInv, SessionTypeOK
<1>5. RequestsInv'
  <2>1. \A n \in sent' : s \in overtook'
    BY <1>1, <1>3
  <2>. QED
    BY <1>1, <1>3, <2>1 DEF RequestsInv
<1>6. TabKnowsItsOwnChanges'
  BY <1>1, <1>2 DEF SessionInv, SessionTypeOK, TabKnowsItsOwnChanges
<1>7. CacheIsOfTheSignedIn' /\ LiveSessionSurvives'
  BY <1>1, <1>3 DEF SessionInv, TabsAgreeWithTheSession, CacheIsOfTheSignedIn, LiveSessionSurvives
<1>. QED
  BY <1>4, <1>5, <1>6, <1>7 DEF SessionInv, TabsAgreeWithTheSession

\* Refused keeps the invariant.
LEMMA RefusedInv ==
    ASSUME SessionInv, NEW r \in sent, NEW status \in {401, 500}, Refused(r, status)
    PROVE  SessionInv'
<1>1. sent' = sent \ {r} /\ UNCHANGED <<live, issued, cache, overtook>>
      /\ (status = 401 => r.with \notin live \/ r.kind = "verify")
  BY DEF Refused
<1>2. r \in Sent /\ r.page \in Pages /\ r.kind \in {"query", "verify"}
  BY DEF SessionInv, SessionTypeOK, Sent
<1>3. CASE UNCHANGED <<token, writer, signedIn, lost>>
  BY <1>1, <1>3
  DEF SessionInv, SessionTypeOK, RequestsInv, TabsAgreeWithTheSession, TabKnowsItsOwnChanges,
      CacheIsOfTheSignedIn, LiveSessionSurvives
<1>4. CASE SignsOut(status)
  <2>1. /\ token' = NoToken /\ writer' = r.page /\ signedIn' = [signedIn EXCEPT ![r.page] = FALSE]
        /\ lost' = IF r.kind = "query" /\ token \in live THEN lost \cup {token} ELSE lost
    BY <1>4 DEF Refused, DropTokens
  <2>2. r.kind = "query" /\ token \in live => token \in overtook
    <3>1. token # NoToken \/ token \notin live
      BY WebSessionAssumption DEF SessionInv, SessionTypeOK
    <3>2. r.kind = "query" => r.with \notin live
      BY <1>1, <1>2, <1>4 DEF SignsOut
    <3>. QED
      BY <3>1, <3>2 DEF SessionInv, RequestsInv
  <2>3. LiveSessionSurvives' /\ lost' \subseteq issued
    BY <1>1, <2>1, <2>2 DEF SessionInv, SessionTypeOK, TabsAgreeWithTheSession, LiveSessionSurvives
  <2>4. SessionTypeOK'
    BY <1>1, <1>2, <2>1, <2>3 DEF SessionInv, SessionTypeOK
  <2>5. RequestsInv' /\ CacheIsOfTheSignedIn'
    BY <1>1, <2>1 DEF RequestsInv, CacheIsOfTheSignedIn
  <2>6. TabKnowsItsOwnChanges'
    <3>1. signedIn'[r.page] = FALSE
      BY <1>2, <2>1 DEF SessionInv, SessionTypeOK
    <3>2. token' = NoToken /\ writer' = r.page
      BY <2>1
    <3>. QED
      BY <3>1, <3>2 DEF TabKnowsItsOwnChanges
  <2>. QED
    BY <2>3, <2>4, <2>5, <2>6 DEF SessionInv, TabsAgreeWithTheSession
<1>. QED
  BY <1>3, <1>4 DEF Refused

\* SessionEnds keeps the invariant.
LEMMA SessionEndsInv ==
    ASSUME SessionInv, NEW s \in Sessions, SessionEnds(s)
    PROVE  SessionInv'
<1>1. live' \subseteq live /\ UNCHANGED <<token, issued, signedIn, sent, cache, writer, overtook, lost>>
  BY DEF SessionEnds
<1>. QED
  BY <1>1
  DEF SessionInv, SessionTypeOK, RequestsInv, TabsAgreeWithTheSession, TabKnowsItsOwnChanges,
      CacheIsOfTheSignedIn, LiveSessionSurvives

\* The invariant holds in every reachable state.
THEOREM SessionInvariant == SessionSpec => []SessionInv
<1>1. ASSUME SessionInv, [SessionNext]_sessionVars PROVE SessionInv'
  <2>1. CASE SessionNext
    BY <1>1, <2>1, LoadInv, SendInv, LogOutInv, AnsweredInv, VerifiedInv, RefusedInv, SessionEndsInv
    DEF SessionNext
  <2>2. CASE UNCHANGED sessionVars
    BY <1>1, <2>2
    DEF sessionVars, SessionInv, SessionTypeOK, RequestsInv, TabsAgreeWithTheSession, TabKnowsItsOwnChanges,
        CacheIsOfTheSignedIn, LiveSessionSurvives
  <2>. QED
    BY <1>1, <2>1, <2>2
<1>. QED
  BY <1>1, SessionInitInv, PTL DEF SessionSpec

\* A tab knows who is signed in and shows that account's data, and a query's answer takes a live
\* session from it in the named race only, whatever order answers come in.
THEOREM TabsKnowTheSession == SessionSpec => []TabsAgreeWithTheSession
  BY SessionInvariant, PTL DEF SessionInv

\* The storage, the requests and the caches keep their shape.
THEOREM SessionTypes == SessionSpec => []SessionTypeOK
  BY SessionInvariant, PTL DEF SessionInv

-----------------------------------------------------------------------------
(* Rate limits *)

\* What was let through in each of the last ticks.
Counts(ticks) == [1..ticks -> Nat]

\* A window that has count requests and is open for left more ticks opened in tick ticks - left + 1,
\* and everything that was let through since then is the window's.  Before it, less than a limit was:
\* the request that opened the window before is forgotten when the next one opens.
Windowed(f, ticks, count, left, limit) ==
    /\ f \in Counts(ticks) /\ count \in Nat /\ left \in 0..ticks
    /\ count = 0 <=> left = 0
    /\ count = 0 => f[1] = 0 /\ Total(f) < limit
    /\ count > 0 =>
          /\ 0 < f[ticks - left + 1]
          /\ RunningTotal(f)[ticks - left + 1] = Least(count, limit)
          /\ Total(f) - RunningTotal(f)[ticks - left + 1] < limit

\* The count of a socket's window, while it is open.
Counted(s) == IF socket[s].left = 0 THEN 0 ELSE socket[s].count

\* A client is refused over the limit only, and then until its block ends.
RefusalInv ==
    /\ waited \in [since: Nat, refusing: BOOLEAN, most: Nat]
    /\ redis.blocked > 0 => waited.refusing /\ waited.since + redis.blocked = BlockFor
    /\ ~waited.refusing => waited.since = 0
    /\ redis.count > Limit => redis.expires <= redis.blocked
    /\ waited.refusing /\ redis.count > 0 => redis.count > Limit
    /\ waited.most < BlockFor

RateInv ==
    /\ redis \in [count: Nat, expires: 0..Ttl, blocked: 0..BlockFor]
    /\ redis.count <= Limit + 1
    /\ Windowed(recent, Ttl, redis.count, redis.expires, Limit)
    /\ socket \in [Sockets -> [count: 0..MaxEvents + 1, left: 0..Window]]
    /\ events \in [Sockets -> Counts(Window)]
    /\ \A s \in Sockets : Windowed(events[s], Window, Counted(s), socket[s].left, MaxEvents)
    /\ RefusalInv

-----------------------------------------------------------------------------

\* The counts are a sequence, and what its running total does.
LEMMA CountsAreTotalled ==
    ASSUME NEW ticks \in Nat \ {0}, NEW f \in Counts(ticks)
    PROVE  /\ f \in Seq(Int) /\ Len(f) = ticks
           /\ Total(f) = RunningTotal(f)[ticks]
           /\ RunningTotal(f)[0] = 0
           /\ \A n \in 1..ticks : /\ f[n] \in Nat /\ n - 1 \in 0..ticks
                                  /\ RunningTotal(f)[n] = RunningTotal(f)[n - 1] + f[n]
           /\ \A n \in 0..ticks : RunningTotal(f)[n] \in Int
<1>1. f \in [1..ticks -> Int] /\ f \in [1..ticks -> Nat]
  BY DEF Counts
<1>2. f \in Seq(Int)
  BY <1>1, SeqDef
<1>3. Len(f) = ticks
  <2> DEFINE l == Len(f)
  <2>1. DOMAIN f = 1..l /\ l \in Nat
    BY <1>2, LenProperties
  <2> HIDE DEF l
  <2>2. 1..l = 1..ticks
    BY <1>1, <2>1
  <2>3. l = ticks
    BY <2>1, <2>2
  <2>. QED
    BY <2>3 DEF l
<1>4. /\ RunningTotal(f) \in [0..Len(f) -> Int] /\ RunningTotal(f)[0] = 0
      /\ \A n \in 1..Len(f) : RunningTotal(f)[n] = RunningTotal(f)[n - 1] + f[n]
  BY <1>2, RunningTotalDef
<1>. QED
  BY <1>1, <1>2, <1>3, <1>4 DEF Total

\* One more in this tick is one more in every running total.
LEMMA OneMoreIsTotalled ==
    ASSUME NEW ticks \in Nat \ {0}, NEW f \in Counts(ticks)
    PROVE  /\ OneMore(f) \in Counts(ticks) /\ OneMore(f)[1] = f[1] + 1
           /\ \A n \in 1..ticks : n # 1 => OneMore(f)[n] = f[n]
           /\ \A n \in 1..ticks : RunningTotal(OneMore(f))[n] = RunningTotal(f)[n] + 1
<1> DEFINE g == OneMore(f)
<1>1. /\ g \in Counts(ticks) /\ g[1] = f[1] + 1
      /\ \A n \in 1..ticks : n # 1 => g[n] = f[n]
  BY DEF OneMore, Counts
<1>. HIDE DEF g
<1>2. /\ RunningTotal(f)[0] = 0
      /\ \A n \in 1..ticks : f[n] \in Nat /\ RunningTotal(f)[n] = RunningTotal(f)[n - 1] + f[n]
      /\ \A n \in 0..ticks : RunningTotal(f)[n] \in Int
  BY CountsAreTotalled
<1>3. /\ RunningTotal(g)[0] = 0
      /\ \A n \in 1..ticks : g[n] \in Nat /\ RunningTotal(g)[n] = RunningTotal(g)[n - 1] + g[n]
      /\ \A n \in 0..ticks : RunningTotal(g)[n] \in Int
  BY <1>1, CountsAreTotalled
<1> DEFINE S == {n \in 0..ticks : n = 0 \/ RunningTotal(g)[n] = RunningTotal(f)[n] + 1}
<1>4. 0 \in S
  OBVIOUS
<1>5. ASSUME NEW n \in 0..ticks, n \in S, n < ticks
      PROVE  n + 1 \in S
  <2>1. n + 1 \in 1..ticks /\ n + 1 - 1 = n /\ n + 1 \in 0..ticks
    BY <1>5
  <2>2. /\ RunningTotal(g)[n + 1] = RunningTotal(g)[n] + g[n + 1]
        /\ RunningTotal(f)[n + 1] = RunningTotal(f)[n] + f[n + 1]
        /\ RunningTotal(g)[n] \in Int /\ RunningTotal(f)[n] \in Int /\ f[n + 1] \in Nat
    BY <1>2, <1>3, <2>1
  <2>3. CASE n = 0
    <3>1. RunningTotal(g)[1] = g[1] /\ RunningTotal(f)[1] = f[1] /\ g[1] = f[1] + 1
      BY <1>1, <1>2, <1>3, <2>2, <2>3
    <3>2. RunningTotal(g)[n + 1] = RunningTotal(f)[n + 1] + 1
      BY <2>3, <3>1
    <3>. QED
      BY <2>1, <3>2
  <2>4. CASE n # 0
    <3>1. g[n + 1] = f[n + 1]
      BY <1>1, <2>1, <2>4
    <3>2. RunningTotal(g)[n] = RunningTotal(f)[n] + 1
      BY <1>5, <2>4
    <3>3. RunningTotal(g)[n + 1] = RunningTotal(f)[n + 1] + 1
      BY <2>2, <3>1, <3>2
    <3>. QED
      BY <2>1, <3>3
  <2>. QED
    BY <2>3, <2>4
<1>6. 0..ticks \subseteq S
  <2> HIDE DEF S
  <2>. QED
    BY <1>4, <1>5, BoundedInduction
<1>. QED
  BY <1>1, <1>6 DEF g

\* A tick later every running total is what it was a tick before.
LEMMA ShiftedIsTotalled ==
    ASSUME NEW ticks \in Nat \ {0}, NEW f \in Counts(ticks)
    PROVE  /\ Shifted(f) \in Counts(ticks) /\ Shifted(f)[1] = 0
           /\ \A n \in 1..ticks : n # 1 => Shifted(f)[n] = f[n - 1]
           /\ \A n \in 1..ticks : RunningTotal(Shifted(f))[n] = RunningTotal(f)[n - 1]
<1> DEFINE g == Shifted(f)
<1>1. /\ g \in Counts(ticks) /\ g[1] = 0
      /\ \A n \in 1..ticks : n # 1 => g[n] = f[n - 1]
  <2>1. DOMAIN f = 1..ticks /\ \A n \in 1..ticks : f[n] \in Nat
    BY DEF Counts
  <2>2. \A n \in 1..ticks : n # 1 => n - 1 \in 1..ticks
    OBVIOUS
  <2>. QED
    BY <2>1, <2>2 DEF Shifted, Counts
<1>. HIDE DEF g
<1>2. /\ RunningTotal(f)[0] = 0
      /\ \A n \in 1..ticks : f[n] \in Nat /\ RunningTotal(f)[n] = RunningTotal(f)[n - 1] + f[n]
  BY CountsAreTotalled
<1>3. /\ RunningTotal(g)[0] = 0
      /\ \A n \in 1..ticks : RunningTotal(g)[n] = RunningTotal(g)[n - 1] + g[n]
  BY <1>1, CountsAreTotalled
<1> DEFINE S == {n \in 0..ticks : n = 0 \/ RunningTotal(g)[n] = RunningTotal(f)[n - 1]}
<1>4. 0 \in S
  OBVIOUS
<1>5. ASSUME NEW n \in 0..ticks, n \in S, n < ticks
      PROVE  n + 1 \in S
  <2>1. n + 1 \in 1..ticks /\ n + 1 - 1 = n /\ n + 1 \in 0..ticks
    BY <1>5
  <2>2. RunningTotal(g)[n + 1] = RunningTotal(g)[n] + g[n + 1]
    BY <1>3, <2>1
  <2>3. CASE n = 0
    <3>1. RunningTotal(g)[1] = 0 /\ RunningTotal(f)[0] = 0
      BY <1>1, <1>2, <1>3, <2>2, <2>3
    <3>2. RunningTotal(g)[n + 1] = RunningTotal(f)[n + 1 - 1]
      BY <2>1, <2>3, <3>1
    <3>. QED
      BY <2>1, <3>2
  <2>4. CASE n # 0
    <3>1. g[n + 1] = f[n]
      BY <1>1, <2>1, <2>4
    <3>2. RunningTotal(g)[n] = RunningTotal(f)[n - 1]
      BY <1>5, <2>4
    <3>3. RunningTotal(f)[n] = RunningTotal(f)[n - 1] + f[n]
      BY <1>2, <1>5, <2>4
    <3>4. RunningTotal(g)[n + 1] = RunningTotal(f)[n + 1 - 1]
      BY <2>1, <2>2, <3>1, <3>2, <3>3
    <3>. QED
      BY <2>1, <3>4
  <2>. QED
    BY <2>3, <2>4
<1>6. 0..ticks \subseteq S
  <2> HIDE DEF S
  <2>. QED
    BY <1>4, <1>5, BoundedInduction
<1>. QED
  BY <1>1, <1>6 DEF g

\* A window that opens.
LEMMA WindowOpens ==
    ASSUME NEW ticks \in Nat \ {0}, NEW limit \in Nat \ {0}, NEW f, Windowed(f, ticks, 0, 0, limit)
    PROVE  Windowed(OneMore(f), ticks, 1, ticks, limit)
<1>1. f \in Counts(ticks) /\ f[1] = 0 /\ Total(f) < limit
  BY DEF Windowed
<1>2. /\ OneMore(f) \in Counts(ticks) /\ OneMore(f)[1] = 1
      /\ RunningTotal(OneMore(f))[1] = RunningTotal(f)[1] + 1
      /\ RunningTotal(OneMore(f))[ticks] = RunningTotal(f)[ticks] + 1
  BY <1>1, OneMoreIsTotalled
<1>3. RunningTotal(f)[1] = 0
  <2>1. 1 \in 1..ticks /\ 1 - 1 = 0
    OBVIOUS
  <2>. QED
    BY <1>1, <2>1, CountsAreTotalled
<1>4. /\ Total(OneMore(f)) = RunningTotal(OneMore(f))[ticks] /\ Total(f) = RunningTotal(f)[ticks]
      /\ RunningTotal(f)[ticks] \in Int
  BY <1>1, <1>2, CountsAreTotalled
<1>5. ticks - ticks + 1 = 1 /\ ticks \in 0..ticks /\ Least(1, limit) = 1
  BY DEF Least
<1>. QED
  BY <1>1, <1>2, <1>3, <1>4, <1>5 DEF Windowed

\* A request that an open window lets through.
LEMMA WindowTakesOneMore ==
    ASSUME NEW ticks \in Nat \ {0}, NEW limit \in Nat \ {0}, NEW f, NEW count, NEW left,
           Windowed(f, ticks, count, left, limit), count > 0, count < limit
    PROVE  Windowed(OneMore(f), ticks, count + 1, left, limit)
<1> DEFINE k == ticks - left + 1
<1>1. /\ f \in Counts(ticks) /\ count \in Nat /\ left \in 0..ticks /\ left # 0 /\ k \in 1..ticks
      /\ 0 < f[k] /\ RunningTotal(f)[k] = Least(count, limit) /\ Total(f) - RunningTotal(f)[k] < limit
  BY DEF Windowed
<1>. HIDE DEF k
<1>2. /\ OneMore(f) \in Counts(ticks) /\ 0 < OneMore(f)[k]
      /\ RunningTotal(OneMore(f))[k] = RunningTotal(f)[k] + 1
      /\ RunningTotal(OneMore(f))[ticks] = RunningTotal(f)[ticks] + 1
  <2>1. f[1] \in Nat /\ f[k] \in Nat
    BY <1>1 DEF Counts
  <2>. QED
    BY <1>1, <2>1, OneMoreIsTotalled
<1>3. /\ Total(OneMore(f)) = RunningTotal(OneMore(f))[ticks] /\ Total(f) = RunningTotal(f)[ticks]
      /\ RunningTotal(f)[ticks] \in Int /\ RunningTotal(f)[k] \in Int
  <2>1. k \in 0..ticks /\ ticks \in 0..ticks
    BY <1>1
  <2>2. Total(OneMore(f)) = RunningTotal(OneMore(f))[ticks]
    BY <1>2, CountsAreTotalled
  <2>. QED
    BY <1>1, <2>1, <2>2, CountsAreTotalled
<1>4. Least(count + 1, limit) = Least(count, limit) + 1
  BY <1>1 DEF Least
<1>. QED
  BY <1>1, <1>2, <1>3, <1>4 DEF Windowed, k

\* A request that a window refuses is counted and changes nothing else.
LEMMA WindowRefuses ==
    ASSUME NEW ticks \in Nat \ {0}, NEW limit \in Nat \ {0}, NEW f, NEW count, NEW left,
           Windowed(f, ticks, count, left, limit), count >= limit, NEW c \in Nat, c >= limit
    PROVE  Windowed(f, ticks, c, left, limit)
<1>1. count \in Nat /\ count > 0 /\ c > 0
  BY DEF Windowed
<1>2. Least(count, limit) = Least(c, limit)
  BY <1>1 DEF Least
<1>. QED
  BY <1>1, <1>2 DEF Windowed

\* A tick of a window; when its time is up the request that opened it is forgotten.
LEMMA WindowTicks ==
    ASSUME NEW ticks \in Nat \ {0}, NEW limit \in Nat \ {0}, NEW f, NEW count, NEW left,
           Windowed(f, ticks, count, left, limit)
    PROVE  Windowed(Shifted(f), ticks, IF left <= 1 THEN 0 ELSE count, Down(left), limit)
<1> DEFINE g == Shifted(f)
           k == ticks - left + 1
<1>1. f \in Counts(ticks) /\ count \in Nat /\ left \in 0..ticks /\ (count = 0 <=> left = 0)
  BY DEF Windowed
<1>2. /\ g \in Counts(ticks) /\ g[1] = 0
      /\ \A n \in 1..ticks : n # 1 => g[n] = f[n - 1]
      /\ \A n \in 1..ticks : RunningTotal(g)[n] = RunningTotal(f)[n - 1]
  BY <1>1, ShiftedIsTotalled
<1>. HIDE DEF g
<1>3. /\ Total(g) = RunningTotal(f)[ticks - 1] /\ Total(f) = RunningTotal(f)[ticks]
      /\ RunningTotal(f)[ticks] = RunningTotal(f)[ticks - 1] + f[ticks]
      /\ f[ticks] \in Nat /\ RunningTotal(f)[ticks - 1] \in Int /\ RunningTotal(f)[ticks] \in Int
  <2>1. Total(g) = RunningTotal(g)[ticks] /\ ticks \in 1..ticks /\ ticks - 1 \in 0..ticks
    BY <1>2, CountsAreTotalled
  <2>2. /\ Total(f) = RunningTotal(f)[ticks] /\ f[ticks] \in Nat
        /\ RunningTotal(f)[ticks] = RunningTotal(f)[ticks - 1] + f[ticks]
        /\ RunningTotal(f)[ticks - 1] \in Int /\ RunningTotal(f)[ticks] \in Int
    BY <1>1, <2>1, CountsAreTotalled
  <2>. QED
    BY <1>2, <2>1, <2>2
<1>4. CASE left = 0
  <2>1. count = 0 /\ Total(f) < limit /\ Down(left) = 0
    BY <1>1, <1>4 DEF Windowed, Down
  <2>2. Total(g) < limit
    BY <1>3, <2>1
  <2>. QED
    BY <1>2, <1>4, <2>1, <2>2 DEF Windowed, g
<1>5. CASE left = 1
  <2>1. count > 0 /\ k = ticks /\ Down(left) = 0
    BY <1>1, <1>5 DEF Down
  <2>2. 0 < f[ticks] /\ RunningTotal(f)[ticks] = Least(count, limit)
    BY <2>1 DEF Windowed
  <2>3. Least(count, limit) <= limit /\ Least(count, limit) \in Nat
    BY <1>1 DEF Least
  <2>4. Total(g) < limit
    BY <1>3, <2>2, <2>3
  <2>. QED
    BY <1>2, <1>5, <2>1, <2>4 DEF Windowed, g
<1>6. CASE left > 1
  <2>1. /\ count > 0 /\ k \in 1..ticks /\ k + 1 \in 1..ticks /\ k + 1 # 1 /\ k + 1 - 1 = k
        /\ Down(left) = left - 1 /\ left - 1 \in 1..ticks /\ ticks - (left - 1) + 1 = k + 1
    BY <1>1, <1>6 DEF Down
  <2>2. 0 < f[k] /\ RunningTotal(f)[k] = Least(count, limit) /\ Total(f) - RunningTotal(f)[k] < limit
    BY <2>1 DEF Windowed
  <2> HIDE DEF k
  <2>3. g[k + 1] = f[k] /\ RunningTotal(g)[k + 1] = RunningTotal(f)[k]
    BY <1>2, <2>1
  <2>4. RunningTotal(f)[k] \in Int
    BY <1>1, <2>1, CountsAreTotalled
  <2>5. Total(g) - RunningTotal(g)[k + 1] < limit
    BY <1>3, <2>2, <2>3, <2>4
  <2>6. Windowed(g, ticks, count, left - 1, limit)
    BY <1>1, <1>2, <2>1, <2>2, <2>3, <2>5 DEF Windowed
  <2>. QED
    BY <1>1, <1>6, <2>1, <2>6 DEF g
<1>. QED
  BY <1>1, <1>4, <1>5, <1>6

\* Around the end of a window less than two limits are let through.
LEMMA WindowIsBounded ==
    ASSUME NEW ticks \in Nat \ {0}, NEW limit \in Nat \ {0}, NEW f, NEW count, NEW left,
           Windowed(f, ticks, count, left, limit)
    PROVE  Total(f) < 2 * limit
<1> DEFINE k == ticks - left + 1
<1>1. f \in Counts(ticks) /\ count \in Nat /\ left \in 0..ticks /\ (count = 0 <=> left = 0)
  BY DEF Windowed
<1>2. Total(f) \in Int
  BY <1>1, CountsAreTotalled
<1>3. CASE count = 0
  BY <1>2, <1>3 DEF Windowed
<1>4. CASE count # 0
  <2>1. k \in 1..ticks /\ count > 0
    BY <1>1, <1>4
  <2>2. RunningTotal(f)[k] = Least(count, limit) /\ Total(f) - RunningTotal(f)[k] < limit
    BY <2>1 DEF Windowed
  <2>3. Least(count, limit) <= limit /\ Least(count, limit) \in Nat
    BY <1>1 DEF Least
  <2> HIDE DEF k
  <2>. QED
    BY <1>2, <2>2, <2>3
<1>. QED
  BY <1>3, <1>4

-----------------------------------------------------------------------------

\* No request and no event yet, as after connecting.
LEMMA NothingIsCounted ==
    ASSUME NEW ticks \in Nat \ {0}, NEW limit \in Nat \ {0}
    PROVE  Windowed([t \in 1..ticks |-> 0], ticks, 0, 0, limit)
<1> DEFINE f == [t \in 1..ticks |-> 0]
           S == {n \in 0..ticks : RunningTotal(f)[n] = 0}
<1>1. f \in Counts(ticks) /\ \A n \in 1..ticks : f[n] = 0
  BY DEF Counts
<1>. HIDE DEF f
<1>2. /\ RunningTotal(f)[0] = 0 /\ Total(f) = RunningTotal(f)[ticks]
      /\ \A n \in 1..ticks : RunningTotal(f)[n] = RunningTotal(f)[n - 1] + f[n]
  BY <1>1, CountsAreTotalled
<1>3. 0 \in S
  BY <1>2
<1>4. ASSUME NEW n \in 0..ticks, n \in S, n < ticks
      PROVE  n + 1 \in S
  <2>1. n + 1 \in 1..ticks /\ n + 1 - 1 = n /\ n + 1 \in 0..ticks
    BY <1>4
  <2>2. RunningTotal(f)[n + 1] = RunningTotal(f)[n] + f[n + 1] /\ f[n + 1] = 0 /\ RunningTotal(f)[n] = 0
    BY <1>1, <1>2, <1>4, <2>1
  <2>. QED
    BY <2>1, <2>2
<1>5. 0..ticks \subseteq S
  <2> HIDE DEF S
  <2>. QED
    BY <1>3, <1>4, BoundedInduction
<1>6. Total(f) = 0
  BY <1>2, <1>5
<1>. QED
  BY <1>1, <1>6 DEF Windowed, f

\* The initial states have the invariant.
LEMMA RateInitInv == RateInit => RateInv
<1> SUFFICES ASSUME RateInit PROVE RateInv
  OBVIOUS
<1>0. /\ Ttl \in Nat \ {0} /\ Limit \in Nat \ {0} /\ BlockFor \in Nat \ {0}
      /\ Window \in Nat \ {0} /\ MaxEvents \in Nat \ {0}
  BY RateLimitsAssumption
<1>1. redis = [count |-> 0, expires |-> 0, blocked |-> 0] /\ Windowed(recent, Ttl, 0, 0, Limit)
  BY <1>0, NothingIsCounted DEF RateInit
<1>2. /\ socket \in [Sockets -> [count: 0..MaxEvents + 1, left: 0..Window]]
      /\ events \in [Sockets -> Counts(Window)]
  BY <1>0 DEF RateInit, NoWindow, Counts
<1>3. \A s \in Sockets : Windowed(events[s], Window, Counted(s), socket[s].left, MaxEvents)
  <2> SUFFICES ASSUME NEW s \in Sockets PROVE Windowed(events[s], Window, Counted(s), socket[s].left, MaxEvents)
    OBVIOUS
  <2>1. events[s] = [t \in 1..Window |-> 0] /\ Counted(s) = 0 /\ socket[s].left = 0
    BY DEF RateInit, NoWindow, Counted
  <2>. QED
    BY <1>0, <2>1, NothingIsCounted
<1>4. RefusalInv
  BY <1>0 DEF RateInit, RefusalInv
<1>. QED
  BY <1>0, <1>1, <1>2, <1>3, <1>4 DEF RateInv

\* Increment keeps the invariant.
LEMMA IncrementInv ==
    ASSUME RateInv, Increment
    PROVE  RateInv'
<1>0. /\ Ttl \in Nat \ {0} /\ Limit \in Nat \ {0} /\ BlockFor \in Nat \ {0} /\ BlockFor = Ttl
  BY RateLimitsAssumption
<1>1. /\ redis \in [count: Nat, expires: 0..Ttl, blocked: 0..BlockFor] /\ redis.count <= Limit + 1
      /\ redis.count \in Nat /\ redis.expires \in 0..Ttl /\ redis.blocked \in 0..BlockFor
      /\ Windowed(recent, Ttl, redis.count, redis.expires, Limit)
      /\ redis.count = 0 <=> redis.expires = 0
      /\ waited \in [since: Nat, refusing: BOOLEAN, most: Nat]
      /\ waited.since \in Nat /\ waited.most \in Nat
      /\ UNCHANGED <<socket, events>>
  BY DEF RateInv, RefusalInv, Windowed, Increment
<1>2. \A s \in Sockets : Windowed(events'[s], Window, Counted(s)', socket'[s].left, MaxEvents)
  BY <1>1 DEF RateInv, Counted
<1>3. /\ socket' \in [Sockets -> [count: 0..MaxEvents + 1, left: 0..Window]]
      /\ events' \in [Sockets -> Counts(Window)]
  BY <1>1 DEF RateInv
<1>4. CASE redis.blocked > 0 /\ redis' = [redis EXCEPT !.blocked = BlockAfterRefusal] /\ Refuse
  <2>1. redis' = redis /\ recent' = recent
    BY <1>1, <1>4 DEF BlockAfterRefusal, Refuse
  <2>2. waited.refusing /\ waited.since + redis.blocked = BlockFor /\ waited.most < BlockFor
    BY <1>4 DEF RateInv, RefusalInv
  <2>3. /\ waited' \in [since: Nat, refusing: BOOLEAN, most: Nat] /\ waited'.refusing /\ waited'.since = waited.since
        /\ waited'.most \in {waited.most, waited.since}
    BY <1>1, <1>4 DEF Refuse
  <2>4. waited.since < BlockFor
    BY <1>0, <1>1, <1>4, <2>2
  <2>5. RefusalInv'
    BY <2>1, <2>2, <2>3, <2>4 DEF RateInv, RefusalInv
  <2>. QED
    BY <1>1, <1>2, <1>3, <2>1, <2>5 DEF RateInv
<1>5. CASE redis.blocked = 0
  <2> DEFINE current == redis.count + 1
  <2>1. /\ redis' = [count |-> current, expires |-> ExpiryAfter(current),
                     blocked |-> IF OverLimit(current) THEN BlockFor ELSE 0]
        /\ IF OverLimit(current) THEN Refuse ELSE Pass
    BY <1>5 DEF Increment
  <2>2. redis.count <= Limit
    BY <1>0, <1>1, <1>5 DEF RateInv, RefusalInv
  <2>3. CASE OverLimit(current)
    <3>1. redis.count = Limit /\ current = Limit + 1 /\ redis.count > 0 /\ ExpiryAfter(current) = redis.expires
      BY <1>0, <1>1, <2>2, <2>3 DEF OverLimit, ExpiryAfter
    <3>2. redis'.count = Limit + 1 /\ redis'.expires = redis.expires /\ redis'.blocked = BlockFor
          /\ redis' \in [count: Nat, expires: 0..Ttl, blocked: 0..BlockFor]
      BY <1>0, <1>1, <2>1, <2>3, <3>1
    <3>3. ~waited.refusing /\ waited.since = 0 /\ waited.most < BlockFor
      BY <1>0, <1>1, <3>1 DEF RateInv, RefusalInv
    <3>4. Refuse
      BY <2>1, <2>3
    <3>5. /\ waited' \in [since: Nat, refusing: BOOLEAN, most: Nat] /\ waited'.refusing /\ waited'.since = 0
          /\ waited'.most \in {waited.most, waited.since} /\ recent' = recent
      BY <1>1, <3>3, <3>4 DEF Refuse
    <3>6. RefusalInv'
      BY <1>0, <1>1, <3>2, <3>3, <3>5 DEF RefusalInv
    <3>7. Windowed(recent, Ttl, Limit + 1, redis.expires, Limit)
      BY <1>0, <1>1, <3>1, WindowRefuses
    <3>. QED
      BY <1>0, <1>2, <1>3, <3>2, <3>5, <3>6, <3>7 DEF RateInv
  <2>4. CASE ~OverLimit(current)
    <3>1. Pass /\ current <= Limit /\ current > 0
      BY <1>0, <1>1, <2>1, <2>4 DEF OverLimit
    <3>2. redis'.count = current /\ redis'.expires = ExpiryAfter(current) /\ redis'.blocked = 0
      BY <2>1, <2>4
    <3>3. ExpiryAfter(current) \in 0..Ttl
      BY <1>0, <1>1 DEF ExpiryAfter
    <3>4. redis' \in [count: Nat, expires: 0..Ttl, blocked: 0..BlockFor]
      BY <1>0, <1>1, <2>1, <2>4, <3>3
    <3>5. /\ waited' \in [since: Nat, refusing: BOOLEAN, most: Nat] /\ ~waited'.refusing /\ waited'.since = 0
          /\ waited'.most = waited.most /\ recent' = OneMore(recent)
      BY <1>1, <3>1 DEF Pass
    <3>6. waited.most < BlockFor
      BY DEF RateInv, RefusalInv
    <3>7. RefusalInv'
      BY <1>0, <1>1, <3>1, <3>2, <3>5, <3>6 DEF RefusalInv
    <3>8. Windowed(OneMore(recent), Ttl, current, ExpiryAfter(current), Limit)
      <4>1. CASE redis.count = 0
        <5>1. redis.expires = 0 /\ current = 1 /\ ExpiryAfter(current) = Ttl
          BY <1>1, <4>1 DEF ExpiryAfter
        <5>. QED
          BY <1>0, <1>1, <4>1, <5>1, WindowOpens
      <4>2. CASE redis.count # 0
        <5>1. redis.count > 0 /\ redis.count < Limit /\ ExpiryAfter(current) = redis.expires
          BY <1>0, <1>1, <3>1, <4>2 DEF ExpiryAfter
        <5>. QED
          BY <1>0, <1>1, <5>1, WindowTakesOneMore
      <4>. QED
        BY <4>1, <4>2
    <3>9. current <= Limit + 1
      BY <1>0, <1>1, <3>1
    <3> HIDE DEF current
    <3>. QED
      BY <1>2, <1>3, <3>2, <3>4, <3>5, <3>7, <3>8, <3>9 DEF RateInv
  <2>. QED
    BY <2>3, <2>4
<1>. QED
  BY <1>4, <1>5 DEF Increment

\* What a step on one socket has to show.
LEMMA OneSocketMoves ==
    ASSUME RateInv, NEW s \in Sockets, NEW row \in [count: 0..MaxEvents + 1, left: 0..Window],
           NEW f \in Counts(Window), Windowed(f, Window, IF row.left = 0 THEN 0 ELSE row.count, row.left, MaxEvents),
           socket' = [socket EXCEPT ![s] = row], events' = [events EXCEPT ![s] = f],
           UNCHANGED <<redis, recent, waited>>
    PROVE  RateInv'
<1>1. /\ socket' \in [Sockets -> [count: 0..MaxEvents + 1, left: 0..Window]] /\ socket'[s] = row
      /\ \A r \in Sockets : r # s => socket'[r] = socket[r]
  BY DEF RateInv
<1>2. /\ events' \in [Sockets -> Counts(Window)] /\ events'[s] = f
      /\ \A r \in Sockets : r # s => events'[r] = events[r]
  BY DEF RateInv
<1>3. ASSUME NEW r \in Sockets
      PROVE  Windowed(events'[r], Window, Counted(r)', socket'[r].left, MaxEvents)
  <2>1. CASE r = s
    <3>1. Counted(s)' = IF row.left = 0 THEN 0 ELSE row.count
      BY <1>1 DEF Counted
    <3>. QED
      BY <1>1, <1>2, <2>1, <3>1
  <2>2. CASE r # s
    <3>1. Counted(r)' = Counted(r)
      BY <1>1, <2>2 DEF Counted
    <3>. QED
      BY <1>1, <1>2, <2>2, <3>1 DEF RateInv
  <2>. QED
    BY <2>1, <2>2
<1>. QED
  BY <1>1, <1>2, <1>3 DEF RateInv, RefusalInv

\* Connect keeps the invariant.
LEMMA ConnectInv ==
    ASSUME RateInv, NEW s \in Sockets, Connect(s)
    PROVE  RateInv'
<1>0. Window \in Nat \ {0} /\ MaxEvents \in Nat \ {0}
  BY RateLimitsAssumption
<1> DEFINE f == [t \in 1..Window |-> 0]
<1>1. Windowed(f, Window, 0, 0, MaxEvents) /\ f \in Counts(Window)
  BY <1>0, NothingIsCounted DEF Windowed
<1>2. NoWindow \in [count: 0..MaxEvents + 1, left: 0..Window] /\ NoWindow.left = 0
  BY <1>0 DEF NoWindow
<1>3. /\ socket' = [socket EXCEPT ![s] = NoWindow] /\ events' = [events EXCEPT ![s] = f]
      /\ UNCHANGED <<redis, recent, waited>>
  BY DEF Connect
<1>. HIDE DEF f
<1>. QED
  BY <1>1, <1>2, <1>3, OneSocketMoves

\* SocketEvent keeps the invariant.
LEMMA SocketEventInv ==
    ASSUME RateInv, NEW s \in Sockets, SocketEvent(s)
    PROVE  RateInv'
<1> DEFINE opens == socket[s].left = 0
           count == IF opens THEN 1 ELSE Least(socket[s].count + 1, MaxEvents + 1)
           row == [count |-> count, left |-> IF opens THEN Window ELSE socket[s].left]
           f == IF opens \/ count <= MaxEvents THEN OneMore(events[s]) ELSE events[s]
<1>0. Window \in Nat \ {0} /\ MaxEvents \in Nat \ {0}
  BY RateLimitsAssumption
<1>1. /\ socket \in [Sockets -> [count: 0..MaxEvents + 1, left: 0..Window]]
      /\ socket[s].count \in 0..MaxEvents + 1 /\ socket[s].left \in 0..Window
      /\ events \in [Sockets -> Counts(Window)] /\ events[s] \in Counts(Window)
      /\ Windowed(events[s], Window, Counted(s), socket[s].left, MaxEvents)
      /\ Counted(s) = 0 <=> socket[s].left = 0
  BY DEF RateInv, Windowed
<1>2. /\ socket' = [socket EXCEPT ![s] = row] /\ UNCHANGED <<redis, recent, waited>>
      /\ events' = IF opens \/ count <= MaxEvents THEN [events EXCEPT ![s] = OneMore(events[s])] ELSE events
  BY DEF SocketEvent
<1>3. events' = [events EXCEPT ![s] = f]
  <2>1. CASE opens \/ count <= MaxEvents
    BY <1>2, <2>1
  <2>2. CASE ~(opens \/ count <= MaxEvents)
    BY <1>1, <1>2, <2>2
  <2>. QED
    BY <2>1, <2>2
<1>4. count \in 0..MaxEvents + 1 /\ row.count = count
  BY <1>0, <1>1 DEF Least
<1>5. row \in [count: 0..MaxEvents + 1, left: 0..Window]
  BY <1>0, <1>1, <1>4
<1>6. Windowed(f, Window, IF row.left = 0 THEN 0 ELSE row.count, row.left, MaxEvents)
  <2>1. CASE opens
    <3>1. Counted(s) = 0 /\ socket[s].left = 0 /\ row.left = Window /\ row.count = 1 /\ f = OneMore(events[s])
      BY <2>1 DEF Counted
    <3>2. Windowed(OneMore(events[s]), Window, 1, Window, MaxEvents)
      BY <1>0, <1>1, <3>1, WindowOpens
    <3>. QED
      BY <1>0, <3>1, <3>2
  <2>2. CASE ~opens
    <3>1. /\ Counted(s) = socket[s].count /\ socket[s].left # 0 /\ row.left = socket[s].left
          /\ row.count = Least(socket[s].count + 1, MaxEvents + 1) /\ socket[s].count > 0
      BY <1>1, <2>2 DEF Counted
    <3>2. CASE socket[s].count < MaxEvents
      <4>1. count = socket[s].count + 1 /\ f = OneMore(events[s])
        BY <1>0, <1>1, <2>2, <3>2 DEF Least
      <4>2. Windowed(OneMore(events[s]), Window, socket[s].count + 1, socket[s].left, MaxEvents)
        BY <1>0, <1>1, <3>1, <3>2, WindowTakesOneMore
      <4>. QED
        BY <1>4, <3>1, <4>1, <4>2
    <3>3. CASE ~(socket[s].count < MaxEvents)
      <4>1. count = MaxEvents + 1 /\ f = events[s] /\ socket[s].count >= MaxEvents
            /\ MaxEvents + 1 \in Nat /\ MaxEvents + 1 >= MaxEvents
        BY <1>0, <1>1, <2>2, <3>3 DEF Least
      <4>2. Windowed(events[s], Window, MaxEvents + 1, socket[s].left, MaxEvents)
        BY <1>0, <1>1, <3>1, <4>1, WindowRefuses
      <4>. QED
        BY <1>4, <3>1, <4>1, <4>2
    <3>. QED
      BY <3>2, <3>3
  <2>. QED
    BY <2>1, <2>2
<1>7. f \in Counts(Window)
  BY <1>6 DEF Windowed
<1>. HIDE DEF f, row
<1>. QED
  BY <1>2, <1>3, <1>5, <1>6, <1>7, OneSocketMoves

\* TimePasses keeps the invariant.
LEMMA TimePassesInv ==
    ASSUME RateInv, TimePasses
    PROVE  RateInv'
<1>0. /\ Ttl \in Nat \ {0} /\ Limit \in Nat \ {0} /\ BlockFor \in Nat \ {0} /\ BlockFor = Ttl
      /\ Window \in Nat \ {0} /\ MaxEvents \in Nat \ {0}
  BY RateLimitsAssumption
<1>1. /\ redis.count \in Nat /\ redis.count <= Limit + 1 /\ redis.expires \in 0..Ttl /\ redis.blocked \in 0..BlockFor
      /\ Windowed(recent, Ttl, redis.count, redis.expires, Limit)
      /\ redis.count = 0 <=> redis.expires = 0
  BY DEF RateInv, Windowed
<1>2. /\ redis' = [count |-> IF redis.expires = 1 THEN 0 ELSE redis.count,
                   expires |-> Down(redis.expires), blocked |-> Down(redis.blocked)]
      /\ socket' = [s \in Sockets |-> [socket[s] EXCEPT !.left = Down(socket[s].left)]]
      /\ recent' = Shifted(recent)
      /\ events' = [s \in Sockets |-> Shifted(events[s])]
      /\ waited' = IF waited.refusing THEN [waited EXCEPT !.since = Least(waited.since + 1, 2 * BlockFor)] ELSE waited
  BY DEF TimePasses
<1>3. /\ redis'.count = (IF redis.expires <= 1 THEN 0 ELSE redis.count)
      /\ redis'.expires = Down(redis.expires) /\ redis'.blocked = Down(redis.blocked)
      /\ Down(redis.expires) \in 0..Ttl /\ Down(redis.blocked) \in 0..BlockFor
      /\ redis' \in [count: Nat, expires: 0..Ttl, blocked: 0..BlockFor] /\ redis'.count <= Limit + 1
  <2>1. Down(redis.expires) \in 0..Ttl /\ Down(redis.blocked) \in 0..BlockFor
    BY <1>0, <1>1 DEF Down
  <2>2. (IF redis.expires = 1 THEN 0 ELSE redis.count) = (IF redis.expires <= 1 THEN 0 ELSE redis.count)
    BY <1>1
  <2>3. (IF redis.expires <= 1 THEN 0 ELSE redis.count) \in Nat
        /\ (IF redis.expires <= 1 THEN 0 ELSE redis.count) <= Limit + 1
    BY <1>0, <1>1
  <2>. QED
    BY <1>2, <2>1, <2>2, <2>3
<1>4. Windowed(recent', Ttl, redis'.count, redis'.expires, Limit)
  BY <1>0, <1>1, <1>2, <1>3, WindowTicks
<1>5. RefusalInv'
  <2>1. /\ waited \in [since: Nat, refusing: BOOLEAN, most: Nat] /\ waited.since \in Nat
        /\ redis.blocked > 0 => waited.refusing /\ waited.since + redis.blocked = BlockFor
        /\ ~waited.refusing => waited.since = 0
        /\ redis.count > Limit => redis.expires <= redis.blocked
        /\ waited.refusing /\ redis.count > 0 => redis.count > Limit
        /\ waited.most < BlockFor
    BY DEF RateInv, RefusalInv
  <2>2. /\ waited' \in [since: Nat, refusing: BOOLEAN, most: Nat] /\ waited'.refusing = waited.refusing
        /\ waited'.most = waited.most
        /\ waited.refusing => waited'.since = Least(waited.since + 1, 2 * BlockFor)
        /\ ~waited.refusing => waited'.since = waited.since
    <3>1. Least(waited.since + 1, 2 * BlockFor) \in Nat
      BY <1>0, <2>1 DEF Least
    <3>. QED
      BY <1>2, <2>1, <3>1
  <2>3. redis'.blocked > 0 => waited.refusing /\ waited'.since + redis'.blocked = BlockFor
    <3> SUFFICES ASSUME redis'.blocked > 0 PROVE waited.refusing /\ waited'.since + redis'.blocked = BlockFor
      OBVIOUS
    <3>1. redis.blocked > 0 /\ redis'.blocked = redis.blocked - 1
      BY <1>1, <1>3 DEF Down
    <3>2. Least(waited.since + 1, 2 * BlockFor) = waited.since + 1
      BY <1>0, <1>1, <2>1, <3>1 DEF Least
    <3>. QED
      BY <1>0, <1>1, <2>1, <2>2, <3>1, <3>2
  <2>4. redis'.count > Limit => redis'.expires <= redis'.blocked
    BY <1>0, <1>1, <1>3, <2>1 DEF Down
  <2>5. waited'.refusing /\ redis'.count > 0 => redis'.count > Limit
    BY <1>3, <2>1, <2>2
  <2>. QED
    BY <2>1, <2>2, <2>3, <2>4, <2>5 DEF RefusalInv
<1>6. ASSUME NEW s \in Sockets
      PROVE  /\ socket'[s] \in [count: 0..MaxEvents + 1, left: 0..Window]
             /\ Windowed(events'[s], Window, Counted(s)', socket'[s].left, MaxEvents)
  <2>1. /\ socket[s] \in [count: 0..MaxEvents + 1, left: 0..Window] /\ socket[s].left \in 0..Window
        /\ Windowed(events[s], Window, Counted(s), socket[s].left, MaxEvents)
    BY DEF RateInv
  <2>2. /\ socket'[s] = [socket[s] EXCEPT !.left = Down(socket[s].left)]
        /\ Down(socket[s].left) \in 0..Window /\ events'[s] = Shifted(events[s])
    <3>1. Down(socket[s].left) \in 0..Window
      BY <1>0, <2>1 DEF Down
    <3>2. socket'[s] = [socket[s] EXCEPT !.left = Down(socket[s].left)] /\ events'[s] = Shifted(events[s])
      BY <1>2
    <3>. QED
      BY <3>1, <3>2
  <2>3. /\ socket'[s] \in [count: 0..MaxEvents + 1, left: 0..Window]
        /\ socket'[s].left = Down(socket[s].left) /\ socket'[s].count = socket[s].count
    BY <2>1, <2>2
  <2>4. Counted(s)' = IF socket[s].left <= 1 THEN 0 ELSE Counted(s)
    BY <2>1, <2>3 DEF Counted, Down
  <2>5. Windowed(Shifted(events[s]), Window, IF socket[s].left <= 1 THEN 0 ELSE Counted(s), Down(socket[s].left), MaxEvents)
    BY <1>0, <2>1, WindowTicks
  <2>. QED
    BY <2>2, <2>3, <2>4, <2>5
<1>7. /\ socket' \in [Sockets -> [count: 0..MaxEvents + 1, left: 0..Window]]
      /\ events' \in [Sockets -> Counts(Window)]
  BY <1>2, <1>6 DEF Windowed
<1>. QED
  BY <1>3, <1>4, <1>5, <1>6, <1>7 DEF RateInv

\* The counters, their windows and the block keep to their invariant.
THEOREM RateInvariant == RateSpec => []RateInv
<1>1. RateInv /\ UNCHANGED rateVars => RateInv'
  BY DEF RateInv, RefusalInv, Counted, rateVars
<1>2. ASSUME NEW s \in Sockets, RateInv, Connect(s) \/ SocketEvent(s) PROVE RateInv'
  BY <1>2, ConnectInv, SocketEventInv
<1>3. RateInv /\ [RateNext]_rateVars => RateInv'
  BY <1>1, <1>2, IncrementInv, TimePassesInv DEF RateNext
<1>. QED
  BY <1>3, RateInitInv, PTL DEF RateSpec

\* Limits let less than twice their number through around the end of a window, and a refused
\* client is let through when the block of its first refusal ends (redis-throttler.storage.ts,
\* socket-rate-limiter.ts).
THEOREM LimitsAlwaysHold == RateSpec => []LimitsHold
<1>1. RateInv => LimitsHold
  <2> SUFFICES ASSUME RateInv PROVE LimitsHold
    OBVIOUS
  <2>1. Total(recent) < 2 * Limit
    BY RateLimitsAssumption, WindowIsBounded DEF RateInv
  <2>2. \A s \in Sockets : Total(events[s]) < 2 * MaxEvents
    BY RateLimitsAssumption, WindowIsBounded DEF RateInv
  <2>3. RefusalsEnd
    BY DEF RateInv, RefusalInv, RefusalsEnd
  <2>. QED
    BY <2>1, <2>2, <2>3 DEF LimitsHold, BurstIsBounded
<1>. QED
  BY <1>1, RateInvariant, PTL

\* A counter always has an expiry, and a block outlives the counter that caused it.
THEOREM RateTypes == RateSpec => []RateTypeOK
<1>1. RateInv => RateTypeOK
  <2> SUFFICES ASSUME RateInv PROVE RateTypeOK
    OBVIOUS
  <2>1. /\ Ttl \in Nat /\ Limit \in Nat /\ BlockFor \in Nat
    BY RateLimitsAssumption
  <2>2. /\ redis.count \in 0..Limit + 1 /\ redis.expires \in 0..Ttl /\ redis.blocked \in 0..BlockFor
        /\ redis.count > 0 => redis.expires > 0
    BY <2>1 DEF RateInv, Windowed
  <2>3. redis.count > Limit => redis.blocked >= redis.expires
    BY <2>1, <2>2 DEF RateInv, RefusalInv
  <2>4. waited.most <= 2 * BlockFor
    <3>1. waited.most \in Nat /\ waited.most < BlockFor
      BY DEF RateInv, RefusalInv
    <3>. QED
      BY <2>1, <3>1
  <2>. QED
    BY <2>2, <2>3, <2>4 DEF RateInv, RateTypeOK
<1>. QED
  BY <1>1, RateInvariant, PTL

-----------------------------------------------------------------------------
(* Accounts, their codes and sessions *)

\* Calls that took a code and have yet to issue its token.
HoldsCode(c) == call[c].pc \in {"create", "wallet", "issue"}

\* Calls that name a code.
Verifies(c) == call[c].pc = "consume" \/ HoldsCode(c)

AccountShape ==
    /\ account \in [People -> Account \cup {Nil}]
    /\ codes \in Seq(OtpCode)
    /\ call \in [Calls -> Call]
    /\ sessions \subseteq Session
    /\ now \in 1..MaxTime
    /\ crashed \subseteq People

\* Codes were sent to approved addresses only.
CodesInv == \A i \in 1..Len(codes) : <<codes[i].person, codes[i].university>> \in Approved

\* A call under way is about a person, whose account is there once it needs to be.
CallersInv ==
    \A c \in Calls :
        /\ call[c].pc # "idle" => call[c].person \in People
        /\ call[c].pc \in {"wallet", "commit"} => Exists(call[c].person)
        /\ call[c].pc # "idle" /\ call[c].purpose = "LOGIN" => Exists(call[c].person)

\* A call that verifies a code names a row that was sent for what it does.
VerifiersInv ==
    \A c \in Calls : Verifies(c) =>
        /\ call[c].code \in 1..Len(codes)
        /\ codes[call[c].code].person = call[c].person
        /\ codes[call[c].code].university = call[c].university
        /\ codes[call[c].code].purpose \in {"REGISTRATION", "LOGIN"}

\* A code is in the hands of one call, and becomes a session once.
HoldersInv ==
    \A c \in Calls : HoldsCode(c) =>
        /\ codes[call[c].code].used
        /\ \A d \in Calls : HoldsCode(d) /\ call[d].code = call[c].code => d = c
        /\ \A s \in sessions : s.code # call[c].code

\* A session names the code it is from, and no other session does.
SessionsInv ==
    \A s \in sessions :
        /\ s.code \in 1..Len(codes)
        /\ codes[s.code].used
        /\ codes[s.code].person = s.person
        /\ codes[s.code].purpose # "PASSWORD_RESET"
        /\ \A r \in sessions : r.code = s.code => r = s

AccountInv ==
    /\ AccountShape
    /\ CodesInv
    /\ CallersInv
    /\ VerifiersInv
    /\ HoldersInv
    /\ SessionsInv
    /\ JoinedApproved
    /\ WalletMissingAfterCrashOnly

\* What the parts of the invariant speak of.
USE DEF HoldsCode, Verifies, Exists

\* Nothing has been requested yet.
LEMMA AccountInitInv == AccountInit => AccountInv
<1> SUFFICES ASSUME AccountInit PROVE AccountInv
  OBVIOUS
<1>1. AccountShape
  <2>1. codes \in Seq(OtpCode)
    BY DEF AccountInit
  <2>2. call \in [Calls -> Call]
    BY DEF AccountInit, IdleCall, Call, Purposes
  <2>. QED
    BY <2>1, <2>2, AccountsAssumption DEF AccountInit, AccountShape
<1>2. CodesInv /\ CallersInv /\ VerifiersInv /\ HoldersInv /\ SessionsInv
  BY DEF AccountInit, IdleCall, CodesInv, CallersInv, VerifiersInv, HoldersInv, SessionsInv
<1>3. JoinedApproved /\ WalletMissingAfterCrashOnly
  BY DEF AccountInit, JoinedApproved, WalletMissingAfterCrashOnly
<1>. QED
  BY <1>1, <1>2, <1>3 DEF AccountInv

-----------------------------------------------------------------------------
(* Requesting and verifying codes *)

\* A new code changes none of the others.
LEMMA RequestCodeInv ==
    ASSUME AccountInv, NEW p \in People, NEW u \in Campuses, NEW purpose \in Purposes,
           RequestCode(p, u, purpose)
    PROVE  AccountInv'
<1> DEFINE row == [person |-> p, university |-> u, purpose |-> purpose, used |-> FALSE]
<1>1. /\ codes' = Append(codes, row) /\ codes' \in Seq(OtpCode)
      /\ Len(codes) \in Nat /\ Len(codes') = Len(codes) + 1
      /\ codes'[Len(codes) + 1] = row
      /\ \A i \in 1..Len(codes) : codes'[i] = codes[i]
  BY DEF AccountInv, AccountShape, RequestCode, OtpCode
<1>2. UNCHANGED <<account, call, sessions, now, crashed>> /\ <<p, u>> \in Approved
  BY DEF RequestCode
<1>3. \A i \in 1..Len(codes') : i \in 1..Len(codes) \/ i = Len(codes) + 1
  BY <1>1
<1>4. 1..Len(codes) \subseteq 1..Len(codes')
  BY <1>1
<1>5. AccountShape'
  BY <1>1, <1>2 DEF AccountInv, AccountShape
<1>6. CodesInv'
  BY <1>1, <1>2, <1>3 DEF AccountInv, CodesInv
<1>7. CallersInv' /\ JoinedApproved' /\ WalletMissingAfterCrashOnly'
  BY <1>2 DEF AccountInv, CallersInv, JoinedApproved, WalletMissingAfterCrashOnly
<1>8. VerifiersInv'
  BY <1>1, <1>2, <1>4 DEF AccountInv, VerifiersInv
<1>9. HoldersInv'
  BY <1>1, <1>2 DEF AccountInv, VerifiersInv, HoldersInv
<1>10. SessionsInv'
  BY <1>1, <1>2, <1>4 DEF AccountInv, SessionsInv
<1>. QED
  BY <1>5, <1>6, <1>7, <1>8, <1>9, <1>10 DEF AccountInv

\* The call names the code that was found; it does not hold it yet.
LEMMA VerifyInv ==
    ASSUME AccountInv, NEW c \in Calls, NEW p \in People, NEW u \in Campuses, NEW purpose \in Purposes,
           VerifyCode(c, p, u, purpose)
    PROVE  AccountInv'
<1>1. PICK i \in Candidates(p, u, purpose) :
          call' = [call EXCEPT ![c] = [pc |-> "consume", person |-> p, university |-> u,
                                       purpose |-> purpose, code |-> i, at |-> 0]]
  BY DEF VerifyCode
<1>2. /\ i \in 1..Len(codes) /\ i \in Nat
      /\ codes[i].person = p /\ codes[i].university = u /\ codes[i].purpose = purpose
  BY <1>1 DEF Candidates, AccountInv, AccountShape
<1>3. /\ call[c].pc = "idle" /\ purpose \in {"REGISTRATION", "LOGIN"}
      /\ purpose = "LOGIN" => Exists(p)
      /\ UNCHANGED <<account, codes, sessions, now, crashed>>
  BY DEF VerifyCode, MaySignIn
<1>4. call' \in [Calls -> Call]
  BY <1>1, <1>2 DEF AccountInv, AccountShape, Call
<1>5. /\ call'[c].pc = "consume" /\ call'[c].person = p /\ call'[c].university = u
      /\ call'[c].purpose = purpose /\ call'[c].code = i
      /\ \A d \in Calls : d # c => call'[d] = call[d]
  BY <1>1 DEF AccountInv, AccountShape
<1>6. AccountShape' /\ CodesInv'
  BY <1>3, <1>4 DEF AccountInv, AccountShape, CodesInv
<1>7. CallersInv'
  BY <1>3, <1>5 DEF AccountInv, CallersInv
<1>8. VerifiersInv'
  BY <1>2, <1>3, <1>5 DEF AccountInv, VerifiersInv
<1>9. HoldersInv'
  BY <1>3, <1>5 DEF AccountInv, HoldersInv
<1>10. SessionsInv' /\ JoinedApproved'
  BY <1>3 DEF AccountInv, SessionsInv, JoinedApproved
<1>11. WalletMissingAfterCrashOnly'
  BY <1>3, <1>5 DEF AccountInv, WalletMissingAfterCrashOnly
<1>. QED
  BY <1>6, <1>7, <1>8, <1>9, <1>10, <1>11 DEF AccountInv

\* A step that ends a call which is not creating a wallet, and changes nothing else.
LEMMA EndInv ==
    ASSUME AccountInv, NEW c \in Calls, call' = [call EXCEPT ![c] = IdleCall],
           crashed' \in SUBSET People, crashed \subseteq crashed',
           call[c].pc = "wallet" => call[c].person \in crashed',
           UNCHANGED <<account, codes, sessions, now>>
    PROVE  AccountInv'
<1>1. call' \in [Calls -> Call] /\ call'[c].pc = "idle" /\ \A d \in Calls : d # c => call'[d] = call[d]
  BY DEF AccountInv, AccountShape, IdleCall, Call, Purposes
<1>2. AccountShape' /\ CodesInv' /\ SessionsInv' /\ JoinedApproved'
  BY <1>1 DEF AccountInv, AccountShape, CodesInv, SessionsInv, JoinedApproved
<1>3. CallersInv' /\ VerifiersInv' /\ HoldersInv'
  BY <1>1 DEF AccountInv, CallersInv, VerifiersInv, HoldersInv
<1>4. WalletMissingAfterCrashOnly'
  BY <1>1 DEF AccountInv, WalletMissingAfterCrashOnly
<1>. QED
  BY <1>2, <1>3, <1>4 DEF AccountInv

\* Whoever consumes an unused code is the only one to hold it.
LEMMA ConsumeCodeInv ==
    ASSUME AccountInv, NEW c \in Calls, ConsumeCode(c)
    PROVE  AccountInv'
<1> DEFINE i == call[c].code
<1>1. CASE codes[i].used
  BY <1>1, EndInv DEF ConsumeCode, StillUnused, AccountInv, AccountShape
<1>2. CASE ~codes[i].used
  <2>1. /\ call[c].pc = "consume"
        /\ codes' = [codes EXCEPT ![i].used = TRUE]
        /\ call' = [call EXCEPT ![c].pc = IF call[c].purpose = "LOGIN" THEN "issue" ELSE "create"]
        /\ UNCHANGED <<account, sessions, now, crashed>>
    BY <1>2 DEF ConsumeCode, StillUnused
  <2>2. i \in 1..Len(codes)
    BY <2>1 DEF AccountInv, VerifiersInv
  <2>3. /\ codes' \in Seq(OtpCode) /\ Len(codes') = Len(codes)
        /\ codes'[i].used
        /\ \A j \in 1..Len(codes) : /\ j # i => codes'[j] = codes[j]
                                    /\ codes'[j].person = codes[j].person
                                    /\ codes'[j].university = codes[j].university
                                    /\ codes'[j].purpose = codes[j].purpose
    <3> DEFINE row == [codes[i] EXCEPT !.used = TRUE]
    <3>1. codes \in Seq(OtpCode) /\ codes[i] \in OtpCode
      BY <2>2 DEF AccountInv, AccountShape
    <3>2. /\ row \in OtpCode /\ row.used /\ row.person = codes[i].person
          /\ row.university = codes[i].university /\ row.purpose = codes[i].purpose
      BY <3>1 DEF OtpCode
    <3>3. codes' = [codes EXCEPT ![i] = row]
      BY <2>1
    <3> HIDE DEF row, i
    <3>. QED
      BY <2>2, <3>1, <3>2, <3>3
  <2>4. /\ call' \in [Calls -> Call]
        /\ call'[c].pc \in {"issue", "create"}
        /\ call'[c].person = call[c].person /\ call'[c].university = call[c].university
        /\ call'[c].purpose = call[c].purpose /\ call'[c].code = i
        /\ \A d \in Calls : d # c => call'[d] = call[d]
    BY <2>1 DEF AccountInv, AccountShape, Call
  <2> HIDE DEF i
  <2>5. AccountShape'
    BY <2>1, <2>3, <2>4 DEF AccountInv, AccountShape
  <2>6. CodesInv'
    BY <2>3 DEF AccountInv, CodesInv
  <2>7. CallersInv'
    BY <2>1, <2>4 DEF AccountInv, CallersInv
  <2>8. VerifiersInv'
    BY <2>1, <2>2, <2>3, <2>4 DEF AccountInv, VerifiersInv, i
  <2>9. HoldersInv'
    <3>1. \A d \in Calls : HoldsCode(d) => call[d].code # i /\ call[d].code \in 1..Len(codes)
      BY <1>2 DEF AccountInv, HoldersInv, VerifiersInv
    <3>2. \A s \in sessions : s.code # i
      BY <1>2 DEF AccountInv, SessionsInv
    <3>. QED
      BY <2>1, <2>3, <2>4, <3>1, <3>2 DEF AccountInv, HoldersInv
  <2>10. SessionsInv'
    BY <2>1, <2>2, <2>3 DEF AccountInv, SessionsInv
  <2>11. JoinedApproved' /\ WalletMissingAfterCrashOnly'
    BY <2>1, <2>4 DEF AccountInv, JoinedApproved, WalletMissingAfterCrashOnly
  <2>. QED
    BY <2>5, <2>6, <2>7, <2>8, <2>9, <2>10, <2>11 DEF AccountInv
<1>. QED
  BY <1>1, <1>2

-----------------------------------------------------------------------------
(* The account, the wallet and the token *)

\* The row is of the address and university of the code; its wallet is the call's next write.
LEMMA CreateUserInv ==
    ASSUME AccountInv, NEW c \in Calls, CreateUser(c)
    PROVE  AccountInv'
<1> DEFINE p == call[c].person
<1>1. call[c].pc = "create" /\ p \in People
  BY DEF CreateUser, AccountInv, CallersInv
<1>2. CASE Exists(p)
  BY <1>1, <1>2, EndInv DEF CreateUser, AccountInv, AccountShape
<1>3. CASE ~Exists(p)
  <2>1. /\ account' = [account EXCEPT ![p] = [university |-> call[c].university, active |-> TRUE,
                                              changed |-> 0, wallet |-> FALSE]]
        /\ call' = [call EXCEPT ![c].pc = "wallet"]
        /\ UNCHANGED <<codes, sessions, now, crashed>>
    BY <1>3 DEF CreateUser, AfterUser
  <2>2. <<p, call[c].university>> \in Approved /\ call[c].university \in Campuses
    <3>1. <<p, call[c].university>> \in Approved
      BY <1>1 DEF AccountInv, VerifiersInv, CodesInv
    <3>. QED
      BY <3>1, AccountsAssumption
  <2>3. /\ account' \in [People -> Account \cup {Nil}]
        /\ account'[p].university = call[c].university /\ account'[p] # Nil
        /\ \A q \in People : q # p => account'[q] = account[q]
    <3>1. [university |-> call[c].university, active |-> TRUE, changed |-> 0, wallet |-> FALSE] \in Account
      BY <2>2 DEF Account
    <3>2. \A r \in Account : r # Nil
      BY NilIsNoAccount
    <3>. QED
      BY <1>1, <2>1, <3>1, <3>2 DEF AccountInv, AccountShape
  <2>4. /\ call' \in [Calls -> Call]
        /\ call'[c].pc = "wallet"
        /\ call'[c].person = p /\ call'[c].university = call[c].university
        /\ call'[c].purpose = call[c].purpose /\ call'[c].code = call[c].code
        /\ \A d \in Calls : d # c => call'[d] = call[d]
    BY <2>1 DEF AccountInv, AccountShape, Call
  <2> HIDE DEF p
  <2>5. AccountShape' /\ CodesInv' /\ SessionsInv'
    BY <2>1, <2>3, <2>4 DEF AccountInv, AccountShape, CodesInv, SessionsInv
  <2>6. CallersInv'
    BY <1>1, <2>3, <2>4 DEF AccountInv, CallersInv, p
  <2>7. VerifiersInv'
    BY <1>1, <2>1, <2>4 DEF AccountInv, VerifiersInv, p
  <2>8. HoldersInv'
    BY <1>1, <2>1, <2>4 DEF AccountInv, HoldersInv
  <2>9. JoinedApproved'
    BY <2>2, <2>3 DEF AccountInv, JoinedApproved
  <2>10. WalletMissingAfterCrashOnly'
    BY <1>1, <2>1, <2>3, <2>4 DEF AccountInv, WalletMissingAfterCrashOnly
  <2>. QED
    BY <2>5, <2>6, <2>7, <2>8, <2>9, <2>10 DEF AccountInv
<1>. QED
  BY <1>2, <1>3

\* The last of the writes; the row is there by now.
LEMMA CreateWalletInv ==
    ASSUME AccountInv, NEW c \in Calls, CreateWallet(c)
    PROVE  AccountInv'
<1> DEFINE p == call[c].person
<1>1. call[c].pc = "wallet" /\ p \in People /\ account[p] \in Account
  BY DEF CreateWallet, AccountInv, AccountShape, CallersInv
<1>2. UNCHANGED <<codes, sessions, now, crashed>>
  BY DEF CreateWallet
<1>3. /\ account' \in [People -> Account \cup {Nil}]
      /\ account'[p].university = account[p].university /\ account'[p] # Nil /\ account'[p].wallet
      /\ \A q \in People : q # p => account'[q] = account[q]
  <2>1. account' = [account EXCEPT ![p].wallet = TRUE]
    BY DEF CreateWallet
  <2>2. [account[p] EXCEPT !.wallet = TRUE] \in Account
    BY <1>1 DEF Account
  <2>3. account' = [account EXCEPT ![p] = [account[p] EXCEPT !.wallet = TRUE]]
    BY <1>1, <2>1 DEF AccountInv, AccountShape
  <2>4. /\ account' \in [People -> Account \cup {Nil}]
        /\ account'[p] = [account[p] EXCEPT !.wallet = TRUE]
        /\ \A q \in People : q # p => account'[q] = account[q]
    BY <1>1, <2>2, <2>3 DEF AccountInv, AccountShape
  <2>. QED
    BY <1>1, <2>2, <2>4, NilIsNoAccount DEF Account
<1>4. /\ call' \in [Calls -> Call]
      /\ call'[c].pc = "issue"
      /\ call'[c].person = p /\ call'[c].university = call[c].university
      /\ call'[c].purpose = call[c].purpose /\ call'[c].code = call[c].code
      /\ \A d \in Calls : d # c => call'[d] = call[d]
  BY DEF CreateWallet, AccountInv, AccountShape, Call
<1> HIDE DEF p
<1>5. AccountShape' /\ CodesInv' /\ SessionsInv'
  BY <1>2, <1>3, <1>4 DEF AccountInv, AccountShape, CodesInv, SessionsInv
<1>6. CallersInv'
  BY <1>1, <1>3, <1>4 DEF AccountInv, CallersInv
<1>7. VerifiersInv'
  BY <1>1, <1>2, <1>4 DEF AccountInv, VerifiersInv, p
<1>8. HoldersInv'
  BY <1>1, <1>2, <1>4 DEF AccountInv, HoldersInv
<1>9. JoinedApproved'
  BY <1>1, <1>3, NilIsNoAccount DEF AccountInv, JoinedApproved
<1>10. WalletMissingAfterCrashOnly'
  BY <1>1, <1>2, <1>3, <1>4 DEF AccountInv, WalletMissingAfterCrashOnly, p
<1>. QED
  BY <1>5, <1>6, <1>7, <1>8, <1>9, <1>10 DEF AccountInv

\* The only call with the code gives it up for the only session of it.
LEMMA IssueInv ==
    ASSUME AccountInv, NEW c \in Calls, IssueTokens(c)
    PROVE  AccountInv'
<1> DEFINE s == [person |-> call[c].person, university |-> call[c].university,
                 at |-> now, code |-> call[c].code]
<1>1. /\ call[c].pc = "issue" /\ sessions' = sessions \cup {s}
      /\ UNCHANGED <<account, codes, now, crashed>>
  BY DEF IssueTokens
<1>2. /\ call[c].code \in 1..Len(codes) /\ codes[call[c].code].used
      /\ codes[call[c].code] \in OtpCode
      /\ codes[call[c].code].person = call[c].person
      /\ codes[call[c].code].university = call[c].university
      /\ codes[call[c].code].purpose # "PASSWORD_RESET"
      /\ \A r \in sessions : r.code # call[c].code
  BY <1>1 DEF AccountInv, AccountShape, VerifiersInv, HoldersInv
<1>3. s \in Session
  BY <1>2, AccountsAssumption DEF Session, OtpCode, AccountInv, AccountShape
<1>4. /\ s.code = call[c].code /\ s.person = call[c].person
  OBVIOUS
<1>5. /\ call' \in [Calls -> Call] /\ call'[c].pc = "idle"
      /\ \A d \in Calls : d # c => call'[d] = call[d]
  BY DEF IssueTokens, AccountInv, AccountShape, IdleCall, Call, Purposes
<1> HIDE DEF s
<1>6. AccountShape' /\ CodesInv' /\ JoinedApproved'
  BY <1>1, <1>3, <1>5 DEF AccountInv, AccountShape, CodesInv, JoinedApproved
<1>7. CallersInv' /\ VerifiersInv'
  BY <1>1, <1>5 DEF AccountInv, CallersInv, VerifiersInv
<1>8. HoldersInv'
  BY <1>1, <1>4, <1>5 DEF AccountInv, HoldersInv
<1>9. SessionsInv'
  BY <1>1, <1>2, <1>4 DEF AccountInv, SessionsInv
<1>10. WalletMissingAfterCrashOnly'
  BY <1>1, <1>5 DEF AccountInv, WalletMissingAfterCrashOnly
<1>. QED
  BY <1>6, <1>7, <1>8, <1>9, <1>10 DEF AccountInv

-----------------------------------------------------------------------------
(* Passwords and administrators *)

\* A password change is under way for an account that is there.
LEMMA ChangeInv ==
    ASSUME AccountInv, NEW c \in Calls, NEW p \in People, ChangePassword(c, p)
    PROVE  AccountInv'
<1>1. /\ call[c].pc = "idle" /\ Exists(p)
      /\ UNCHANGED <<account, codes, sessions, now, crashed>>
  BY DEF ChangePassword
<1>2. /\ call' \in [Calls -> Call] /\ call'[c].pc = "commit" /\ call'[c].person = p
      /\ \A d \in Calls : d # c => call'[d] = call[d]
  <2> DEFINE row == [pc |-> "commit", person |-> p, university |-> Nil,
                     purpose |-> "PASSWORD_RESET", code |-> 0, at |-> now]
  <2>1. now \in Nat
    <3>1. now \in 1..MaxTime /\ MaxTime \in Nat
      BY AccountsAssumption DEF AccountInv, AccountShape
    <3>. QED
      BY <3>1
  <2>2. row \in Call /\ row.pc = "commit" /\ row.person = p
    BY <2>1 DEF Call, Purposes
  <2>3. call' = [call EXCEPT ![c] = row]
    BY DEF ChangePassword
  <2> HIDE DEF row
  <2>. QED
    BY <2>2, <2>3 DEF AccountInv, AccountShape
<1>3. AccountShape' /\ CodesInv' /\ SessionsInv' /\ JoinedApproved'
  BY <1>1, <1>2 DEF AccountInv, AccountShape, CodesInv, SessionsInv, JoinedApproved
<1>4. CallersInv' /\ VerifiersInv' /\ HoldersInv'
  BY <1>1, <1>2 DEF AccountInv, CallersInv, VerifiersInv, HoldersInv
<1>5. WalletMissingAfterCrashOnly'
  BY <1>1, <1>2 DEF AccountInv, WalletMissingAfterCrashOnly
<1>. QED
  BY <1>3, <1>4, <1>5 DEF AccountInv

\* A write to an account that is there leaves it there, in its university and with
\* its wallet.
LEMMA WriteInv ==
    ASSUME AccountInv, NEW p \in People, Exists(p), NEW row \in Account,
           account' = [account EXCEPT ![p] = row],
           row.university = account[p].university, row.wallet = account[p].wallet,
           UNCHANGED <<codes, sessions, now, crashed>>,
           \/ UNCHANGED call
           \/ \E c \in Calls : call[c].pc = "commit" /\ call' = [call EXCEPT ![c] = IdleCall]
    PROVE  AccountInv'
<1>1. /\ account' \in [People -> Account \cup {Nil}]
      /\ account'[p] = row /\ row # Nil
      /\ \A q \in People : q # p => account'[q] = account[q]
  BY NilIsNoAccount DEF AccountInv, AccountShape
<1>2. /\ call' \in [Calls -> Call]
      /\ \A d \in Calls : \/ call'[d] = call[d]
                          \/ call[d].pc = "commit" /\ call'[d].pc = "idle"
  <2>1. call \in [Calls -> Call] /\ IdleCall \in Call /\ IdleCall.pc = "idle"
    BY DEF AccountInv, AccountShape, IdleCall, Call, Purposes
  <2>2. CASE UNCHANGED call
    BY <2>1, <2>2
  <2>3. ASSUME NEW c \in Calls, call[c].pc = "commit", call' = [call EXCEPT ![c] = IdleCall]
        PROVE  <1>2
    BY <2>1, <2>3
  <2>. QED
    BY <2>2, <2>3
<1>3. AccountShape' /\ CodesInv' /\ SessionsInv'
  BY <1>1, <1>2 DEF AccountInv, AccountShape, CodesInv, SessionsInv
<1>4. CallersInv'
  BY <1>1, <1>2 DEF AccountInv, CallersInv
<1>5. VerifiersInv' /\ HoldersInv'
  BY <1>2 DEF AccountInv, VerifiersInv, HoldersInv
<1>6. JoinedApproved'
  BY <1>1 DEF AccountInv, JoinedApproved
<1>7. WalletMissingAfterCrashOnly'
  BY <1>1, <1>2 DEF AccountInv, WalletMissingAfterCrashOnly
<1>. QED
  BY <1>3, <1>4, <1>5, <1>6, <1>7 DEF AccountInv

\* The change that commits is of an account that is there.
LEMMA CommitInv ==
    ASSUME AccountInv, NEW c \in Calls, CommitPassword(c)
    PROVE  AccountInv'
<1> DEFINE p == call[c].person
           row == [account[p] EXCEPT !.changed = call[c].at]
<1>1. p \in People /\ Exists(p) /\ account[p] \in Account /\ call[c].at \in Nat
  BY DEF CommitPassword, AccountInv, AccountShape, CallersInv, Call
<1>2. row \in Account /\ row.university = account[p].university /\ row.wallet = account[p].wallet
  BY <1>1 DEF Account
<1>3. account' = [account EXCEPT ![p] = row]
  BY <1>1 DEF CommitPassword, AccountInv, AccountShape
<1>4. /\ call[c].pc = "commit" /\ call' = [call EXCEPT ![c] = IdleCall]
      /\ UNCHANGED <<codes, sessions, now, crashed>>
  BY DEF CommitPassword
<1> HIDE DEF p, row
<1>. QED
  BY <1>1, <1>2, <1>3, <1>4, WriteInv

\* Suspending and restoring an account keeps the rest of its row.
LEMMA SetActiveInv ==
    ASSUME AccountInv, NEW p \in People, NEW active \in BOOLEAN, SetActive(p, active)
    PROVE  AccountInv'
<1> DEFINE row == [account[p] EXCEPT !.active = active]
<1>1. Exists(p) /\ account[p] \in Account
  BY DEF SetActive, AccountInv, AccountShape
<1>2. row \in Account /\ row.university = account[p].university /\ row.wallet = account[p].wallet
  BY <1>1 DEF Account
<1>3. account' = [account EXCEPT ![p] = row]
  BY <1>1 DEF SetActive, AccountInv, AccountShape
<1>4. UNCHANGED call /\ UNCHANGED <<codes, sessions, now, crashed>>
  BY DEF SetActive
<1> HIDE DEF row
<1>. QED
  BY <1>1, <1>2, <1>3, <1>4, WriteInv

\* A registration that dies before its wallet is remembered.
LEMMA CrashInv ==
    ASSUME AccountInv, NEW c \in Calls, Crash(c)
    PROVE  AccountInv'
<1>1. call[c].person \in People
  BY DEF Crash, AccountInv, CallersInv
<1>2. /\ crashed' \in SUBSET People /\ crashed \subseteq crashed'
      /\ call[c].pc = "wallet" => call[c].person \in crashed'
  BY <1>1 DEF Crash, AccountInv, AccountShape
<1>. QED
  BY <1>2, EndInv DEF Crash

\* Time disturbs nothing.
LEMMA PassTimeInv ==
    ASSUME AccountInv, PassTime
    PROVE  AccountInv'
<1>1. now' \in 1..MaxTime /\ UNCHANGED <<account, codes, call, sessions, crashed>>
  BY AccountsAssumption DEF PassTime, AccountInv, AccountShape
<1>2. AccountShape' /\ CodesInv' /\ SessionsInv' /\ JoinedApproved'
  BY <1>1 DEF AccountInv, AccountShape, CodesInv, SessionsInv, JoinedApproved
<1>3. CallersInv' /\ VerifiersInv' /\ HoldersInv' /\ WalletMissingAfterCrashOnly'
  BY <1>1 DEF AccountInv, CallersInv, VerifiersInv, HoldersInv, WalletMissingAfterCrashOnly
<1>. QED
  BY <1>2, <1>3 DEF AccountInv

-----------------------------------------------------------------------------

\* The invariant holds in every state.
THEOREM AccountInvariant == AccountSpec => []AccountInv
<1>1. ASSUME AccountInv, [AccountNext]_accountVars PROVE AccountInv'
  <2>1. ASSUME NEW p \in People, NEW u \in Campuses, NEW purpose \in Purposes,
               RequestCode(p, u, purpose) \/ \E c \in Calls : VerifyCode(c, p, u, purpose)
        PROVE  AccountInv'
    BY <1>1, <2>1, RequestCodeInv, VerifyInv
  <2>2. ASSUME NEW c \in Calls,
               \/ ConsumeCode(c) \/ CreateUser(c) \/ CreateWallet(c) \/ IssueTokens(c)
               \/ CommitPassword(c) \/ Crash(c) \/ \E p \in People : ChangePassword(c, p)
        PROVE  AccountInv'
    BY <1>1, <2>2, ConsumeCodeInv, CreateUserInv, CreateWalletInv, IssueInv, CommitInv, CrashInv, ChangeInv
  <2>3. CASE UNCHANGED accountVars
    <3>1. UNCHANGED <<account, codes, call, sessions, now, crashed>>
      BY <2>3 DEF accountVars
    <3>2. AccountShape' /\ CodesInv' /\ SessionsInv' /\ JoinedApproved'
      BY <1>1, <3>1 DEF AccountInv, AccountShape, CodesInv, SessionsInv, JoinedApproved
    <3>3. CallersInv' /\ VerifiersInv' /\ HoldersInv' /\ WalletMissingAfterCrashOnly'
      BY <1>1, <3>1 DEF AccountInv, CallersInv, VerifiersInv, HoldersInv, WalletMissingAfterCrashOnly
    <3>. QED
      BY <3>2, <3>3 DEF AccountInv
  <2>. QED
    BY <1>1, <2>1, <2>2, <2>3, SetActiveInv, PassTimeInv DEF AccountNext
<1>. QED
  BY AccountInitInv, <1>1, PTL DEF AccountSpec

\* A token is dated by the start of its second, so one that is dated after a
\* password change was issued after it.
LEMMA SecondsRoundDown ==
    ASSUME NEW at \in Nat, NEW changed \in Nat, AfterChange(at \div TicksASecond, changed)
    PROVE  at > changed
<1>1. (at \div TicksASecond) * TicksASecond <= at
  BY AccountsAssumption
<1>2. (at \div TicksASecond) * TicksASecond \in Nat
  BY AccountsAssumption
<1>. QED
  BY <1>1, <1>2 DEF AfterChange

\* Every account is in a university that lists its domain, has its wallet unless a
\* crash cut its registration short, and has one session for each code, none older
\* than its password.
THEOREM AccountsStayWhole == AccountSpec => []AccountsAreWhole
<1>1. AccountInv => SessionIsYoungerThanPassword
  <2>1. SUFFICES ASSUME AccountInv, NEW s \in sessions, Accepted(s), account[s.person].changed # 0
                 PROVE  s.at > account[s.person].changed
    BY DEF SessionIsYoungerThanPassword
  <2>2. s.at \in Nat /\ account[s.person].changed \in Nat
    <3>1. s \in Session /\ s.person \in People /\ account[s.person] \in Account
      BY <2>1 DEF AccountInv, AccountShape, Session, Accepted
    <3>. QED
      BY <3>1 DEF Session, Account
  <2>3. AfterChange(s.at \div TicksASecond, account[s.person].changed)
    BY <2>1 DEF Accepted, Iat
  <2>. QED
    BY <2>2, <2>3, SecondsRoundDown
<1>2. AccountInv => SessionHasItsOwnCode
  BY DEF AccountInv, SessionsInv, SessionHasItsOwnCode
<1>3. AccountInv => AccountsAreWhole
  BY <1>1, <1>2 DEF AccountInv, AccountsAreWhole
<1>. QED
  BY <1>3, AccountInvariant, PTL

\* Rows, calls and tokens keep their shape.
THEOREM AccountsTypeOK == AccountSpec => []AccountTypeOK
<1>1. AccountInv => AccountTypeOK
  BY DEF AccountInv, AccountShape, CallersInv, AccountTypeOK
<1>. QED
  BY <1>1, AccountInvariant, PTL

-----------------------------------------------------------------------------
(* The suite, MCSignIn *)

\* However the suite interleaves its components, each does only what it does alone: what is proved of
\* a component holds in the suite.
THEOREM SuiteIsOfItsComponents == SuiteSpec => Spec /\ AccountSpec /\ FlowSpec /\ SessionSpec /\ RateSpec
<1>1. SuiteInit => Init /\ AccountInit /\ FlowInit /\ SessionInit /\ RateInit
  BY DEF SuiteInit
<1>2. ASSUME [SuiteNext]_SuiteVars
      PROVE  /\ [Next]_vars
             /\ [AccountNext]_accountVars
             /\ [FlowNext]_flowVars
             /\ [SessionNext]_sessionVars
             /\ [RateNext]_rateVars
  <2>1. CASE SuiteNext
    BY <2>1 DEF SuiteNext
  <2>2. CASE UNCHANGED SuiteVars
    BY <2>2 DEF SuiteVars
  <2>. QED
    BY <1>2, <2>1, <2>2
<1>. QED
  BY <1>1, <1>2, PTL DEF SuiteSpec, Spec, AccountSpec, FlowSpec, SessionSpec, RateSpec

\* Every component of the suite keeps its shape.
THEOREM SuiteTypes == SuiteSpec => []SuiteTypeOK
  BY SuiteIsOfItsComponents, ResetTypeOK, AccountsTypeOK, FlowTypes, SessionTypes, RateTypes, PTL DEF SuiteTypeOK

=============================================================================
