----------------------------- MODULE MCExchange -----------------------------
(***************************************************************************)
(* Claims, the chats about them and clothes rental, for TLC.  They share   *)
(* no state, so a behaviour is of one of them: the one in focus moves and  *)
(* the others stay where they start.  Decisions, messages and two of the   *)
(* bookings are the values r1 and r2, two of the chatters and a renter's   *)
(* tabs are z1 and z2, so that one symmetry serves all.                    *)
(***************************************************************************)
EXTENDS MCClaims, ClaimChat, Rentals

CONSTANTS r1, r2, w1, z1, z2, z3, t1, t4, owner, renter, other

VARIABLE focus

\* One chat of two students; the third is an authority of another university.
ChatOfTwo == w1 :> {z1, z2}
Campuses == z1 :> "a" @@ z2 :> "a" @@ z3 :> "b"

\* An owner, a renter with two tabs and another renter.
TabOwners == t1 :> owner @@ z1 :> renter @@ z2 :> renter @@ t4 :> other

SuiteInit ==
    /\ focus \in {"claims", "chat", "rentals"}
    /\ Init /\ ChatInit /\ RentalInit

SuiteNext ==
    /\ UNCHANGED focus
    /\ \/ focus = "claims" /\ Next /\ UNCHANGED <<chatVars, rentalVars>>
       \/ focus = "chat" /\ ChatNext /\ UNCHANGED <<vars, rentalVars>>
       \/ focus = "rentals" /\ RentalNext /\ UNCHANGED <<vars, chatVars>>

SuiteVars == <<focus, vars, chatVars, rentalVars>>

SuiteSpec == SuiteInit /\ [][SuiteNext]_SuiteVars

SuiteSymmetry == Permutations({r1, r2}) \cup Permutations({z1, z2})

\* Every component keeps its rows, requests and pages in shape, in whatever order
\* the steps of concurrent requests come.
SuiteTypeOK == TypeOK /\ ChatTypeOK /\ RentalTypeOK
=============================================================================
