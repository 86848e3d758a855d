----------------------------- MODULE MCClaims -----------------------------
(* Model values for TLC. *)
EXTENDS Claims, TLC

CONSTANTS c1, c2, c3, f1, f2, l1

\* Two students claim one item; one of them claims another item as well.
ItemsClaimed == c1 :> f1 @@ c2 :> f1 @@ c3 :> f2
ItemsLost == c1 :> l1 @@ c2 :> None @@ c3 :> l1

Symmetry == Permutations(Decisions)

=============================================================================
