-------------------------- MODULE MCAlertPurchase --------------------------
(* Model values, the requests clients make and symmetry for TLC. *)
EXTENDS AlertPurchase, TLC

CONSTANTS u1, i1, i2

\* One student who lost everything: each item has the same owner.
OneOwner == [i \in Items |-> u1]

\* Any key may be used for any item.
AnyKeyAnyItem == {u1} \X Items \X DebitKeys

Symmetry ==
    Permutations(Hooks) \cup Permutations(Debits) \cup Permutations(DebitKeys)
        \cup Permutations(Items) \cup Permutations(Events)
=============================================================================
