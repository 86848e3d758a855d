------------------------------ MODULE MCWallet ------------------------------
(* Model values and symmetry for TLC. *)
EXTENDS Wallet, TLC

Symmetry ==
    Permutations(Hooks) \cup Permutations(Debits) \cup Permutations(DebitKeys) \cup Permutations(Orders)
        \cup Permutations(Events) \cup Permutations(Users) \cup Permutations(Topups)
=============================================================================
