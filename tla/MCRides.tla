------------------------------ MODULE MCRides ------------------------------
(* Model values and symmetry for TLC. *)
EXTENDS Rides, TLC

Symmetry == Permutations(Students) \cup Permutations(Codes) \cup Permutations(Requests)

=============================================================================
