--------------------------- MODULE RunningTotals ---------------------------
(* The running total of a sequence of integers: what reduce computes row by row. *)
EXTENDS Integers, Sequences

RunningTotal(v) ==
    LET total[n \in 0..Len(v)] == IF n = 0 THEN 0 ELSE total[n - 1] + v[n]
    IN  total

Total(v) == RunningTotal(v)[Len(v)]

=============================================================================
