------------------------------- MODULE Sums -------------------------------
EXTENDS Integers, Sequences

(* The sums of the first 0, 1, ..., Len(w) elements of w. *)
PrefixSums(w) ==
    LET sums[i \in 0..Len(w)] == IF i = 0 THEN 0 ELSE sums[i-1] + w[i]
    IN  sums
=============================================================================
