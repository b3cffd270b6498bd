---------------------------- MODULE MCLockOrder -----------------------------
(* Instance of LockOrder: workers are interchangeable. *)
EXTENDS LockOrder, TLC

Symmetry == Permutations(Workers)
=============================================================================
