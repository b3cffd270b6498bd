------------------------------ MODULE MCServer ------------------------------
EXTENDS Server, TLC

CONSTANTS c1, c2, c3, fa, fb

MCKeyOf == [n \in Names |-> IF n = fa THEN 1 ELSE 2]
MCNameLen == [n \in Names |-> 1]

Symmetry == Permutations(Clients)
=============================================================================
