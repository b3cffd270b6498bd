--------------------------- MODULE MCFileSystem ---------------------------
EXTENDS FileSystem, TLC

CONSTANTS c1, c2, c3, fa, fb, fc, fd

\* fc and fd fall into the same slot of the hash table.
MCKeyOf == [n \in Names |-> CASE n = fa -> 1 [] n = fb -> 2 [] OTHER -> 3]
MCNameLen == [n \in Names |-> IF n = fd THEN 2 ELSE 1]

Symmetry == Permutations(Clients)
=============================================================================
