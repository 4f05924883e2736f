------------------------------- MODULE MCFacts -------------------------------
(* Three processes, two keys, one value that looks like a secret.            *)
EXTENDS Facts, TLC

CONSTANTS p1, p2, p3, k1, k2, i1, i2, i3

Symmetry == Permutations({p1, p2, p3}) \cup Permutations({i1, i2, i3})
=============================================================================
