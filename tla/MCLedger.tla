------------------------------ MODULE MCLedger ------------------------------
(* Bounds for TLC: which calls are made on one ledger, and how many tear.  *)
EXTENDS Ledger, TLC

Symmetry == Permutations(Writers) \cup Permutations(Pruners) \cup Permutations(Keys)
=============================================================================
