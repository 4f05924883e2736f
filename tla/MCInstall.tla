----------------------------- MODULE MCInstall -----------------------------
(* Bounds for TLC are in the configurations.                               *)
EXTENDS Install, TLC

Symmetry == Permutations(Commands) \cup Permutations(Pins)
=============================================================================
