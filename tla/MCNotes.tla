------------------------------ MODULE MCNotes ------------------------------
(* Bounds for TLC: the notes that are captured and the calls made on them. *)
EXTENDS Notes, TLC

Symmetry ==
    Permutations(Ids) \cup Permutations(Projects) \cup Permutations(Reviews)
        \cup Permutations(Rebuilds)
=============================================================================
