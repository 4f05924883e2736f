----------------------------- MODULE MCRegistry -----------------------------
(* A git repository and a plain directory, a process that runs commands and  *)
(* a session.                                                                *)
EXTENDS Registry

CONSTANTS a, b, c1, s1

MCPlace == [n \in {a, b} |-> IF n = a THEN 1 ELSE 2]
MCGit == {a}
MCHits == [n \in {a, b} |-> IF n = a THEN 2 ELSE 1]
=============================================================================
