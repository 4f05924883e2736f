------------------------------ MODULE MCChild ------------------------------
(* Child for TLC; the bounds are in the configurations. Liveness is checked *)
(* along with safety, so callers and closers are not symmetric.             *)
EXTENDS Child
=============================================================================
