---------------------------- MODULE SerialEngine ----------------------------
(***************************************************************************)
(* What one warm engine promises to the calls that share it, whatever the  *)
(* pipes, ids and locks underneath: at most one call is in the engine at a *)
(* time, a call that ends has either its own answer or a refusal, an       *)
(* engine is never shut while a call is inside it, and an engine that is   *)
(* dead or shut takes no further call.                                     *)
(*                                                                         *)
(* cbmexec.Child is shown to implement this specification (Child.tla), and *)
(* so is each engine a resident server drives (Resident.tla).              *)
(***************************************************************************)
CONSTANT Callers        \* the calls that may be in progress at the same time

VARIABLES
    call,               \* [Callers -> CallStates]: how far each call has come
    shut,               \* the engine has been closed by its owner
    dead                \* the engine's death has been noticed by a call

vars == <<call, shut, dead>>

CallStates == {"idle", "queued", "running", "answered", "refused"}

TypeOK ==
    /\ call \in [Callers -> CallStates]
    /\ shut \in BOOLEAN
    /\ dead \in BOOLEAN

Init ==
    /\ call = [c \in Callers |-> "idle"]
    /\ shut = FALSE
    /\ dead = FALSE

Free == \A c \in Callers : call[c] # "running"

Enter(c) ==
    /\ call[c] \in {"idle", "answered", "refused"}
    /\ call' = [call EXCEPT ![c] = "queued"]
    /\ UNCHANGED <<shut, dead>>

Begin(c) ==
    /\ call[c] = "queued"
    /\ Free /\ ~shut /\ ~dead
    /\ call' = [call EXCEPT ![c] = "running"]
    /\ UNCHANGED <<shut, dead>>

\* A call that reaches a dead or a shut engine is refused without entering it.
Refuse(c) ==
    /\ call[c] = "queued"
    /\ Free /\ (shut \/ dead)
    /\ call' = [call EXCEPT ![c] = "refused"]
    /\ UNCHANGED <<shut, dead>>

\* The engine says no to one call: an answer of another kind, it stays usable.
Decline(c) ==
    /\ call[c] = "running"
    /\ call' = [call EXCEPT ![c] = "refused"]
    /\ UNCHANGED <<shut, dead>>

Answer(c) ==
    /\ call[c] = "running"
    /\ call' = [call EXCEPT ![c] = "answered"]
    /\ UNCHANGED <<shut, dead>>

\* The call that finds the engine gone latches its death for all later ones.
Break(c) ==
    /\ \/ call[c] = "running"
       \/ call[c] = "queued" /\ Free /\ ~shut
    /\ call' = [call EXCEPT ![c] = "refused"]
    /\ dead' = TRUE
    /\ UNCHANGED shut

\* The caller has read the outcome.
Forget(c) ==
    /\ call[c] \in {"answered", "refused"}
    /\ call' = [call EXCEPT ![c] = "idle"]
    /\ UNCHANGED <<shut, dead>>

Close ==
    /\ Free
    /\ shut' = TRUE
    /\ UNCHANGED <<call, dead>>

Next ==
    \/ \E c \in Callers :
          \/ Enter(c) \/ Begin(c) \/ Refuse(c) \/ Decline(c)
          \/ Answer(c) \/ Break(c) \/ Forget(c)
    \/ Close

Spec == Init /\ [][Next]_vars

-----------------------------------------------------------------------------
(* No two calls are in the engine at once, and none is in an engine that   *)
(* has been shut: the reading of "one at a time" that child.go and         *)
(* server.go rely on.                                                      *)
Serial ==
    /\ \A c, d \in Callers : call[c] = "running" /\ call[d] = "running" => c = d
    /\ shut => Free
=============================================================================
