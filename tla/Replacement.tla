----------------------------- MODULE Replacement -----------------------------
(***************************************************************************)
(* What installing promises of the engine's binary to those who run one    *)
(* install at a time: the binary is replaced by the one that was asked     *)
(* for, or the install fails and the binary stays. Only an install that is *)
(* harmed, killed or refused a rename when the old binary is out of the    *)
(* way, may leave neither.                                                 *)
(***************************************************************************)
CONSTANTS Pins, None

VARIABLES
    image,      \* the binary that is run
    wanted,     \* the pin of the install in progress
    report,     \* what the last install has said
    harmed      \* whether the last install to begin has been cut short

vars == <<image, wanted, report, harmed>>

Init ==
    /\ image \in Pins \cup {None}
    /\ wanted = None
    /\ report = None
    /\ harmed = FALSE

Start(v) ==
    /\ wanted = None
    /\ wanted' = v
    /\ harmed' = FALSE
    /\ UNCHANGED <<image, report>>

Harm ==
    /\ wanted # None
    /\ harmed' = TRUE
    /\ UNCHANGED <<image, wanted, report>>

Installed ==
    /\ wanted # None
    /\ image' = wanted
    /\ report' = "installed"
    /\ wanted' = None
    /\ UNCHANGED harmed

\* Where there was no binary, one that could not be confirmed may stay.
Failed ==
    /\ wanted # None
    /\ \/ image' = image
       \/ image = None /\ image' = wanted
       \/ harmed /\ image' \in {wanted, None}
    /\ report' = "failed"
    /\ wanted' = None
    /\ UNCHANGED harmed

Killed ==
    /\ wanted # None
    /\ image' \in {image, wanted, None}
    /\ wanted' = None
    /\ harmed' = TRUE
    /\ UNCHANGED report

Next == Harm \/ Installed \/ Failed \/ Killed \/ \E v \in Pins : Start(v)

Spec == Init /\ [][Next]_vars
=============================================================================
