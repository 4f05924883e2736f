------------------------------ MODULE LedgerLog ------------------------------
(***************************************************************************)
(* What a project's ledger promises to those who use it one at a time: an  *)
(* append-only log numbered 1, 2, 3, ..., of which `history` shows all and *)
(* `get` the latest value of each key, until a human prunes it.            *)
(***************************************************************************)
EXTENDS Naturals, Sequences

CONSTANTS Writers, Keys, None

VARIABLES
    log,        \* what history returns
    latest      \* what get returns: for each key the append that wrote it last

vars == <<log, latest>>

Init ==
    /\ log = <<>>
    /\ latest = [k \in Keys |-> None]

AppendEntry(w, k) ==
    /\ log' = Append(log, [seq |-> Len(log) + 1, key |-> k, by |-> w])
    /\ latest' = [latest EXCEPT ![k] = w]

Prune ==
    /\ log' = <<>>
    /\ latest' = [k \in Keys |-> None]

Next == Prune \/ \E w \in Writers, k \in Keys : AppendEntry(w, k)

Spec == Init /\ [][Next]_vars
=============================================================================
