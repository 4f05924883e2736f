------------------------------- MODULE Ledger -------------------------------
(***************************************************************************)
(* The ledger of one project: a JSONL file that processes append to and    *)
(* read without locks (internal/memory/ledger.go, appendLine in notes.go). *)
(*                                                                         *)
(* An append reads the whole file for the last seq, opens the file with    *)
(* O_APPEND and writes one line. The write is one step: it lands whole at  *)
(* the end of the file as it is then, or, when the machine or the disk     *)
(* gives out, only a prefix of it does. The line after a prefix starts     *)
(* where the prefix stopped.                                               *)
(***************************************************************************)
EXTENDS Naturals, Sequences, FiniteSets

CONSTANTS
    Writers,        \* calls of Append, each made once (by a CLI or an MCP process)
    Pruners,        \* calls of Prune, each made once (by a human)
    Keys,           \* the fixed five, or as many as matter
    None,           \* no value under a key
    Garbage,        \* a line that is no JSON object
    Overlap,        \* calls that may be in progress at the same time
    MaxTears        \* bound: writes that stop half way

Entry == [seq : Nat, key : Keys, by : Writers]

ASSUME LedgerAssumption ==
    /\ Garbage \notin Entry /\ None \notin Writers
    /\ IsFiniteSet(Writers)
    /\ Overlap \in Nat \ {0} /\ MaxTears \in Nat

VARIABLES
    lines,          \* the file, split at its newlines
    open,           \* its last line has no newline
    pc,             \* [Writers -> ...] the frame of Append
    entry,          \* [Writers -> ...] the entry it is about to write
    fd,             \* [Writers -> ...] the file it has opened
    pruned,         \* the calls of Prune that have been made
    acked,          \* the appends to this file that have returned without error
    tears,          \* writes that have stopped half way
    overlapped      \* whether two calls have ever been in progress at once

vars == <<lines, open, pc, entry, fd, pruned, acked, tears, overlapped>>

TypeOK ==
    /\ lines \in Seq(Entry \cup {Garbage})
    /\ open \in BOOLEAN
    /\ pc \in [Writers -> {"idle", "open", "write", "done", "failed"}]
    /\ entry \in [Writers -> Entry \cup {None}]
    /\ fd \in [Writers -> {"none", "linked", "unlinked"}]
    /\ pruned \subseteq Pruners
    /\ acked \subseteq Writers
    /\ tears \in 0..MaxTears
    /\ overlapped \in BOOLEAN

Init ==
    /\ lines = <<>>
    /\ open = FALSE
    /\ pc = [w \in Writers |-> "idle"]
    /\ entry = [w \in Writers |-> None]
    /\ fd = [w \in Writers |-> "none"]
    /\ pruned = {}
    /\ acked = {}
    /\ tears = 0
    /\ overlapped = FALSE

InProgress == {w \in Writers : pc[w] \in {"open", "write"}}

\* A call begins, beside those that are in progress.
Begin ==
    /\ Cardinality(InProgress) < Overlap
    /\ overlapped' = (overlapped \/ InProgress # {})

-----------------------------------------------------------------------------
(* readAll: a last line that does not parse is dropped, one before it is   *)
(* an error.                                                               *)
Last(s) == s[Len(s)]
Readable == \A i \in 1..(Len(lines) - 1) : lines[i] # Garbage

readAll ==
    IF lines # <<>> /\ Last(lines) = Garbage
    THEN SubSeq(lines, 1, Len(lines) - 1)
    ELSE lines

\* Mutant of lastSeq: the first entry is taken for the last.
FirstSeq == IF readAll = <<>> THEN 0 ELSE readAll[1].seq

lastSeq == IF readAll = <<>> THEN 0 ELSE Last(readAll).seq

\* Get: the fold in which a later entry of a key replaces an earlier one.
IsLast(s, i, k) ==
    /\ i \in DOMAIN s /\ s[i].key = k
    /\ \A j \in DOMAIN s : j > i => s[j].key # k

Get ==
    [k \in Keys |->
        IF \E i \in DOMAIN readAll : IsLast(readAll, i, k)
        THEN readAll[CHOOSE i \in DOMAIN readAll : IsLast(readAll, i, k)].by
        ELSE None]

-----------------------------------------------------------------------------
(* Append.                                                                 *)

\* The last seq is read; a ledger that cannot be read takes no entry.
ReadSeq(w, k) ==
    /\ pc[w] = "idle" /\ Begin
    /\ \/ /\ Readable
          /\ entry' = [entry EXCEPT ![w] = [seq |-> lastSeq + 1, key |-> k, by |-> w]]
          /\ pc' = [pc EXCEPT ![w] = "open"]
       \/ /\ ~Readable
          /\ pc' = [pc EXCEPT ![w] = "failed"]
          /\ UNCHANGED entry
    /\ UNCHANGED <<lines, open, fd, pruned, acked, tears>>

\* O_CREATE: the file that Prune has removed is made anew.
Open(w) ==
    /\ pc[w] = "open"
    /\ pc' = [pc EXCEPT ![w] = "write"]
    /\ fd' = [fd EXCEPT ![w] = "linked"]
    /\ UNCHANGED <<lines, open, entry, pruned, acked, tears, overlapped>>

\* The file after w's line has been put where the file ends.
WithLine(x) ==
    IF open THEN [lines EXCEPT ![Len(lines)] = Garbage] ELSE Append(lines, x)

\* Mutant of Write: without O_APPEND, the line goes where the file ended when it was read.
WriteAtSeq(w) ==
    /\ pc[w] = "write"
    /\ pc' = [pc EXCEPT ![w] = "done"]
    /\ lines' = [i \in 1..(IF entry[w].seq > Len(lines) THEN Len(lines) + 1 ELSE Len(lines)) |->
                    IF i = entry[w].seq \/ i > Len(lines) THEN entry[w] ELSE lines[i]]
    /\ acked' = acked \cup {w}
    /\ open' = FALSE
    /\ UNCHANGED <<entry, fd, pruned, tears, overlapped>>

\* Mutant of Write: the newline is left out.
WriteNoNewline(w) ==
    /\ pc[w] = "write"
    /\ pc' = [pc EXCEPT ![w] = "done"]
    /\ lines' = WithLine(entry[w])
    /\ open' = TRUE
    /\ acked' = acked \cup {w}
    /\ UNCHANGED <<entry, fd, pruned, tears, overlapped>>

\* The whole line reaches the file, or the file that has been removed meanwhile.
Write(w) ==
    /\ pc[w] = "write"
    /\ pc' = [pc EXCEPT ![w] = "done"]
    /\ \/ /\ fd[w] = "linked"
          /\ lines' = WithLine(entry[w])
          /\ open' = FALSE
          /\ acked' = acked \cup {w}
       \/ fd[w] = "unlinked" /\ UNCHANGED <<lines, open, acked>>
    /\ UNCHANGED <<entry, fd, pruned, tears, overlapped>>

\* A prefix reaches the file: some of the line, or all of it but its newline.
Tear(w) ==
    /\ pc[w] = "write" /\ fd[w] = "linked" /\ tears < MaxTears
    /\ pc' = [pc EXCEPT ![w] = "failed"]
    /\ \E x \in {Garbage, entry[w]} : lines' = WithLine(x)
    /\ open' = TRUE
    /\ tears' = tears + 1
    /\ UNCHANGED <<entry, fd, pruned, acked, overlapped>>

\* The process ends, or a system call fails, before anything is written.
GiveUp(w) ==
    /\ w \in InProgress
    /\ pc' = [pc EXCEPT ![w] = "failed"]
    /\ UNCHANGED <<lines, open, entry, fd, pruned, acked, tears, overlapped>>

-----------------------------------------------------------------------------
(* Prune: the file is removed; whoever has it open writes into the void.   *)
Prune(p) ==
    /\ p \notin pruned /\ Begin
    /\ pruned' = pruned \cup {p}
    /\ lines' = <<>>
    /\ open' = FALSE
    /\ fd' = [w \in Writers |-> IF fd[w] = "linked" THEN "unlinked" ELSE fd[w]]
    /\ acked' = {}
    /\ UNCHANGED <<pc, entry, tears>>

-----------------------------------------------------------------------------
Next ==
    \/ \E w \in Writers :
          \/ \E k \in Keys : ReadSeq(w, k)
          \/ Open(w) \/ Write(w) \/ Tear(w) \/ GiveUp(w)
    \/ \E p \in Pruners : Prune(p)

Spec == Init /\ [][Next]_vars

-----------------------------------------------------------------------------
(* Each write that stopped half way costs at most one acknowledged append, *)
(* whatever overlaps: nothing else an appender or a pruner does makes an   *)
(* entry of this file go away (ledger.go, appendLine).                     *)
Stored == {w \in acked : \E i \in DOMAIN lines : lines[i] # Garbage /\ lines[i].by = w}
LossBounded == Cardinality(acked \ Stored) <= tears

(* The damage stays where it was done: no line is unreadable but by a      *)
(* write that stopped half way or the one that followed it, and a file     *)
(* nothing tore can be read.                                               *)
DamageBounded == Cardinality({i \in DOMAIN lines : lines[i] = Garbage}) <= tears

(* As long as no two calls have overlapped and no write has stopped half   *)
(* way, the ledger is a log numbered from 1, history returns all of it and *)
(* get the latest value of each key (ledger.go).                           *)
Contract == INSTANCE LedgerLog WITH log <- readAll, latest <- Get
calm == ~overlapped /\ tears = 0
ImplementsLedgerLog ==
    Contract!Init /\ [][calm' => [Contract!Next]_(Contract!vars)]_vars
=============================================================================
