------------------------------- MODULE Install -------------------------------
(***************************************************************************)
(* `tk install` and `tk setup` (internal/cli/admin.go, setup.go,           *)
(* internal/installer/installer.go): the daemon and the resident are       *)
(* stopped, an archive is downloaded and verified, its binary staged       *)
(* beside the target, probed, swapped in by two renames, probed again,     *)
(* rolled back if need be, and what was stopped is started again.          *)
(*                                                                         *)
(* Every system call that another process can see the effect of is a step. *)
(* Four names lead to files; a file that is opened for writing is          *)
(* truncated, not replaced, and whoever has it open writes to it whatever  *)
(* its name has become.                                                    *)
(***************************************************************************)
EXTENDS Naturals, FiniteSets

CONSTANTS
    Commands,       \* runs of `tk install` or `tk setup`, each made once
    Pins,           \* versions
    None,           \* no file, no version
    Partial,        \* the content of a file that is not whole
    Overlap,        \* bound: commands in progress at the same time
    MaxCuts         \* bound: commands cut short

Names == {"dest", "prev", "new", "tmp"}
Old == <<None, "new">>
Files == (Commands \X {"tmp", "new"}) \cup {Old}

ASSUME InstallAssumption ==
    /\ None \notin Pins \cup Commands \cup Files
    /\ Partial \notin Pins \cup {None}
    /\ IsFiniteSet(Commands)
    /\ Overlap \in Nat \ {0} /\ MaxCuts \in Nat

VARIABLES
    name,           \* [Names -> Files or None] the directory <cache>/bin
    data,           \* [Files -> ...] what is in a file: the version it reports
    pc,             \* [Commands -> ...] where a command stands
    kind,           \* [Commands -> ...] install or setup
    pin,            \* [Commands -> ...] the version it is to install
    blob,           \* [Commands -> ...] the archive it has open
    staged,         \* [Commands -> ...] the staged file it has open
    cbmOK,          \* [Commands -> BOOLEAN] it resolved a binary when it began
    ok,             \* [Commands -> BOOLEAN] Install returned without error
    qd, qr,         \* [Commands -> BOOLEAN] it has stopped the daemon, the resident
    daemon,         \* the state of the daemon
    resident,       \* the state of the resident
    engine,         \* the version of the resident's engine
    before,         \* the binary there was when the install in progress began
    report,         \* what the last install has said
    cuts,           \* commands that were cut short
    harmed,         \* whether the last command to begin was
    overlapped,     \* whether two commands have ever been in progress at once
    excused         \* what is not as it was found, for a reason the code accepts

files == <<name, data>>
frames == <<kind, pin, blob, staged, cbmOK, ok, qd, qr>>
services == <<daemon, resident, engine, excused>>
history == <<before, report, cuts, harmed, overlapped>>
vars == <<files, pc, frames, services, history>>

Steps == {"idle", "daemon", "resident", "fetch", "receive", "extract", "write",
          "probe", "clear", "retain", "publish", "confirm", "rollback", "again",
          "unretain", "cleanup", "wake", "resume", "done", "dead"}

TypeOK ==
    /\ name \in [Names -> Files \cup {None}]
    /\ data \in [Files -> Pins \cup {None, Partial}]
    /\ pc \in [Commands -> Steps]
    /\ kind \in [Commands -> {"install", "setup"}]
    /\ pin \in [Commands -> Pins \cup {None}]
    /\ blob \in [Commands -> Files \cup {None}]
    /\ staged \in [Commands -> Files \cup {None}]
    /\ cbmOK \in [Commands -> BOOLEAN] /\ ok \in [Commands -> BOOLEAN]
    /\ qd \in [Commands -> BOOLEAN] /\ qr \in [Commands -> BOOLEAN]
    /\ daemon \in {"none", "running", "stopped"}
    /\ resident \in {"none", "serving", "quiesced"}
    /\ engine \in Pins \cup {None, Partial}
    /\ before \in Pins \cup {None, Partial}
    /\ report \in {None, "installed", "failed"}
    /\ cuts \in 0..MaxCuts
    /\ overlapped \in BOOLEAN /\ harmed \in BOOLEAN
    /\ excused \subseteq {"daemon", "resident", "engine"}

At(n) == IF name[n] = None THEN None ELSE data[name[n]]

Init ==
    /\ harmed = FALSE
    /\ \E v \in Pins \cup {None} :
          /\ name = [n \in Names |-> IF n = "dest" /\ v # None THEN Old ELSE None]
          /\ data = [f \in Files |-> IF f = Old THEN v ELSE None]
          /\ \E r \in {"none", "serving"} :
                /\ v = None => r = "none"
                /\ resident = r
                /\ engine = IF r = "serving" THEN v ELSE None
          /\ daemon \in {"none", "running"}
          /\ v = None => daemon = "none"
          /\ before = v
    /\ pc = [p \in Commands |-> "idle"]
    /\ kind = [p \in Commands |-> "install"]
    /\ pin = [p \in Commands |-> None]
    /\ blob = [p \in Commands |-> None]
    /\ staged = [p \in Commands |-> None]
    /\ cbmOK = [p \in Commands |-> FALSE]
    /\ ok = [p \in Commands |-> FALSE]
    /\ qd = [p \in Commands |-> FALSE]
    /\ qr = [p \in Commands |-> FALSE]
    /\ report = None
    /\ cuts = 0
    /\ overlapped = FALSE
    /\ excused = {}

Goto(p, l) == pc' = [pc EXCEPT ![p] = l]
\* The command p ends as l, and with it its frame.
End(p, l) ==
    /\ Goto(p, l)
    /\ kind' = [kind EXCEPT ![p] = "install"]
    /\ pin' = [pin EXCEPT ![p] = None]
    /\ blob' = [blob EXCEPT ![p] = None]
    /\ staged' = [staged EXCEPT ![p] = None]
    /\ cbmOK' = [cbmOK EXCEPT ![p] = FALSE]
    /\ ok' = [ok EXCEPT ![p] = FALSE]
    /\ qd' = [qd EXCEPT ![p] = FALSE]
    /\ qr' = [qr EXCEPT ![p] = FALSE]

InProgress == {p \in Commands : pc[p] \notin {"idle", "done", "dead"}}

\* The files that are being written, which no kernel will run meanwhile.
Writing == {staged[p] : p \in {q \in Commands : pc[q] = "write"}}

\* DetectVersion: what the probe of a name may report; it may also fail.
Reports(n, v) == At(n) = v /\ name[n] \notin Writing

-----------------------------------------------------------------------------
(* Inspect, and what the command does before the download.                 *)

\* A binary that reports the pin is left alone, unless by `--update`.
Inspect(p) ==
    /\ pc[p] = "idle" /\ Cardinality(InProgress) < Overlap
    /\ \E k \in {"install", "setup"}, v \in Pins :
          /\ kind' = [kind EXCEPT ![p] = k]
          /\ pin' = [pin EXCEPT ![p] = v]
    /\ Goto(p, "daemon")
    /\ \E r \in BOOLEAN :
          /\ name["dest"] # None => r
          /\ cbmOK' = [cbmOK EXCEPT ![p] = r]
    /\ overlapped' = (overlapped \/ InProgress # {})
    /\ before' = At("dest")
    /\ harmed' = FALSE
    /\ UNCHANGED <<files, blob, staged, ok, qd, qr, services, report, cuts>>

\* A daemon is stopped if a managed binary is replaced; one that is busy refuses.
HoldsDaemon(p) == name["dest"] # None /\ cbmOK[p] /\ daemon = "running"

QuiesceDaemon(p) ==
    /\ pc[p] = "daemon"
    /\ IF HoldsDaemon(p)
       THEN daemon' = "stopped" /\ qd' = [qd EXCEPT ![p] = TRUE]
       ELSE UNCHANGED <<daemon, qd>>
    /\ Goto(p, IF kind[p] = "install" THEN "resident" ELSE "fetch")
    /\ UNCHANGED <<files, kind, pin, blob, staged, cbmOK, ok, qr, resident, engine, excused, history>>

DaemonRefuses(p) ==
    /\ pc[p] = "daemon" /\ HoldsDaemon(p)
    /\ End(p, "done")
    /\ report' = "failed"
    /\ UNCHANGED <<files, services, before, cuts, harmed, overlapped>>

\* `tk install` asks a resident to let its engine go, which it never refuses.
HoldsResident(p) == cbmOK[p] /\ resident # "none"

QuiesceResident(p) ==
    /\ pc[p] = "resident"
    /\ IF HoldsResident(p)
       THEN /\ resident' = "quiesced"
            /\ engine' = None
            /\ qr' = [qr EXCEPT ![p] = TRUE]
       ELSE UNCHANGED <<resident, engine, qr>>
    /\ Goto(p, "fetch")
    /\ UNCHANGED <<files, kind, pin, blob, staged, cbmOK, ok, qd, daemon, excused, history>>

\* No reply: the deadline passes while the resident carries the quiesce out (taken to its
\* end here), or the resident has ended. Nothing that was stopped is started again.
QuiesceUnanswered(p) ==
    /\ pc[p] = "resident" /\ HoldsResident(p)
    /\ resident' \in {"quiesced", "none"}
    /\ engine' = None
    /\ End(p, "done")
    /\ report' = "failed"
    /\ excused' = excused \cup {"resident"} \cup (IF qd[p] THEN {"daemon"} ELSE {})
    /\ UNCHANGED <<files, daemon, before, cuts, harmed, overlapped>>

-----------------------------------------------------------------------------
(* installer.Install: download, extract, probe.                            *)

InstallFrame == <<kind, pin, cbmOK, qd, qr>>

\* The file a name leads to once it has been opened with O_CREATE and O_TRUNC.
Opened(p, n) == IF name[n] = None THEN <<p, n>> ELSE name[n]

\* The manifest cannot be had, or does not list the archive.
FetchFails(p) ==
    /\ pc[p] = "fetch"
    /\ Goto(p, "wake")
    /\ UNCHANGED <<files, frames, services, history>>

OpenBlob(p) ==
    /\ pc[p] = "fetch"
    /\ blob' = [blob EXCEPT ![p] = Opened(p, "tmp")]
    /\ name' = [name EXCEPT !["tmp"] = Opened(p, "tmp")]
    /\ data' = [data EXCEPT ![Opened(p, "tmp")] = Partial]
    /\ Goto(p, "receive")
    /\ UNCHANGED <<InstallFrame, staged, ok, services, history>>

\* Mutant of Receive: the bytes are not compared with the manifest.
ReceiveUnchecked(p) ==
    /\ pc[p] = "receive"
    /\ \E v \in Pins \cup {"unvouched"} : data' = [data EXCEPT ![blob[p]] = v]
    /\ Goto(p, "extract")
    /\ UNCHANGED <<name, frames, services, history>>

\* The asset is what the manifest vouches for, whatever version is in it.
Receive(p) ==
    /\ pc[p] = "receive"
    /\ \E v \in Pins : data' = [data EXCEPT ![blob[p]] = v]
    /\ Goto(p, "extract")
    /\ UNCHANGED <<name, frames, services, history>>

\* The transfer ends early, or the bytes are not the manifest's.
ReceiveFails(p) ==
    /\ pc[p] = "receive"
    /\ Goto(p, "cleanup")
    /\ UNCHANGED <<files, frames, services, history>>

\* The archive is opened anew, by its name, before the staged file is.
OpenStaged(p) ==
    /\ pc[p] = "extract"
    /\ At("tmp") \in Pins
    /\ blob' = [blob EXCEPT ![p] = name["tmp"]]
    /\ staged' = [staged EXCEPT ![p] = Opened(p, "new")]
    /\ name' = [name EXCEPT !["new"] = Opened(p, "new")]
    /\ data' = [data EXCEPT ![Opened(p, "new")] = Partial]
    /\ Goto(p, "write")
    /\ UNCHANGED <<InstallFrame, ok, services, history>>

WriteStaged(p) ==
    /\ pc[p] = "write"
    /\ data' = [data EXCEPT ![staged[p]] = data[blob[p]]]
    /\ Goto(p, "probe")
    /\ UNCHANGED <<name, frames, services, history>>

\* No archive, a disk that is full, a probe without the pin: `.new` is removed.
StagingFails(p) ==
    /\ pc[p] \in {"extract", "write", "probe"}
    /\ name' = [name EXCEPT !["new"] = None]
    /\ Goto(p, "cleanup")
    /\ UNCHANGED <<data, frames, services, history>>

\* Mutant of ProbeStaged: the candidate is not asked for its version.
StageUnprobed(p) ==
    /\ pc[p] = "probe" /\ name["new"] # None
    /\ Goto(p, "clear")
    /\ UNCHANGED <<files, frames, services, history>>

ProbeStaged(p) ==
    /\ pc[p] = "probe" /\ Reports("new", pin[p])
    /\ Goto(p, "clear")
    /\ UNCHANGED <<files, frames, services, history>>

-----------------------------------------------------------------------------
(* swap, the second probe, rollback.                                       *)

ClearPrev(p) ==
    /\ pc[p] = "clear"
    /\ name' = [name EXCEPT !["prev"] = None]
    /\ Goto(p, "retain")
    /\ UNCHANGED <<data, frames, services, history>>

\* Mutant of Retain: the old binary is removed.
RetainNothing(p) ==
    /\ pc[p] = "retain"
    /\ name' = [name EXCEPT !["dest"] = None]
    /\ Goto(p, "publish")
    /\ UNCHANGED <<data, frames, services, history>>

Retain(p) ==
    /\ pc[p] = "retain"
    /\ name' = IF name["dest"] = None THEN name
               ELSE [name EXCEPT !["prev"] = name["dest"], !["dest"] = None]
    /\ Goto(p, "publish")
    /\ UNCHANGED <<data, frames, services, history>>

\* `.prev` cannot be removed, or the target not renamed: it is where it was.
RetainFails(p) ==
    /\ pc[p] = "clear" \/ (pc[p] = "retain" /\ name["dest"] # None)
    /\ name' = [name EXCEPT !["new"] = None]
    /\ Goto(p, "cleanup")
    /\ UNCHANGED <<data, frames, services, history>>

Publish(p) ==
    /\ pc[p] = "publish" /\ name["new"] # None
    /\ name' = [name EXCEPT !["dest"] = name["new"], !["new"] = None]
    /\ excused' = IF resident = "serving" /\ kind[p] = "setup"
                  THEN excused \cup {"engine"} ELSE excused
    /\ Goto(p, "confirm")
    /\ UNCHANGED <<data, frames, daemon, resident, engine, history>>

\* The second rename fails: what was staged is removed, what was retained stays so.
PublishFails(p) ==
    /\ pc[p] = "publish"
    /\ \/ name["new"] = None /\ UNCHANGED <<name, cuts, harmed>>
       \/ /\ cuts < MaxCuts
          /\ name' = [name EXCEPT !["new"] = None]
          /\ cuts' = cuts + 1
          /\ harmed' = TRUE
    /\ Goto(p, "cleanup")
    /\ UNCHANGED <<data, frames, services, before, report, overlapped>>

Confirm(p) ==
    /\ pc[p] = "confirm" /\ Reports("dest", pin[p])
    /\ Goto(p, "unretain")
    /\ UNCHANGED <<files, frames, services, history>>

Unconfirmed(p) ==
    /\ pc[p] = "confirm"
    /\ Goto(p, "rollback")
    /\ UNCHANGED <<files, frames, services, history>>

\* Mutant of Rollback: it clears the target first and stops there.
RollbackRemoves(p) ==
    /\ pc[p] = "rollback"
    /\ name' = [name EXCEPT !["dest"] = None]
    /\ Goto(p, "cleanup")
    /\ UNCHANGED <<data, frames, services, history>>

\* With nothing retained there is nothing to restore.
Rollback(p) ==
    /\ pc[p] = "rollback"
    /\ name' = IF name["prev"] = None THEN name
               ELSE [name EXCEPT !["dest"] = name["prev"], !["prev"] = None]
    /\ Goto(p, "cleanup")
    /\ UNCHANGED <<data, frames, services, history>>

\* The rename fails: it is tried again with the target out of the way.
RollbackFails(p) ==
    /\ pc[p] = "rollback" /\ name["prev"] # None /\ cuts < MaxCuts
    /\ cuts' = cuts + 1
    /\ harmed' = TRUE
    /\ \/ /\ name' = [name EXCEPT !["dest"] = None]
          /\ Goto(p, "again")
       \/ UNCHANGED name /\ Goto(p, "cleanup")
    /\ UNCHANGED <<data, frames, services, before, report, overlapped>>

RollbackAgain(p) ==
    /\ pc[p] = "again"
    /\ name' \in {name, [name EXCEPT !["dest"] = name["prev"], !["prev"] = None]}
    /\ Goto(p, "cleanup")
    /\ UNCHANGED <<data, frames, services, history>>

\* Install has succeeded; the retained binary is let go.
Unretain(p) ==
    /\ pc[p] = "unretain"
    /\ name' = [name EXCEPT !["prev"] = None]
    /\ ok' = [ok EXCEPT ![p] = TRUE]
    /\ Goto(p, "cleanup")
    /\ UNCHANGED <<data, InstallFrame, blob, staged, services, history>>

\* The deferred removal of the archive; Install returns.
Cleanup(p) ==
    /\ pc[p] = "cleanup"
    /\ name' = [name EXCEPT !["tmp"] = None]
    /\ Goto(p, "wake")
    /\ UNCHANGED <<data, frames, services, history>>

-----------------------------------------------------------------------------
(* What was stopped is started again.                                      *)

\* Only after a successful install; a start that fails is reported.
WakeDaemon(p) ==
    /\ pc[p] = "wake"
    /\ \/ /\ ok[p] /\ qd[p]
          /\ \/ daemon' = "running" /\ excused' = excused \ {"daemon"}
             \/ excused' = excused \cup {"daemon"} /\ UNCHANGED daemon
       \/ /\ ~(ok[p] /\ qd[p])
          /\ excused' = IF qd[p] THEN excused \cup {"daemon"} ELSE excused
          /\ UNCHANGED daemon
    /\ Goto(p, "resume")
    /\ UNCHANGED <<files, frames, resident, engine, history>>

\* Mutant of ResumeResident: only after a successful install.
ResumeIfInstalled(p) ==
    /\ pc[p] = "resume"
    /\ IF qr[p] /\ ok[p]
       THEN resident' = "serving" /\ engine' = At("dest")
       ELSE UNCHANGED <<resident, engine>>
    /\ End(p, "done")
    /\ report' = IF ok[p] THEN "installed" ELSE "failed"
    /\ UNCHANGED <<files, daemon, excused, before, cuts, harmed, overlapped>>

\* The resident starts an engine from the target; it stays quiesced if it cannot.
ResumeResident(p) ==
    /\ pc[p] = "resume"
    /\ \/ /\ qr[p] /\ resident # "none" /\ At("dest") \in Pins
          /\ resident' = "serving"
          /\ engine' = At("dest")
          /\ excused' = excused \ {"engine", "resident"}
       \/ /\ qr[p]
          /\ excused' = excused \cup {"resident"}
          /\ UNCHANGED <<resident, engine>>
       \/ ~qr[p] /\ UNCHANGED <<resident, engine, excused>>
    /\ End(p, "done")
    /\ report' = IF ok[p] THEN "installed" ELSE "failed"
    /\ UNCHANGED <<files, daemon, before, cuts, harmed, overlapped>>

-----------------------------------------------------------------------------
\* A command is killed: deferred calls do not run, nothing is given back.
Die(p) ==
    /\ p \in InProgress /\ cuts < MaxCuts
    /\ End(p, "dead")
    /\ cuts' = cuts + 1
    /\ harmed' = TRUE
    /\ excused' = excused \cup (IF qd[p] THEN {"daemon"} ELSE {})
                          \cup (IF qr[p] THEN {"resident"} ELSE {})
    /\ UNCHANGED <<files, daemon, resident, engine, before, report, overlapped>>

Step(p) ==
    \/ Inspect(p) \/ QuiesceDaemon(p) \/ DaemonRefuses(p)
    \/ QuiesceResident(p) \/ QuiesceUnanswered(p)
    \/ FetchFails(p) \/ OpenBlob(p) \/ Receive(p) \/ ReceiveFails(p)
    \/ OpenStaged(p) \/ WriteStaged(p) \/ StagingFails(p) \/ ProbeStaged(p)
    \/ ClearPrev(p) \/ Retain(p) \/ RetainFails(p) \/ Publish(p) \/ PublishFails(p)
    \/ Confirm(p) \/ Unconfirmed(p)
    \/ Rollback(p) \/ RollbackFails(p) \/ RollbackAgain(p)
    \/ Unretain(p) \/ Cleanup(p) \/ WakeDaemon(p) \/ ResumeResident(p)
    \/ Die(p)

Next == \E p \in Commands : Step(p)

Spec == Init /\ [][Next]_vars

-----------------------------------------------------------------------------
(* What is said of the binary is said of one command at a time:            *)
(* 01-ARCHITECTURE.md does not say what two at once may do, and they may   *)
(* leave none at all.                                                      *)
calm == ~overlapped

Whole(n) == At(n) \in Pins /\ name[n] \notin Writing

(* Wherever an install stands, and whatever fails or is cut short: nothing *)
(* is at the path that other processes resolve but the old binary or one   *)
(* that has reported the pin (installer.go, publish: a candidate that does *)
(* not "must never reach the path other processes resolve").               *)
DestIsProbed ==
    \A p \in InProgress : calm => At("dest") \in {None, before, pin[p]}

(* One install that is cut short never costs the last binary: it is at the *)
(* target, retained or staged (installer.go, swap and rollback).           *)
Recoverable ==
    calm /\ cuts <= 1 /\ data[Old] # None => \E n \in {"dest", "prev", "new"} : Whole(n)

(* The binary as it was counts until the command ends.                     *)
Contract ==
    INSTANCE Replacement WITH
        image <- IF InProgress # {} THEN before ELSE At("dest"),
        wanted <- IF InProgress # {} THEN pin[CHOOSE p \in InProgress : TRUE] ELSE None

(* Used one at a time, an install replaces the binary or leaves it, and    *)
(* what it reports is what it did (installer.go, Install). A rename that   *)
(* fails with the old binary out of the way harms the install: that is     *)
(* weaker than what 01-ARCHITECTURE.md says, see FailureKeepsImage.        *)
ImplementsReplacement ==
    Contract!Init /\ [][calm' => [Contract!Next]_(Contract!vars)]_vars

(* An install that fails, and is not killed, leaves the binary it found    *)
(* (01-ARCHITECTURE.md, "roll back to .prev on any failure. A failed swap  *)
(* leaves the previous image serving"). When the second rename of swap     *)
(* fails nothing rolls back.                                               *)
FailureKeepsImage ==
    [][\A p \in InProgress :
          calm /\ before # None /\ pc'[p] = "done" /\ report' = "failed"
          => At("dest")' = before]_vars

(* What a command has stopped runs again when no command is in progress,   *)
(* unless a command was killed, its quiesce was not answered, a restart    *)
(* failed, or the install failed after it had stopped the daemon           *)
(* (admin.go, cmdInstall; setup.go).                                       *)
GivenBack ==
    InProgress = {} =>
        /\ resident = "quiesced" => "resident" \in excused
        /\ daemon = "stopped" => "daemon" \in excused

(* A resident that serves runs the binary that is installed, unless        *)
(* `tk setup`, which does not ask it to let go, has replaced that since,   *)
(* or a command was cut short (admin.go, quiesceResident).                 *)
ServesInstalled ==
    /\ calm /\ InProgress = {} /\ cuts = 0 /\ resident = "serving"
    /\ "engine" \notin excused
    => engine = At("dest")

(* Of an install whose steps fail anywhere after the quiesces, no service  *)
(* is left the worse for it without a reason on record (admin.go,          *)
(* cmdInstall).                                                            *)
Restored == GivenBack /\ ServesInstalled
=============================================================================
