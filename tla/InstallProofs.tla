---------------------------- MODULE InstallProofs ----------------------------
(***************************************************************************)
(* Proofs about Install: whatever fails and whatever is killed, for any    *)
(* number of commands, versions and cuts.                                  *)
(***************************************************************************)
EXTENDS Install, TLAPS

USE InstallAssumption DEF InstallAssumption

Archives == Commands \X {"tmp"}
Candidates == Commands \X {"new"}

\* Before the command opens its staged file; with the target as it was found.
Early == {"idle", "daemon", "resident", "fetch", "receive", "extract"}
Untouched == {"daemon", "resident", "fetch", "receive", "extract", "write",
              "probe", "clear", "retain"}
Ending == {"cleanup", "wake", "resume"}

\* What a command holds, where it stands.
FrameInv ==
    \A p \in Commands :
        /\ blob[p] \in Archives \cup {None} /\ staged[p] \in Candidates \cup {None}
        /\ pc[p] \in {"receive", "write"} => blob[p] # None
        /\ pc[p] = "write" => staged[p] # None
        /\ p \in InProgress => pin[p] \in Pins
        /\ pc[p] = "resident" => kind[p] = "install"
        /\ pc[p] \in {"idle", "daemon", "resident"} \/ kind[p] = "setup" => ~qr[p]
        /\ pc[p] \notin Ending => ~ok[p]

(* No file has two names, an archive's name is no binary's, and the file   *)
(* a command will stage is nobody's yet.                                   *)
NameInv ==
    /\ name["tmp"] \in Archives \cup {None}
    /\ name["new"] \in Candidates \cup {None}
    /\ name["dest"] \in Candidates \cup {Old, None}
    /\ name["prev"] \in Candidates \cup {Old, None}
    /\ name["dest"] # None => name["dest"] # name["new"] /\ name["dest"] # name["prev"]
    /\ name["prev"] # None => name["prev"] # name["new"]
    /\ \A p \in Commands : pc[p] \in Early =>
          <<p, "new">> \notin {name["dest"], name["prev"], name["new"]}

Base == TypeOK /\ FrameInv /\ NameInv

LEMMA FileKinds ==
    /\ Archives \subseteq Files /\ Candidates \subseteq Files /\ Old \in Files
    /\ None \notin Files /\ Old \notin Candidates
    /\ \A f \in Archives : f \notin Candidates /\ f # Old
  BY DEF Archives, Candidates, Files, Old

(* TypeOK in three parts: the directory, the commands, and all else.       *)
FilesOK ==
    /\ name \in [Names -> Files \cup {None}]
    /\ data \in [Files -> Pins \cup {None, Partial}]
FramesOK ==
    /\ pc \in [Commands -> Steps]
    /\ kind \in [Commands -> {"install", "setup"}]
    /\ pin \in [Commands -> Pins \cup {None}]
    /\ blob \in [Commands -> Files \cup {None}]
    /\ staged \in [Commands -> Files \cup {None}]
    /\ cbmOK \in [Commands -> BOOLEAN] /\ ok \in [Commands -> BOOLEAN]
    /\ qd \in [Commands -> BOOLEAN] /\ qr \in [Commands -> BOOLEAN]
RestOK ==
    /\ daemon \in {"none", "running", "stopped"}
    /\ resident \in {"none", "serving", "quiesced"}
    /\ engine \in Pins \cup {None, Partial}
    /\ before \in Pins \cup {None, Partial}
    /\ report \in {None, "installed", "failed"}
    /\ cuts \in 0..MaxCuts
    /\ overlapped \in BOOLEAN /\ harmed \in BOOLEAN
    /\ excused \subseteq {"daemon", "resident", "engine"}

LEMMA TypeParts == TypeOK <=> FilesOK /\ FramesOK /\ RestOK
  BY DEF TypeOK, FilesOK, FramesOK, RestOK

LEMMA AtType ==
    ASSUME FilesOK
    PROVE  \A n \in Names : At(n) \in Pins \cup {None, Partial}
  BY DEF FilesOK, At

LEMMA BaseInit == Init => Base
  <1> SUFFICES ASSUME Init PROVE Base
    OBVIOUS
  <1>1. PICK v \in Pins \cup {None} :
           /\ name = [n \in Names |-> IF n = "dest" /\ v # None THEN Old ELSE None]
           /\ data = [f \in Files |-> IF f = Old THEN v ELSE None]
           /\ daemon \in {"none", "running"} /\ before = v
           /\ \E r \in {"none", "serving"} :
                 resident = r /\ engine = IF r = "serving" THEN v ELSE None
    BY DEF Init
  <1>2. FilesOK
    BY <1>1, FileKinds DEF FilesOK
  <1>3. FramesOK
    BY DEF Init, FramesOK, Steps
  <1>4. RestOK
    <2>1. /\ daemon \in {"none", "running", "stopped"} /\ resident \in {"none", "serving", "quiesced"}
          /\ engine \in Pins \cup {None, Partial} /\ before \in Pins \cup {None, Partial}
      BY <1>1
    <2>2. cuts \in 0..MaxCuts
      BY DEF Init
    <2> QED
      BY <2>1, <2>2 DEF Init, RestOK
  <1>5. FrameInv
    BY DEF Init, FrameInv, InProgress, Ending
  <1>6. NameInv
    BY <1>1, FileKinds DEF Init, NameInv, Names, Candidates, Old
  <1> QED
    BY <1>2, <1>3, <1>4, <1>5, <1>6, TypeParts DEF Base

-----------------------------------------------------------------------------
(* What a step does to a command's frame: it begins, ends, moves on, or    *)
(* has opened, stopped or finished something.                              *)
Later == {"extract", "wake", "cleanup", "probe", "clear", "retain", "publish",
          "confirm", "unretain", "rollback", "again", "resume"}

Moves(p) ==
    /\ p \in InProgress
    /\ \E l \in Later : /\ pc' = [pc EXCEPT ![p] = l]
                        /\ pc[p] \in Ending => l \in Ending
                        /\ l = "extract" => pc[p] = "receive"
                        /\ l = "resume" => pc[p] = "wake"
    /\ UNCHANGED frames

LEMMA WhoMoves ==
    ASSUME NEW p \in Commands,
           \/ FetchFails(p) \/ Receive(p) \/ ReceiveFails(p) \/ WriteStaged(p)
           \/ StagingFails(p) \/ ProbeStaged(p) \/ ClearPrev(p) \/ Retain(p)
           \/ RetainFails(p) \/ Publish(p) \/ PublishFails(p) \/ Confirm(p)
           \/ Unconfirmed(p) \/ Rollback(p) \/ RollbackFails(p) \/ RollbackAgain(p)
           \/ Cleanup(p) \/ WakeDaemon(p)
    PROVE  Moves(p)
  <1> USE DEF Moves, Later, InProgress, Ending, Goto
  <1>1. CASE FetchFails(p) \/ Receive(p) \/ ReceiveFails(p) \/ WriteStaged(p)
    BY <1>1 DEF FetchFails, Receive, ReceiveFails, WriteStaged
  <1>2. CASE StagingFails(p) \/ ProbeStaged(p) \/ ClearPrev(p) \/ Retain(p)
    BY <1>2 DEF StagingFails, ProbeStaged, ClearPrev, Retain
  <1>3. CASE RetainFails(p) \/ Publish(p) \/ PublishFails(p) \/ Confirm(p)
    BY <1>3 DEF RetainFails, Publish, PublishFails, Confirm
  <1>4. CASE Unconfirmed(p) \/ Rollback(p) \/ RollbackFails(p) \/ RollbackAgain(p)
    BY <1>4 DEF Unconfirmed, Rollback, RollbackFails, RollbackAgain
  <1>5. CASE Cleanup(p) \/ WakeDaemon(p)
    BY <1>5 DEF Cleanup, WakeDaemon
  <1> QED
    BY <1>1, <1>2, <1>3, <1>4, <1>5

LEMMA WhoEnds ==
    ASSUME NEW p \in Commands,
           DaemonRefuses(p) \/ QuiesceUnanswered(p) \/ ResumeResident(p) \/ Die(p)
    PROVE  p \in InProgress /\ \E l \in {"done", "dead"} : End(p, l)
  BY DEF DaemonRefuses, QuiesceUnanswered, ResumeResident, Die, InProgress

LEMMA FrameMoves ==
    ASSUME Base, NEW p \in Commands, Moves(p)
    PROVE  FramesOK' /\ FrameInv'
  <1>1. FramesOK /\ FrameInv
    BY TypeParts DEF Base
  <1>2. PICK l \in Later : pc' = [pc EXCEPT ![p] = l] /\ (pc[p] \in Ending => l \in Ending)
    BY DEF Moves
  <1>3. FramesOK'
    BY <1>1, <1>2 DEF Moves, FramesOK, frames, Later, Steps
  <1>4. FrameInv'
    BY <1>1, <1>2 DEF Moves, FramesOK, FrameInv, frames, Later, Steps, InProgress, Ending
  <1> QED
    BY <1>3, <1>4

LEMMA FrameEnds ==
    ASSUME Base, NEW p \in Commands, NEW l \in {"done", "dead"}, End(p, l)
    PROVE  FramesOK' /\ FrameInv'
  <1>1. FramesOK /\ FrameInv
    BY TypeParts DEF Base
  <1>2. FramesOK'
    BY <1>1 DEF End, Goto, FramesOK, Steps
  <1>3. FrameInv'
    BY <1>1 DEF End, Goto, FramesOK, FrameInv, Steps, InProgress, Ending
  <1> QED
    BY <1>2, <1>3

LEMMA FrameStep ==
    ASSUME Base, NEW p \in Commands, Step(p)
    PROVE  FramesOK' /\ FrameInv'
  <1> USE DEF Goto
  <1>1. FramesOK /\ FrameInv /\ NameInv /\ FilesOK
    BY TypeParts DEF Base
  <1>2. ASSUME Inspect(p) PROVE FramesOK' /\ FrameInv'
    <2>1. PICK k \in {"install", "setup"}, v \in Pins, r \in BOOLEAN :
             /\ kind' = [kind EXCEPT ![p] = k] /\ pin' = [pin EXCEPT ![p] = v]
             /\ cbmOK' = [cbmOK EXCEPT ![p] = r]
             /\ pc[p] = "idle" /\ pc' = [pc EXCEPT ![p] = "daemon"]
             /\ UNCHANGED <<blob, staged, ok, qd, qr>>
      BY <1>2 DEF Inspect
    <2>2. FramesOK'
      BY <1>1, <2>1 DEF FramesOK, Steps
    <2>3. FrameInv'
      BY <1>1, <2>1 DEF FramesOK, FrameInv, InProgress, Ending
    <2> QED
      BY <2>2, <2>3
  <1>3. ASSUME QuiesceDaemon(p) PROVE FramesOK' /\ FrameInv'
    <2>1. PICK l \in {"resident", "fetch"} :
             pc' = [pc EXCEPT ![p] = l] /\ (l = "resident" => kind[p] = "install")
      BY <1>3 DEF QuiesceDaemon
    <2>2. qd' = qd \/ qd' = [qd EXCEPT ![p] = TRUE]
      BY <1>3 DEF QuiesceDaemon
    <2>3. FramesOK'
      <3>1. qd' \in [Commands -> BOOLEAN]
        BY <1>1, <2>2 DEF FramesOK
      <3>2. pc' \in [Commands -> Steps]
        BY <1>1, <2>1 DEF FramesOK, Steps
      <3> QED
        BY <1>1, <1>3, <3>1, <3>2 DEF QuiesceDaemon, FramesOK
    <2>4. FrameInv'
      BY <1>1, <1>3, <2>1 DEF QuiesceDaemon, FramesOK, FrameInv, InProgress, Ending
    <2> QED
      BY <2>3, <2>4
  <1>4. ASSUME QuiesceResident(p) PROVE FramesOK' /\ FrameInv'
    <2>1. pc' = [pc EXCEPT ![p] = "fetch"] /\ (qr' = qr \/ qr' = [qr EXCEPT ![p] = TRUE])
      BY <1>4 DEF QuiesceResident
    <2>2. FramesOK'
      BY <1>1, <1>4, <2>1 DEF QuiesceResident, FramesOK, Steps
    <2>3. kind[p] = "install"
      BY <1>1, <1>4 DEF QuiesceResident, FrameInv
    <2>4. FrameInv'
      BY <1>1, <1>4, <2>1, <2>3 DEF QuiesceResident, FramesOK, FrameInv, InProgress, Ending
    <2> QED
      BY <2>2, <2>4
  <1>5. ASSUME OpenBlob(p) PROVE FramesOK' /\ FrameInv'
    <2>1. Opened(p, "tmp") \in Archives
      BY <1>1 DEF NameInv, Opened, Archives
    <2>2. /\ pc' = [pc EXCEPT ![p] = "receive"] /\ blob' = [blob EXCEPT ![p] = Opened(p, "tmp")]
          /\ UNCHANGED <<InstallFrame, staged, ok>> /\ pc[p] = "fetch"
      BY <1>5 DEF OpenBlob
    <2>3. FramesOK'
      BY <1>1, <2>1, <2>2, FileKinds DEF FramesOK, Steps, InstallFrame
    <2>4. FrameInv'
      BY <1>1, <2>1, <2>2, FileKinds DEF FramesOK, FrameInv, InstallFrame, InProgress, Ending
    <2> QED
      BY <2>3, <2>4
  <1>6. ASSUME OpenStaged(p) PROVE FramesOK' /\ FrameInv'
    <2>1. Opened(p, "new") \in Candidates
      BY <1>1 DEF NameInv, Opened, Candidates
    <2>2. name["tmp"] \in Archives
      BY <1>1, <1>6 DEF OpenStaged, NameInv, At
    <2>3. /\ pc' = [pc EXCEPT ![p] = "write"] /\ blob' = [blob EXCEPT ![p] = name["tmp"]]
          /\ staged' = [staged EXCEPT ![p] = Opened(p, "new")]
          /\ UNCHANGED <<InstallFrame, ok>> /\ pc[p] = "extract"
      BY <1>6 DEF OpenStaged
    <2>4. FramesOK'
      BY <1>1, <2>1, <2>2, <2>3, FileKinds DEF FramesOK, Steps, InstallFrame
    <2>5. FrameInv'
      BY <1>1, <2>1, <2>2, <2>3, FileKinds DEF FramesOK, FrameInv, InstallFrame, InProgress, Ending
    <2> QED
      BY <2>4, <2>5
  <1>7. ASSUME Unretain(p) PROVE FramesOK' /\ FrameInv'
    <2>1. /\ pc' = [pc EXCEPT ![p] = "cleanup"] /\ ok' = [ok EXCEPT ![p] = TRUE]
          /\ UNCHANGED <<InstallFrame, blob, staged>> /\ pc[p] = "unretain"
      BY <1>7 DEF Unretain
    <2>2. FramesOK'
      BY <1>1, <2>1 DEF FramesOK, Steps, InstallFrame
    <2>3. FrameInv'
      BY <1>1, <2>1 DEF FramesOK, FrameInv, InstallFrame, InProgress, Ending
    <2> QED
      BY <2>2, <2>3
  <1> QED
    BY <1>2, <1>3, <1>4, <1>5, <1>6, <1>7, WhoMoves, WhoEnds, FrameMoves, FrameEnds DEF Step

-----------------------------------------------------------------------------
(* What a step does to the directory: nothing, one name goes, one file is  *)
(* renamed, or one is opened.                                              *)
Unlinks(n) == name' = [name EXCEPT ![n] = None]
Renames(m, n) == name' = [name EXCEPT ![n] = name[m], ![m] = None]

LEMMA NameMoves ==
    ASSUME NEW p \in Commands, Step(p)
    PROVE  \/ name' = name
           \/ \E n \in Names : Unlinks(n)
           \/ \E m \in {"dest", "prev", "new"}, n \in {"dest", "prev"} :
                 m # n /\ name[m] # None /\ pc[p] \notin Early /\ Renames(m, n)
           \/ OpenBlob(p) \/ OpenStaged(p)
  <1> USE DEF Unlinks, Renames, Names, Early
  <1>1. CASE \/ Inspect(p) \/ QuiesceDaemon(p) \/ DaemonRefuses(p)
             \/ QuiesceResident(p) \/ QuiesceUnanswered(p)
             \/ FetchFails(p) \/ Receive(p) \/ ReceiveFails(p)
    BY <1>1 DEF Inspect, QuiesceDaemon, DaemonRefuses, QuiesceResident, QuiesceUnanswered,
                FetchFails, Receive, ReceiveFails, files
  <1>2. CASE \/ WriteStaged(p) \/ ProbeStaged(p) \/ Confirm(p) \/ Unconfirmed(p)
             \/ WakeDaemon(p) \/ ResumeResident(p) \/ Die(p)
    BY <1>2 DEF WriteStaged, ProbeStaged, Confirm, Unconfirmed, WakeDaemon, ResumeResident, Die, files
  <1>3. CASE \/ StagingFails(p) \/ ClearPrev(p) \/ RetainFails(p) \/ PublishFails(p)
             \/ Unretain(p) \/ Cleanup(p)
    BY <1>3 DEF StagingFails, ClearPrev, RetainFails, PublishFails, Unretain, Cleanup
  <1>4. CASE Retain(p)
    BY <1>4 DEF Retain
  <1>5. CASE Publish(p)
    BY <1>5 DEF Publish
  <1>6. CASE Rollback(p)
    BY <1>6 DEF Rollback
  <1>7. CASE RollbackFails(p)
    BY <1>7 DEF RollbackFails
  <1>8. CASE RollbackAgain(p)
    BY <1>8 DEF RollbackAgain
  <1> QED
    BY <1>1, <1>2, <1>3, <1>4, <1>5, <1>6, <1>7, <1>8 DEF Step

LEMMA OthersStay ==
    ASSUME FramesOK, NEW p \in Commands, Step(p), NEW q \in Commands, q # p
    PROVE  pc'[q] = pc[q] /\ qd'[q] = qd[q] /\ qr'[q] = qr[q]
  <1>1. CASE Moves(p)
    BY <1>1 DEF Moves, FramesOK, frames
  <1>2. CASE \E l \in {"done", "dead"} : End(p, l)
    BY <1>2 DEF End, Goto, FramesOK
  <1>3. CASE Inspect(p) \/ OpenBlob(p) \/ OpenStaged(p) \/ Unretain(p)
    BY <1>3 DEF Inspect, OpenBlob, OpenStaged, Unretain, InstallFrame, Goto, FramesOK
  <1>4. CASE QuiesceDaemon(p) \/ QuiesceResident(p)
    BY <1>4 DEF QuiesceDaemon, QuiesceResident, Goto, FramesOK
  <1> QED
    BY <1>1, <1>2, <1>3, <1>4, WhoMoves, WhoEnds DEF Step

\* A command that is not Early never was before it began to stage.
LEMMA StaysEarly ==
    ASSUME Base, NEW p \in Commands, Step(p), NEW q \in Commands, pc'[q] \in Early
    PROVE  pc[q] \in Early /\ ~OpenStaged(q)
  <1>1. FramesOK
    BY TypeParts DEF Base
  <1>6. ~OpenStaged(q)
    BY <1>1 DEF FramesOK, OpenStaged, Goto, Early
  <1>7. q # p => pc'[q] = pc[q]
    BY <1>1, OthersStay
  <1>2. CASE Moves(p)
    <2>1. pc'[p] \in Later /\ (pc'[p] = "extract" => pc[p] = "receive")
      BY <1>1, <1>2 DEF FramesOK, Moves
    <2> QED
      BY <1>6, <1>7, <2>1 DEF Early, Later
  <1>3. CASE \E l \in {"done", "dead"} : End(p, l)
    <2>1. pc'[p] \in {"done", "dead"}
      BY <1>1, <1>3 DEF FramesOK, End, Goto
    <2> QED
      BY <1>6, <1>7, <2>1 DEF Early
  <1>4. CASE Inspect(p) \/ QuiesceDaemon(p) \/ QuiesceResident(p) \/ OpenBlob(p)
    BY <1>4, <1>6, <1>7 DEF Early, Inspect, QuiesceDaemon, QuiesceResident, OpenBlob
  <1>5. CASE OpenStaged(p) \/ Unretain(p)
    BY <1>1, <1>5, <1>6, <1>7 DEF FramesOK, Early, OpenStaged, Unretain, Goto
  <1> QED
    BY <1>2, <1>3, <1>4, <1>5, WhoMoves, WhoEnds DEF Step

LEMMA NameStep ==
    ASSUME Base, NEW p \in Commands, Step(p)
    PROVE  NameInv' /\ name' \in [Names -> Files \cup {None}]
  <1> USE DEF Names
  <1>1. NameInv /\ FilesOK /\ FramesOK
    BY TypeParts DEF Base
  <1>2. \A q \in Commands : pc'[q] \in Early => pc[q] \in Early
    BY StaysEarly
  <1>3. CASE name' = name
    BY <1>1, <1>2, <1>3 DEF NameInv, FilesOK
  <1>4. ASSUME NEW n \in Names, Unlinks(n) PROVE NameInv' /\ name' \in [Names -> Files \cup {None}]
    <2>1. name' \in [Names -> Files \cup {None}]
      BY <1>1, <1>4 DEF FilesOK, Unlinks
    <2>2. \A m \in Names : name'[m] \in {name[m], None}
      BY <1>1, <1>4 DEF FilesOK, Unlinks
    <2>3. NameInv'
      BY <1>1, <1>2, <2>2, FileKinds DEF NameInv, Candidates
    <2> QED
      BY <2>1, <2>3
  <1>5. ASSUME NEW m \in {"dest", "prev", "new"}, NEW n \in {"dest", "prev"},
               m # n, name[m] # None, Renames(m, n)
        PROVE  NameInv' /\ name' \in [Names -> Files \cup {None}]
    <2>1. name' \in [Names -> Files \cup {None}]
      BY <1>1, <1>5 DEF FilesOK, Renames
    <2>2. /\ name'[n] = name[m] /\ name'[m] = None
          /\ \A k \in Names \ {m, n} : name'[k] = name[k]
      BY <1>1, <1>5 DEF FilesOK, Renames
    <2>3. NameInv'
      BY <1>1, <1>2, <1>5, <2>2, FileKinds DEF NameInv, Candidates
    <2> QED
      BY <2>1, <2>3
  <1>6. ASSUME OpenBlob(p) PROVE NameInv' /\ name' \in [Names -> Files \cup {None}]
    <2>1. Opened(p, "tmp") \in Archives
      BY <1>1 DEF NameInv, Opened, Archives
    <2>2. name' = [name EXCEPT !["tmp"] = Opened(p, "tmp")]
      BY <1>6 DEF OpenBlob
    <2> QED
      BY <1>1, <1>2, <2>1, <2>2, FileKinds DEF NameInv, FilesOK
  <1>7. ASSUME OpenStaged(p) PROVE NameInv' /\ name' \in [Names -> Files \cup {None}]
    <2>1. /\ Opened(p, "new") \in Candidates
          /\ Opened(p, "new") = name["new"] \/ Opened(p, "new") = <<p, "new">>
      BY <1>1 DEF NameInv, Opened, Candidates
    <2>2. name' = [name EXCEPT !["new"] = Opened(p, "new")] /\ pc[p] \in Early
      BY <1>7 DEF OpenStaged, Early
    <2>3. \A q \in Commands : pc'[q] \in Early => q # p /\ Opened(p, "new") # <<q, "new">>
      BY <1>1, <1>2, <1>7, <2>1, StaysEarly DEF NameInv
    <2>4. Opened(p, "new") # name["dest"] /\ Opened(p, "new") # name["prev"]
      BY <1>1, <2>1, <2>2, FileKinds DEF NameInv
    <2>5. name' \in [Names -> Files \cup {None}]
      BY <1>1, <2>1, <2>2, FileKinds DEF FilesOK
    <2>6. NameInv'
      BY <1>1, <1>2, <2>1, <2>2, <2>3, <2>4, FileKinds DEF NameInv, FilesOK
    <2> QED
      BY <2>5, <2>6
  <1> QED
    BY <1>3, <1>4, <1>5, <1>6, <1>7, NameMoves

(* Which files a step writes to: never one that is in the way of a binary, *)
(* unless two commands stage at once.                                      *)
Writes(f) == \E x \in Pins \cup {None, Partial} : data' = [data EXCEPT ![f] = x]

LEMMA DataMoves ==
    ASSUME Base, NEW p \in Commands, Step(p)
    PROVE  \/ data' = data
           \/ \E f \in Archives : Writes(f)
           \/ (OpenStaged(p) /\ Opened(p, "new") \in Candidates /\ Writes(Opened(p, "new")))
           \/ (WriteStaged(p) /\ staged[p] \in Candidates /\ Writes(staged[p]))
  <1> USE DEF Writes
  <1>0. NameInv /\ FilesOK /\ FrameInv
    BY TypeParts DEF Base
  <1>1. CASE \/ Inspect(p) \/ QuiesceDaemon(p) \/ DaemonRefuses(p)
             \/ QuiesceResident(p) \/ QuiesceUnanswered(p)
             \/ FetchFails(p) \/ ReceiveFails(p) \/ ProbeStaged(p) \/ Confirm(p) \/ Unconfirmed(p)
    BY <1>1 DEF Inspect, QuiesceDaemon, DaemonRefuses, QuiesceResident, QuiesceUnanswered,
                FetchFails, ReceiveFails, ProbeStaged, Confirm, Unconfirmed, files
  <1>2. CASE \/ WakeDaemon(p) \/ ResumeResident(p) \/ Die(p) \/ StagingFails(p) \/ ClearPrev(p)
             \/ RetainFails(p) \/ PublishFails(p) \/ Unretain(p) \/ Cleanup(p)
    BY <1>2 DEF WakeDaemon, ResumeResident, Die, files, StagingFails, ClearPrev, RetainFails,
                PublishFails, Unretain, Cleanup
  <1>3. CASE Retain(p) \/ Publish(p) \/ Rollback(p) \/ RollbackFails(p) \/ RollbackAgain(p)
    BY <1>3 DEF Retain, Publish, Rollback, RollbackFails, RollbackAgain
  <1>4. CASE OpenBlob(p)
    <2>1. Opened(p, "tmp") \in Archives
      BY <1>0 DEF NameInv, Opened, Archives
    <2> QED
      BY <1>4, <2>1 DEF OpenBlob
  <1>5. CASE Receive(p)
    BY <1>0, <1>5 DEF Receive, FrameInv
  <1>6. CASE OpenStaged(p)
    <2>1. Opened(p, "new") \in Candidates
      BY <1>0 DEF NameInv, Opened, Candidates
    <2> QED
      BY <1>6, <2>1 DEF OpenStaged
  <1>7. CASE WriteStaged(p)
    <2>1. blob[p] \in Files /\ staged[p] \in Candidates
      BY <1>0, <1>7, FileKinds DEF WriteStaged, FrameInv
    <2>2. data[blob[p]] \in Pins \cup {None, Partial}
      BY <1>0, <2>1 DEF FilesOK
    <2> QED
      BY <1>7, <2>1, <2>2 DEF WriteStaged
  <1> QED
    BY <1>1, <1>2, <1>3, <1>4, <1>5, <1>6, <1>7 DEF Step

LEMMA FilesStep ==
    ASSUME Base, NEW p \in Commands, Step(p)
    PROVE  FilesOK' /\ data'[Old] = data[Old]
  <1>1. FilesOK
    BY TypeParts DEF Base
  <1>2. data' \in [Files -> Pins \cup {None, Partial}] /\ data'[Old] = data[Old]
    BY <1>1, DataMoves, FileKinds DEF FilesOK, Writes
  <1> QED
    BY <1>2, NameStep DEF FilesOK

LEMMA RestStep ==
    ASSUME Base, NEW p \in Commands, Step(p)
    PROVE  RestOK'
  <1>1. RestOK /\ FilesOK
    BY TypeParts DEF Base
  <1>2. At("dest") \in Pins \cup {None, Partial}
    BY <1>1, AtType DEF Names
  <1>3. CASE \/ FetchFails(p) \/ OpenBlob(p) \/ Receive(p) \/ ReceiveFails(p) \/ OpenStaged(p)
             \/ WriteStaged(p) \/ StagingFails(p) \/ ProbeStaged(p) \/ ClearPrev(p) \/ Retain(p)
             \/ RetainFails(p) \/ Confirm(p) \/ Unconfirmed(p) \/ Rollback(p) \/ RollbackAgain(p)
             \/ Unretain(p) \/ Cleanup(p)
    <2>1. UNCHANGED <<services, history>>
      BY <1>3 DEF FetchFails, OpenBlob, Receive, ReceiveFails, OpenStaged, WriteStaged, StagingFails,
                  ProbeStaged, ClearPrev, Retain, RetainFails, Confirm, Unconfirmed, Rollback,
                  RollbackAgain, Unretain, Cleanup
    <2> QED
      BY <1>1, <2>1 DEF RestOK, services, history
  <1>4. CASE Inspect(p)
    BY <1>1, <1>2, <1>4 DEF Inspect, RestOK, services
  <1>5. CASE QuiesceDaemon(p) \/ DaemonRefuses(p) \/ QuiesceResident(p) \/ QuiesceUnanswered(p)
    BY <1>1, <1>5 DEF QuiesceDaemon, DaemonRefuses, QuiesceResident, QuiesceUnanswered, RestOK,
                      services, history
  <1>6. CASE Publish(p) \/ WakeDaemon(p)
    BY <1>1, <1>6 DEF Publish, WakeDaemon, RestOK, history
  <1>7. CASE PublishFails(p) \/ RollbackFails(p)
    <2>1. cuts' \in 0..MaxCuts
      BY <1>1, <1>7 DEF PublishFails, RollbackFails, RestOK
    <2> QED
      BY <1>1, <1>7, <2>1 DEF PublishFails, RollbackFails, RestOK, services
  <1>8. CASE ResumeResident(p)
    BY <1>1, <1>2, <1>8 DEF ResumeResident, RestOK
  <1>9. CASE Die(p)
    <2>1. cuts' \in 0..MaxCuts
      BY <1>1, <1>9 DEF Die, RestOK
    <2> QED
      BY <1>1, <1>9, <2>1 DEF Die, RestOK
  <1> QED
    BY <1>3, <1>4, <1>5, <1>6, <1>7, <1>8, <1>9 DEF Step

LEMMA BaseStep == Base /\ [Next]_vars => Base'
  <1>1. ASSUME Base, NEW p \in Commands, Step(p) PROVE Base'
    <2>1. FramesOK' /\ FrameInv' /\ NameInv' /\ FilesOK' /\ RestOK'
      BY <1>1, FrameStep, NameStep, FilesStep, RestStep
    <2> QED
      BY <2>1 DEF Base, TypeOK, FramesOK, FilesOK, RestOK
  <1>2. ASSUME Base, UNCHANGED vars PROVE Base'
    BY <1>2 DEF Base, vars, files, frames, services, history, TypeOK, FrameInv, NameInv, InProgress
  <1> QED
    BY <1>1, <1>2 DEF Next

(* The directory, the commands and all they keep have their types, for any *)
(* number of commands in progress at once.                                 *)
THEOREM TypeCorrect == Spec => []TypeOK
  BY BaseInit, BaseStep, PTL DEF Spec, Base

-----------------------------------------------------------------------------
(* What is stopped has somebody in progress who will start it again, or an *)
(* excuse.                                                                 *)
HasDaemon == {q \in InProgress : qd[q] /\ pc[q] # "resume"}
HasResident == {q \in InProgress : qr[q]}
GiveInv ==
    /\ resident = "quiesced" /\ "resident" \notin excused => HasResident # {}
    /\ daemon = "stopped" /\ "daemon" \notin excused => HasDaemon # {}

LEMMA GiveStep ==
    ASSUME Base, GiveInv, NEW p \in Commands, Step(p)
    PROVE  GiveInv'
  <1>1. FramesOK /\ FrameInv
    BY TypeParts DEF Base
  <1>2. HasDaemon \ {p} \subseteq HasDaemon' /\ HasResident \ {p} \subseteq HasResident'
    BY <1>1, OthersStay DEF HasDaemon, HasResident, InProgress
  <1>3. /\ p \in HasDaemon => qd[p] /\ p \in InProgress /\ pc[p] # "resume"
        /\ p \in HasResident => qr[p] /\ p \in InProgress
    BY DEF HasDaemon, HasResident
  <1>4. ASSUME p \in InProgress', UNCHANGED <<qd, qr, daemon, resident>>, excused \subseteq excused',
               pc'[p] = "resume" => pc[p] = "resume"
        PROVE  GiveInv'
    <2>1. (p \in HasDaemon => p \in HasDaemon') /\ (p \in HasResident => p \in HasResident')
      BY <1>3, <1>4 DEF HasDaemon, HasResident
    <2> QED
      BY <1>2, <1>4, <2>1 DEF GiveInv
  <1>5. ASSUME Moves(p), UNCHANGED <<daemon, resident>>, excused \subseteq excused', pc[p] # "wake"
        PROVE  GiveInv'
    <2>1. p \in InProgress' /\ pc'[p] # "resume"
      BY <1>1, <1>5 DEF Moves, Later, FramesOK, InProgress
    <2> QED
      BY <1>4, <1>5, <2>1 DEF Moves, frames
  <1>6. CASE \/ FetchFails(p) \/ Receive(p) \/ ReceiveFails(p) \/ WriteStaged(p) \/ StagingFails(p)
             \/ ProbeStaged(p) \/ ClearPrev(p) \/ Retain(p) \/ RetainFails(p) \/ Publish(p)
    <2>1. UNCHANGED <<daemon, resident>> /\ excused \subseteq excused' /\ pc[p] # "wake"
      BY <1>6 DEF FetchFails, Receive, ReceiveFails, WriteStaged, StagingFails, ProbeStaged,
                  ClearPrev, Retain, RetainFails, Publish, services
    <2> QED
      BY <1>5, <1>6, <2>1, WhoMoves
  <1>7. CASE \/ PublishFails(p) \/ Confirm(p) \/ Unconfirmed(p) \/ Rollback(p) \/ RollbackFails(p)
             \/ RollbackAgain(p) \/ Cleanup(p)
    <2>1. UNCHANGED <<daemon, resident>> /\ excused \subseteq excused' /\ pc[p] # "wake"
      BY <1>7 DEF PublishFails, Confirm, Unconfirmed, Rollback, RollbackFails, RollbackAgain,
                  Cleanup, services
    <2> QED
      BY <1>5, <1>7, <2>1, WhoMoves
  <1>8. CASE OpenBlob(p) \/ OpenStaged(p) \/ Unretain(p)
    <2>1. /\ UNCHANGED <<qd, qr, daemon, resident, excused>>
          /\ pc'[p] \in {"receive", "write", "cleanup"} /\ p \in InProgress'
      BY <1>1, <1>8 DEF OpenBlob, OpenStaged, Unretain, InstallFrame, services, FramesOK, Goto, InProgress
    <2> QED
      BY <1>4, <2>1
  <1>9. CASE Inspect(p)
    <2>1. /\ UNCHANGED <<qd, qr, daemon, resident, excused>> /\ pc'[p] = "daemon" /\ p \in InProgress'
      BY <1>1, <1>9 DEF Inspect, services, FramesOK, Goto, InProgress
    <2> QED
      BY <1>4, <2>1
  <1>10. CASE QuiesceDaemon(p)
    <2>1. p \in InProgress' /\ pc'[p] # "resume" /\ UNCHANGED <<qr, resident, excused>>
      BY <1>1, <1>10 DEF QuiesceDaemon, FramesOK, Goto, InProgress
    <2>2. UNCHANGED <<daemon, qd>> \/ (daemon' = "stopped" /\ qd' = [qd EXCEPT ![p] = TRUE])
      BY <1>10 DEF QuiesceDaemon
    <2>3. CASE UNCHANGED <<daemon, qd>>
      BY <1>4, <2>1, <2>3
    <2>4. CASE daemon' = "stopped" /\ qd' = [qd EXCEPT ![p] = TRUE]
      <3>1. p \in HasDaemon' /\ (p \in HasResident => p \in HasResident')
        BY <1>1, <1>3, <2>1, <2>4 DEF FramesOK, HasDaemon, HasResident
      <3> QED
        BY <1>2, <2>1, <3>1 DEF GiveInv
    <2> QED
      BY <2>2, <2>3, <2>4
  <1>11. CASE QuiesceResident(p)
    <2>1. p \in InProgress' /\ pc'[p] # "resume" /\ UNCHANGED <<qd, daemon, excused>>
      BY <1>1, <1>11 DEF QuiesceResident, FramesOK, Goto, InProgress
    <2>2. UNCHANGED <<resident, qr>> \/ (resident' = "quiesced" /\ qr' = [qr EXCEPT ![p] = TRUE])
      BY <1>11 DEF QuiesceResident
    <2>3. CASE UNCHANGED <<resident, qr>>
      BY <1>4, <2>1, <2>3
    <2>4. CASE resident' = "quiesced" /\ qr' = [qr EXCEPT ![p] = TRUE]
      <3>1. p \in HasResident' /\ (p \in HasDaemon => p \in HasDaemon')
        BY <1>1, <1>3, <2>1, <2>4 DEF FramesOK, HasDaemon, HasResident
      <3> QED
        BY <1>2, <2>1, <3>1 DEF GiveInv
    <2> QED
      BY <2>2, <2>3, <2>4
  <1>12. CASE WakeDaemon(p)
    <2>1. /\ p \in InProgress' /\ UNCHANGED <<qd, qr, resident>>
          /\ "resident" \in excused' <=> "resident" \in excused
      BY <1>1, <1>12 DEF WakeDaemon, FramesOK, Goto, InProgress, frames
    <2>2. \/ daemon' = "running"
          \/ "daemon" \in excused'
          \/ ~qd[p] /\ UNCHANGED <<daemon, excused>>
      BY <1>12 DEF WakeDaemon
    <2>3. p \in HasResident => p \in HasResident'
      BY <1>3, <2>1 DEF HasResident
    <2> QED
      BY <1>2, <1>3, <2>1, <2>2, <2>3 DEF GiveInv
  <1>13. CASE DaemonRefuses(p)
    <2>1. ~qr[p] /\ UNCHANGED <<daemon, resident, excused>> /\ daemon = "running"
      BY <1>1, <1>13 DEF DaemonRefuses, HoldsDaemon, FrameInv, services
    <2> QED
      BY <1>2, <1>3, <2>1 DEF GiveInv
  <1>16. CASE QuiesceUnanswered(p)
    <2>1. UNCHANGED daemon /\ excused \subseteq excused' /\ "resident" \in excused'
      BY <1>16 DEF QuiesceUnanswered
    <2>2. ~qd[p] \/ "daemon" \in excused'
      BY <1>16 DEF QuiesceUnanswered
    <2> QED
      BY <1>2, <1>3, <2>1, <2>2 DEF GiveInv
  <1>14. CASE ResumeResident(p)
    <2>1. daemon' = daemon /\ ("daemon" \in excused' <=> "daemon" \in excused) /\ pc[p] = "resume"
      BY <1>14 DEF ResumeResident
    <2>2. \/ resident' = "serving"
          \/ "resident" \in excused'
          \/ ~qr[p] /\ UNCHANGED <<resident, excused>>
      BY <1>14 DEF ResumeResident
    <2> QED
      BY <1>2, <1>3, <2>1, <2>2 DEF GiveInv
  <1>15. CASE Die(p)
    <2>1. /\ UNCHANGED <<daemon, resident>> /\ excused \subseteq excused'
          /\ qd[p] => "daemon" \in excused'
          /\ qr[p] => "resident" \in excused'
      BY <1>15 DEF Die
    <2> QED
      BY <1>2, <1>3, <2>1 DEF GiveInv
  <1> QED
    BY <1>6, <1>7, <1>8, <1>9, <1>10, <1>11, <1>12, <1>13, <1>14, <1>15, <1>16
       DEF Step

LEMMA GiveInit == Init => GiveInv
  BY DEF Init, GiveInv

-----------------------------------------------------------------------------
(* One command at a time: what it finds at each name, where it stands.     *)
Sole == \A p, q \in InProgress : p = q
StagedInv == \A p \in Commands : pc[p] = "write" => staged[p] = name["new"]
WholeInv == \A n \in {"dest", "prev"} : name[n] # None => At(n) \in Pins

\* The target is what it was, what was asked for, or out of the way.
Position(p) ==
    /\ pc[p] \in Untouched => At("dest") = before
    /\ pc[p] \in {"clear", "retain", "publish"} => At("new") = pin[p]
    /\ pc[p] = "retain" => name["prev"] = None
    /\ pc[p] \in {"publish", "again"} => name["dest"] = None
    /\ pc[p] \in {"publish", "confirm", "rollback", "again"} => At("prev") = before
    /\ pc[p] \in {"confirm", "rollback", "unretain"} => At("dest") = pin[p]
    /\ pc[p] = "again" => harmed
    /\ pc[p] \in Ending =>
          IF ok[p] THEN At("dest") = pin[p]
          ELSE \/ At("dest") = before
               \/ before = None /\ At("dest") = pin[p]
               \/ harmed /\ At("dest") \in {pin[p], None}

CalmInv == calm =>
    Sole /\ StagedInv /\ WholeInv /\ \A p \in InProgress : Position(p)

LEMMA AtNone ==
    ASSUME Base, WholeInv, NEW n \in {"dest", "prev"}
    PROVE  (At(n) = None <=> name[n] = None) /\ At(n) \in Pins \cup {None}
  BY DEF WholeInv, At

\* Nobody else is in progress before or after a step after which all is calm.
LEMMA Alone ==
    ASSUME Base, CalmInv, NEW p \in Commands, Step(p), calm'
    PROVE  /\ calm
           /\ InProgress \subseteq {p} /\ InProgress' \subseteq {p}
           /\ Inspect(p) => InProgress = {}
           /\ ~Inspect(p) => InProgress = {p}
  <1>1. FramesOK
    BY TypeParts DEF Base
  <1>2. CASE Inspect(p)
    <2>1. overlapped' = (overlapped \/ InProgress # {})
      BY <1>2 DEF Inspect
    <2>2. ~overlapped /\ InProgress = {}
      BY <2>1 DEF calm
    <2>3. InProgress' \subseteq {p}
      BY <1>1, <2>2, OthersStay DEF InProgress
    <2> QED
      BY <1>2, <2>2, <2>3 DEF calm
  <1>3. CASE ~Inspect(p)
    <2>1. overlapped' = overlapped /\ p \in InProgress
      <3>1. CASE \/ QuiesceDaemon(p) \/ DaemonRefuses(p) \/ QuiesceResident(p) \/ QuiesceUnanswered(p)
                 \/ FetchFails(p) \/ OpenBlob(p) \/ Receive(p) \/ ReceiveFails(p)
        BY <3>1 DEF QuiesceDaemon, DaemonRefuses, QuiesceResident, QuiesceUnanswered, FetchFails,
                    OpenBlob, Receive, ReceiveFails, history, InProgress
      <3>2. CASE \/ OpenStaged(p) \/ WriteStaged(p) \/ StagingFails(p) \/ ProbeStaged(p)
                 \/ ClearPrev(p) \/ Retain(p) \/ RetainFails(p) \/ Publish(p) \/ PublishFails(p)
        BY <3>2 DEF OpenStaged, WriteStaged, StagingFails, ProbeStaged, ClearPrev, Retain,
                    RetainFails, Publish, PublishFails, history, InProgress
      <3>3. CASE \/ Confirm(p) \/ Unconfirmed(p) \/ Rollback(p) \/ RollbackFails(p)
                 \/ RollbackAgain(p) \/ Unretain(p) \/ Cleanup(p) \/ WakeDaemon(p)
                 \/ ResumeResident(p) \/ Die(p)
        BY <3>3 DEF Confirm, Unconfirmed, Rollback, RollbackFails, RollbackAgain, Unretain,
                    Cleanup, WakeDaemon, ResumeResident, Die, history, InProgress
      <3> QED
        BY <1>3, <3>1, <3>2, <3>3 DEF Step
    <2>2. calm /\ InProgress \subseteq {p}
      BY <2>1 DEF calm, CalmInv, Sole
    <2>3. InProgress' \subseteq {p}
      BY <1>1, <2>2, OthersStay DEF InProgress
    <2> QED
      BY <1>3, <2>1, <2>2, <2>3
  <1> QED
    BY <1>2, <1>3

\* Nobody writes to a binary; the candidate is written to while it is staged.
LEMMA BinariesKept ==
    ASSUME Base, CalmInv, NEW p \in Commands, Step(p), calm'
    PROVE  /\ \A n \in {"dest", "prev"} : name[n] # None => data'[name[n]] = data[name[n]]
           /\ name["new"] # None /\ ~OpenStaged(p) /\ ~WriteStaged(p)
                 => data'[name["new"]] = data[name["new"]]
  <1>1. NameInv /\ FilesOK
    BY TypeParts DEF Base
  <1>2. CalmInv /\ calm
    BY Alone
  <1>3. CASE data' = data
    BY <1>3
  <1>4. ASSUME NEW f \in Archives, Writes(f) PROVE \A g \in Files \ {f} : data'[g] = data[g]
    BY <1>1, <1>4 DEF Writes, FilesOK
  <1>5. CASE \E f \in Archives : Writes(f)
    <2>1. \A n \in {"dest", "prev", "new"} : name[n] # None => name[n] \in Files /\ name[n] \notin Archives
      BY <1>1, FileKinds DEF NameInv
    <2> QED
      BY <1>4, <1>5, <2>1
  <1>6. CASE OpenStaged(p) /\ Opened(p, "new") \in Candidates /\ Writes(Opened(p, "new"))
    <2>1. Opened(p, "new") = name["new"] \/ (Opened(p, "new") = <<p, "new">> /\ pc[p] \in Early)
      BY <1>6 DEF Opened, OpenStaged, Early
    <2>2. name["dest"] # Opened(p, "new") /\ name["prev"] # Opened(p, "new")
      BY <1>1, <1>6, <2>1, FileKinds DEF NameInv
    <2> QED
      BY <1>6, <2>2, FileKinds DEF Writes
  <1>7. CASE WriteStaged(p) /\ staged[p] \in Candidates /\ Writes(staged[p])
    <2>1. staged[p] = name["new"]
      BY <1>2, <1>7 DEF CalmInv, StagedInv, WriteStaged
    <2>2. \A n \in {"dest", "prev"} : name[n] # None => name[n] # staged[p]
      BY <1>1, <2>1 DEF NameInv
    <2> QED
      BY <1>1, <1>7, <2>2 DEF Writes, FilesOK
  <1> QED
    BY <1>3, <1>5, <1>6, <1>7, DataMoves

\* So a binary has the same content wherever it is renamed to.
LEMMA Contents ==
    ASSUME Base, CalmInv, NEW p \in Commands, Step(p), calm'
    PROVE  /\ \A m, n \in {"dest", "prev"} : name'[m] = name[n] => At(m)' = At(n)
           /\ ~OpenStaged(p) /\ ~WriteStaged(p) =>
                 \A m \in {"dest", "new"} : name'[m] = name["new"] => At(m)' = At("new")
           /\ \A m \in Names : name'[m] = None => At(m)' = None
  BY BinariesKept DEF At

LEMMA StagedStep ==
    ASSUME Base, CalmInv, NEW p \in Commands, Step(p), calm'
    PROVE  StagedInv'
  <1>1. FramesOK /\ FilesOK
    BY TypeParts DEF Base
  <1>2. ASSUME NEW q \in Commands, pc'[q] = "write" PROVE staged'[q] = name'["new"]
    <2>1. q = p
      BY <1>2, Alone DEF InProgress
    <2>2. CASE OpenStaged(p)
      BY <1>1, <2>1, <2>2 DEF OpenStaged, FramesOK, FilesOK, Names
    <2>3. CASE Moves(p)
      BY <1>1, <1>2, <2>1, <2>3 DEF Moves, Later, FramesOK
    <2>4. CASE \E l \in {"done", "dead"} : End(p, l)
      BY <1>1, <1>2, <2>1, <2>4 DEF End, Goto, FramesOK
    <2>5. CASE Inspect(p) \/ QuiesceDaemon(p) \/ QuiesceResident(p) \/ OpenBlob(p) \/ Unretain(p)
      BY <1>1, <1>2, <2>1, <2>5 DEF Inspect, QuiesceDaemon, QuiesceResident, OpenBlob, Unretain,
                                    Goto, FramesOK
    <2> QED
      BY <2>2, <2>3, <2>4, <2>5, WhoMoves, WhoEnds DEF Step
  <1> QED
    BY <1>2 DEF StagedInv

LEMMA WholeStep ==
    ASSUME Base, CalmInv, NEW p \in Commands, Step(p), calm'
    PROVE  WholeInv'
  <1>1. FilesOK /\ FrameInv
    BY TypeParts DEF Base
  <1>2. calm /\ WholeInv /\ (p \in InProgress => Position(p))
    BY Alone DEF CalmInv
  <1>3. ASSUME \A m \in {"dest", "prev"} : \E n \in {"dest", "prev"} : name'[m] \in {name[n], None}
        PROVE  WholeInv'
    BY <1>2, <1>3, Contents DEF WholeInv
  <1>4. CASE name' = name
    BY <1>3, <1>4
  <1>5. CASE OpenBlob(p) \/ OpenStaged(p)
    BY <1>1, <1>3, <1>5 DEF OpenBlob, OpenStaged, FilesOK, Names
  <1>6. CASE Publish(p)
    <2>1. At("new") \in Pins
      BY <1>1, <1>2, <1>6 DEF Publish, InProgress, Position, FrameInv
    <2>2. name'["dest"] = name["new"] /\ name'["prev"] = name["prev"]
      BY <1>1, <1>6 DEF Publish, FilesOK, Names
    <2>3. ~OpenStaged(p) /\ ~WriteStaged(p)
      BY <1>6 DEF Publish, OpenStaged, WriteStaged
    <2> QED
      BY <1>2, <2>1, <2>2, <2>3, Contents DEF WholeInv
  <1>7. CASE Retain(p) \/ Rollback(p) \/ RollbackFails(p) \/ RollbackAgain(p)
    BY <1>1, <1>3, <1>7 DEF Retain, Rollback, RollbackFails, RollbackAgain, FilesOK, Names
  <1>8. CASE \/ StagingFails(p) \/ ClearPrev(p) \/ RetainFails(p) \/ PublishFails(p)
              \/ Unretain(p) \/ Cleanup(p)
    BY <1>1, <1>3, <1>8 DEF StagingFails, ClearPrev, RetainFails, PublishFails, Unretain, Cleanup,
                             FilesOK, Names
  <1>9. CASE \/ Inspect(p) \/ QuiesceDaemon(p) \/ DaemonRefuses(p)
              \/ QuiesceResident(p) \/ QuiesceUnanswered(p)
              \/ FetchFails(p) \/ Receive(p) \/ ReceiveFails(p)
    BY <1>4, <1>9 DEF Inspect, QuiesceDaemon, DaemonRefuses, QuiesceResident, QuiesceUnanswered,
                       FetchFails, Receive, ReceiveFails, files
  <1>10. CASE \/ WriteStaged(p) \/ ProbeStaged(p) \/ Confirm(p) \/ Unconfirmed(p)
              \/ WakeDaemon(p) \/ ResumeResident(p) \/ Die(p)
    BY <1>4, <1>10 DEF WriteStaged, ProbeStaged, Confirm, Unconfirmed, WakeDaemon, ResumeResident,
                       Die, files
  <1> QED
    BY <1>5, <1>6, <1>7, <1>8, <1>9, <1>10 DEF Step

LEMMA PositionStep ==
    ASSUME Base, CalmInv, NEW p \in Commands, Step(p), calm', p \in InProgress'
    PROVE  Position(p)'
  <1>1. FilesOK /\ FramesOK /\ FrameInv
    BY TypeParts DEF Base
  <1>2. calm /\ WholeInv /\ (p \in InProgress => Position(p))
    BY Alone DEF CalmInv
  <1>3. At("prev") = None <=> name["prev"] = None
    BY <1>2, AtNone
  <1>4. /\ \A m, n \in {"dest", "prev"} : name'[m] = name[n] => At(m)' = At(n)
        /\ ~OpenStaged(p) /\ ~WriteStaged(p) =>
              \A m \in {"dest", "new"} : name'[m] = name["new"] => At(m)' = At("new")
        /\ \A m \in Names : name'[m] = None => At(m)' = None
    BY Contents
  <1>5. /\ ~ok[p] \/ pc[p] \in Ending
        /\ p \in InProgress => pin[p] \in Pins
    BY <1>1 DEF FrameInv
  <1> USE DEF Names
  \* The target and what it was are not touched.
  <1>6. ASSUME p \in InProgress, pc[p] \in Untouched, name'["dest"] = name["dest"],
               UNCHANGED <<before, ok>>, pc'[p] \in Untouched \cup Ending,
               pc'[p] \notin {"clear", "retain"}
        PROVE  Position(p)'
    <2>1. At("dest")' = before' /\ ~ok'[p]
      BY <1>2, <1>4, <1>5, <1>6 DEF Position, Untouched, Ending
    <2> QED
      BY <1>6, <2>1 DEF Position, Untouched, Ending
  <1>7. CASE Inspect(p)
    <2>1. pc'[p] = "daemon" /\ before' = At("dest") /\ name' = name
      BY <1>1, <1>7 DEF Inspect, Goto, FramesOK, files
    <2>2. At("dest")' = before'
      BY <1>4, <2>1
    <2> QED
      BY <2>1, <2>2 DEF Position, Untouched, Ending
  <1>8. CASE QuiesceDaemon(p) \/ QuiesceResident(p) \/ FetchFails(p) \/ OpenBlob(p) \/ Receive(p)
    <2>1. /\ pc[p] \in {"daemon", "resident", "fetch", "receive"} /\ name'["dest"] = name["dest"]
          /\ UNCHANGED <<before, ok>>
          /\ pc'[p] \in {"resident", "fetch", "wake", "receive", "extract"}
      BY <1>1, <1>8 DEF QuiesceDaemon, QuiesceResident, FetchFails, OpenBlob, Receive, files, frames,
                        history, Goto, FramesOK, FilesOK
    <2> QED
      BY <1>6, <2>1 DEF Untouched, Ending, InProgress
  <1>9. CASE ReceiveFails(p) \/ OpenStaged(p) \/ WriteStaged(p) \/ StagingFails(p) \/ RetainFails(p)
    <2>1. /\ pc[p] \in {"receive", "extract", "write", "probe", "clear", "retain"}
          /\ name'["dest"] = name["dest"]
          /\ UNCHANGED <<before, ok>>
          /\ pc'[p] \in {"cleanup", "write", "probe"}
      BY <1>1, <1>9 DEF ReceiveFails, OpenStaged, WriteStaged, StagingFails, RetainFails, files, frames,
                        history, Goto, FramesOK, FilesOK
    <2> QED
      BY <1>6, <2>1 DEF Untouched, Ending, InProgress
  <1>10. CASE ProbeStaged(p)
    <2>1. /\ pc[p] = "probe" /\ pc'[p] = "clear" /\ At("new") = pin[p]
          /\ UNCHANGED <<name, data, before, pin, ok>>
      BY <1>1, <1>10 DEF ProbeStaged, Reports, files, frames, history, Goto, FramesOK
    <2>2. At("dest") = before /\ At("dest")' = At("dest") /\ At("new")' = At("new")
      BY <1>2, <2>1 DEF Position, InProgress, Untouched, At
    <2> QED
      BY <1>5, <2>1, <2>2 DEF Position, Untouched, Ending, InProgress
  <1>11. CASE ClearPrev(p)
    <2>1. /\ pc[p] = "clear" /\ pc'[p] = "retain"
          /\ name' = [name EXCEPT !["prev"] = None] /\ UNCHANGED <<data, before, pin, ok>>
      BY <1>1, <1>11 DEF ClearPrev, frames, history, Goto, FramesOK
    <2>2. At("dest")' = At("dest") /\ At("new")' = At("new") /\ name'["prev"] = None
      BY <1>1, <2>1 DEF At, FilesOK
    <2> QED
      BY <1>2, <1>5, <2>1, <2>2 DEF Position, Untouched, Ending, InProgress
  <1>12. CASE Retain(p)
    <2>1. /\ pc[p] = "retain" /\ pc'[p] = "publish" /\ UNCHANGED <<data, before, pin, ok>>
          /\ name' = IF name["dest"] = None THEN name
                     ELSE [name EXCEPT !["prev"] = name["dest"], !["dest"] = None]
      BY <1>1, <1>12 DEF Retain, frames, history, Goto, FramesOK
    <2>2. At("dest") = before /\ At("new") = pin[p] /\ name["prev"] = None
      BY <1>2, <2>1 DEF Position, Untouched, InProgress
    <2>3. At("new")' = At("new") /\ name'["dest"] = None /\ At("prev")' = before
      BY <1>1, <1>3, <2>1, <2>2 DEF At, FilesOK
    <2> QED
      BY <1>5, <2>1, <2>2, <2>3 DEF Position, Untouched, Ending, InProgress
  <1>13. CASE Publish(p)
    <2>1. /\ pc[p] = "publish" /\ pc'[p] = "confirm" /\ UNCHANGED <<data, before, pin, ok>>
          /\ name' = [name EXCEPT !["dest"] = name["new"], !["new"] = None]
      BY <1>1, <1>13 DEF Publish, frames, history, Goto, FramesOK
    <2>2. At("prev")' = At("prev") /\ At("dest")' = At("new")
      BY <1>1, <2>1 DEF At, FilesOK
    <2> QED
      BY <1>2, <1>5, <2>1, <2>2 DEF Position, Untouched, Ending, InProgress
  <1>14. CASE PublishFails(p)
    <2>1. /\ pc[p] = "publish" /\ pc'[p] = "cleanup" /\ UNCHANGED <<before, pin, ok>>
          /\ name["new"] = None \/ harmed'
          /\ name'["dest"] = name["dest"]
      BY <1>1, <1>14 DEF PublishFails, frames, Goto, FramesOK, FilesOK
    <2>2. name["dest"] = None /\ At("new") = pin[p]
      BY <1>2, <2>1 DEF Position, InProgress
    <2>3. name["new"] # None
      BY <1>5, <2>1, <2>2 DEF At, InProgress
    <2>4. At("dest")' = None
      BY <1>4, <2>1, <2>2
    <2> QED
      BY <1>5, <2>1, <2>3, <2>4 DEF Position, Untouched, Ending
  <1>15. CASE Confirm(p) \/ Unconfirmed(p)
    <2>1. /\ pc[p] = "confirm" /\ pc'[p] \in {"unretain", "rollback"} /\ UNCHANGED <<name, data, before, pin, ok>>
      BY <1>1, <1>15 DEF Confirm, Unconfirmed, files, frames, history, Goto, FramesOK
    <2>2. At("dest")' = At("dest") /\ At("prev")' = At("prev")
      BY <2>1 DEF At
    <2> QED
      BY <1>2, <1>5, <2>1, <2>2 DEF Position, Untouched, Ending, InProgress
  <1>16. CASE Rollback(p)
    <2>1. /\ pc[p] = "rollback" /\ pc'[p] = "cleanup" /\ UNCHANGED <<data, before, pin, ok>>
          /\ name' = IF name["prev"] = None THEN name
                     ELSE [name EXCEPT !["dest"] = name["prev"], !["prev"] = None]
      BY <1>1, <1>16 DEF Rollback, frames, history, Goto, FramesOK
    <2>2. At("prev") = before /\ At("dest") = pin[p]
      BY <1>2, <2>1 DEF Position, InProgress
    <2>3. At("dest")' = before \/ (before = None /\ At("dest")' = pin[p])
      BY <1>1, <1>3, <2>1, <2>2 DEF At, FilesOK
    <2> QED
      BY <1>5, <2>1, <2>3 DEF Position, Untouched, Ending
  <1>17. CASE RollbackFails(p)
    <2>1. /\ pc[p] = "rollback" /\ UNCHANGED <<data, before, pin, ok>> /\ harmed'
          /\ \/ pc'[p] = "again" /\ name' = [name EXCEPT !["dest"] = None]
             \/ pc'[p] = "cleanup" /\ name' = name
      BY <1>1, <1>17 DEF RollbackFails, frames, Goto, FramesOK
    <2>2. At("prev") = before /\ At("dest") = pin[p]
      BY <1>2, <2>1 DEF Position, InProgress
    <2>3. At("prev")' = At("prev") /\ (name' = name => At("dest")' = At("dest"))
      BY <1>1, <2>1 DEF At, FilesOK
    <2>4. pc'[p] = "again" => name'["dest"] = None
      BY <1>1, <2>1 DEF FilesOK
    <2> QED
      BY <1>5, <2>1, <2>2, <2>3, <2>4 DEF Position, Untouched, Ending
  <1>18. CASE RollbackAgain(p)
    <2>1. /\ pc[p] = "again" /\ pc'[p] = "cleanup" /\ UNCHANGED <<data, before, pin, ok, harmed>>
          /\ name' \in {name, [name EXCEPT !["dest"] = name["prev"], !["prev"] = None]}
      BY <1>1, <1>18 DEF RollbackAgain, frames, history, Goto, FramesOK
    <2>2. At("prev") = before /\ name["dest"] = None /\ harmed
      BY <1>2, <2>1 DEF Position, InProgress
    <2>3. At("dest")' \in {before, None}
      BY <1>1, <2>1, <2>2 DEF At, FilesOK
    <2> QED
      BY <1>5, <2>1, <2>2, <2>3 DEF Position, Untouched, Ending
  <1>19. CASE Unretain(p)
    <2>1. /\ pc[p] = "unretain" /\ pc'[p] = "cleanup" /\ ok'[p] /\ UNCHANGED pin
          /\ name'["dest"] = name["dest"]
      BY <1>1, <1>19 DEF Unretain, InstallFrame, Goto, FramesOK, FilesOK
    <2>2. At("dest") = pin[p] /\ At("dest")' = At("dest")
      BY <1>2, <1>4, <2>1 DEF Position, InProgress
    <2> QED
      BY <2>1, <2>2 DEF Position, Untouched, Ending
  <1>20. CASE Cleanup(p) \/ WakeDaemon(p)
    <2>1. /\ pc[p] \in Ending /\ pc'[p] \in Ending /\ UNCHANGED <<before, pin, ok, harmed>>
          /\ name'["dest"] = name["dest"] /\ p \in InProgress
      BY <1>1, <1>20 DEF Cleanup, WakeDaemon, files, frames, history, Goto, FramesOK, FilesOK, Ending,
                         InProgress
    <2>2. At("dest")' = At("dest")
      BY <1>4, <2>1
    <2> QED
      BY <1>2, <2>1, <2>2 DEF Position, Untouched, Ending
  <1>21. ASSUME NEW l \in {"done", "dead"}, End(p, l) PROVE FALSE
    BY <1>1, <1>21 DEF End, Goto, FramesOK, InProgress
  <1> QED
    BY <1>7, <1>8, <1>9, <1>10, <1>11, <1>12, <1>13, <1>14, <1>15, <1>16, <1>17, <1>18, <1>19, <1>20,
       <1>21, WhoEnds DEF Step

LEMMA CalmStep == Base /\ CalmInv /\ [Next]_vars => CalmInv'
  <1>1. ASSUME Base, CalmInv, NEW p \in Commands, Step(p), calm'
        PROVE  Sole' /\ StagedInv' /\ WholeInv' /\ \A q \in InProgress' : Position(q)'
    <2>1. \A q \in InProgress' : q = p
      BY <1>1, Alone
    <2> QED
      BY <1>1, <2>1, StagedStep, WholeStep, PositionStep DEF Sole
  <1>2. ASSUME CalmInv, UNCHANGED vars PROVE CalmInv'
    BY <1>2 DEF CalmInv, Sole, StagedInv, WholeInv, Position, At, InProgress, calm,
                vars, files, frames, services, history
  <1> QED
    BY <1>1, <1>2 DEF Next, CalmInv

LEMMA CalmInit == Init => CalmInv
  <1> SUFFICES ASSUME Init PROVE CalmInv
    OBVIOUS
  <1>1. PICK v \in Pins \cup {None} :
           /\ name = [n \in Names |-> IF n = "dest" /\ v # None THEN Old ELSE None]
           /\ data = [f \in Files |-> IF f = Old THEN v ELSE None]
    BY DEF Init
  <1>2. InProgress = {} /\ \A p \in Commands : pc[p] # "write"
    BY DEF Init, InProgress
  <1>3. WholeInv
    BY <1>1, FileKinds DEF WholeInv, At, Names
  <1> QED
    BY <1>2, <1>3 DEF CalmInv, Sole, StagedInv

LEMMA CalmAlways == Spec => [](Base /\ CalmInv)
  BY BaseInit, BaseStep, CalmInit, CalmStep, PTL DEF Spec

LEMMA PositionShows ==
    ASSUME Base, NEW p \in InProgress, Position(p)
    PROVE  At("dest") \in {None, before, pin[p]}
  <1>1. FramesOK
    BY TypeParts DEF Base
  <1>2. pc[p] \in Untouched \cup Ending \cup {"publish", "confirm", "rollback", "again", "unretain"}
    BY <1>1 DEF FramesOK, InProgress, Steps, Untouched, Ending
  <1>3. pc[p] \in {"publish", "again"} => At("dest") = None
    BY DEF Position, At
  <1> QED
    BY <1>2, <1>3 DEF Position

(* Wherever an install stands, whatever has failed or been killed: the     *)
(* target is the binary it found, one that has reported the pin, or out of *)
(* the way.                                                                *)
THEOREM TargetIsProbed == Spec => []DestIsProbed
  <1>1. Base /\ CalmInv => DestIsProbed
    BY PositionShows DEF DestIsProbed, CalmInv
  <1> QED
    BY <1>1, CalmAlways, PTL

-----------------------------------------------------------------------------
(* A binary there was is never lost to one cut. Until a cut it is at the   *)
(* target but for the moment between the two renames; after one it is at   *)
(* the target or retained, until the candidate that replaces it is whole.  *)
Kept ==
    /\ name["dest"] # None \/ name["prev"] # None
    /\ cuts = 0 => name["dest"] # None

Safe(p) ==
    /\ pc[p] \in (Untouched \ {"retain"}) \cup Ending => Kept
    /\ pc[p] = "retain" /\ cuts = 0 => name["dest"] # None
    /\ pc[p] = "publish" /\ cuts = 0 => name["prev"] # None
    /\ pc[p] = "again" => name["prev"] # None /\ cuts # 0

SafeInv ==
    calm /\ cuts <= 1 /\ data[Old] # None =>
        /\ InProgress = {} => Kept
        /\ \A p \in InProgress : Safe(p)

\* While it waits for its verdict, a binary is at the target.
LEMMA Published ==
    ASSUME Base, CalmInv, calm, NEW p \in InProgress
    PROVE  /\ pc[p] \in {"confirm", "rollback", "unretain"} => name["dest"] # None
           /\ pc[p] \in {"clear", "retain", "publish"} => name["new"] # None
  <1>1. pin[p] \in Pins /\ Position(p)
    BY TypeParts DEF Base, FrameInv, CalmInv, InProgress
  <1> QED
    BY <1>1 DEF Position, At

LEMMA SafeStep ==
    ASSUME Base, CalmInv, SafeInv, NEW p \in Commands, Step(p)
    PROVE  SafeInv'
  <1> SUFFICES ASSUME calm', cuts' <= 1, data'[Old] # None
               PROVE  (InProgress' = {} => Kept') /\ (p \in InProgress' => Safe(p)')
    BY Alone DEF SafeInv
  <1> USE DEF Names
  <1>1. FilesOK /\ FramesOK /\ RestOK
    BY TypeParts DEF Base
  <1>2. cuts \in Nat
    BY <1>1 DEF RestOK
  <1>3. calm /\ data[Old] # None /\ InProgress' \subseteq {p}
    BY Alone, FilesStep
  <1>4. ASSUME cuts <= 1, ~Inspect(p) PROVE p \in InProgress /\ Safe(p)
    BY <1>3, <1>4, Alone DEF SafeInv
  <1>5. p \in InProgress =>
           /\ pc[p] \in {"confirm", "rollback", "unretain"} => name["dest"] # None
           /\ pc[p] \in {"clear", "retain", "publish"} => name["new"] # None
    BY <1>3, Published
  \* The binary stays where it is.
  <1>6. ASSUME Kept, cuts' = cuts, name'["dest"] = name["dest"], name'["prev"] = name["prev"],
               pc'[p] \in (Untouched \ {"retain"}) \cup Ending \cup {"done"}
        PROVE  (InProgress' = {} => Kept') /\ (p \in InProgress' => Safe(p)')
    BY <1>6 DEF Kept, Safe, Untouched, Ending, InProgress
  <1>7. CASE Inspect(p)
    <2>1. InProgress = {} /\ cuts' = cuts
      BY <1>7, Alone DEF Inspect
    <2>2. Kept /\ name' = name /\ pc'[p] = "daemon"
      BY <1>1, <1>3, <1>7, <2>1 DEF SafeInv, Inspect, files, Goto, FramesOK
    <2> QED
      BY <1>6, <2>1, <2>2 DEF Untouched
  <1>8. CASE \/ QuiesceDaemon(p) \/ DaemonRefuses(p) \/ QuiesceResident(p) \/ QuiesceUnanswered(p)
             \/ FetchFails(p) \/ OpenBlob(p) \/ Receive(p) \/ ReceiveFails(p)
    <2>1. /\ pc[p] \in {"daemon", "resident", "fetch", "receive"}
          /\ cuts' = cuts /\ name'["dest"] = name["dest"] /\ name'["prev"] = name["prev"]
          /\ pc'[p] \in {"resident", "fetch", "wake", "receive", "extract", "cleanup", "done"}
      BY <1>1, <1>8 DEF QuiesceDaemon, DaemonRefuses, QuiesceResident, QuiesceUnanswered, FetchFails,
                        OpenBlob, Receive, ReceiveFails, files, history, Goto, End, FramesOK, FilesOK
    <2>2. Kept
      BY <1>4, <2>1, <1>8 DEF Safe, Untouched, Inspect
    <2> QED
      BY <1>6, <2>1, <2>2 DEF Untouched, Ending
  <1>9. CASE OpenStaged(p) \/ WriteStaged(p) \/ StagingFails(p) \/ ProbeStaged(p)
    <2>1. /\ pc[p] \in {"extract", "write", "probe"}
          /\ cuts' = cuts /\ name'["dest"] = name["dest"] /\ name'["prev"] = name["prev"]
          /\ pc'[p] \in {"write", "probe", "clear", "cleanup"}
      BY <1>1, <1>9 DEF OpenStaged, WriteStaged, StagingFails, ProbeStaged, files, history, Goto,
                        FramesOK, FilesOK
    <2>2. Kept
      BY <1>4, <2>1 DEF Safe, Untouched, Inspect
    <2> QED
      BY <1>6, <2>1, <2>2 DEF Untouched, Ending
  <1>10. CASE ClearPrev(p)
    <2>1. /\ pc[p] = "clear" /\ pc'[p] = "retain" /\ cuts' = cuts
          /\ name' = [name EXCEPT !["prev"] = None]
      BY <1>1, <1>10 DEF ClearPrev, history, Goto, FramesOK
    <2>2. Kept /\ p \in InProgress' /\ name'["dest"] = name["dest"]
      BY <1>1, <1>4, <2>1 DEF Safe, Untouched, Inspect, InProgress, FilesOK
    <2> QED
      BY <2>1, <2>2 DEF Kept, Safe, Untouched, Ending
  <1>11. CASE Retain(p)
    <2>1. /\ pc[p] = "retain" /\ pc'[p] = "publish" /\ cuts' = cuts
          /\ name["dest"] # None => name'["prev"] = name["dest"]
      BY <1>1, <1>11 DEF Retain, history, Goto, FramesOK, FilesOK
    <2>2. (cuts = 0 => name["dest"] # None) /\ p \in InProgress'
      BY <1>4, <2>1 DEF Safe, Inspect, InProgress
    <2> QED
      BY <2>1, <2>2 DEF Safe, Untouched, Ending
  <1>12. CASE RetainFails(p)
    <2>1. /\ pc[p] = "clear" \/ (pc[p] = "retain" /\ name["dest"] # None)
          /\ pc'[p] = "cleanup" /\ cuts' = cuts
          /\ name'["dest"] = name["dest"] /\ name'["prev"] = name["prev"]
      BY <1>1, <1>12 DEF RetainFails, history, Goto, FramesOK, FilesOK
    <2>2. Kept
      BY <1>4, <2>1 DEF Safe, Untouched, Inspect, Kept
    <2> QED
      BY <1>6, <2>1, <2>2 DEF Untouched, Ending
  <1>13. CASE Publish(p)
    <2>1. pc'[p] = "confirm"
      BY <1>1, <1>13 DEF Publish, Goto, FramesOK
    <2> QED
      BY <2>1 DEF Safe, Untouched, Ending, InProgress
  <1>14. CASE PublishFails(p)
    <2>1. /\ pc[p] = "publish" /\ pc'[p] = "cleanup"
          /\ name["new"] = None \/ cuts' = cuts + 1
          /\ name'["prev"] = name["prev"]
      BY <1>1, <1>14 DEF PublishFails, Goto, FramesOK, FilesOK
    <2>2. cuts' = cuts + 1
      BY <1>5, <2>1 DEF InProgress
    <2>3. cuts = 0 /\ cuts' = 1
      BY <1>2, <2>2
    <2>4. name["prev"] # None /\ p \in InProgress'
      BY <1>4, <2>1, <2>3 DEF Safe, Inspect, InProgress
    <2> QED
      BY <2>1, <2>3, <2>4 DEF Safe, Kept, Untouched, Ending
  <1>15. CASE Confirm(p) \/ Unconfirmed(p)
    <2>1. pc'[p] \in {"unretain", "rollback"}
      BY <1>1, <1>15 DEF Confirm, Unconfirmed, Goto, FramesOK
    <2> QED
      BY <2>1 DEF Safe, Untouched, Ending, InProgress
  <1>16. CASE Rollback(p) \/ Unretain(p)
    <2>1. /\ pc[p] \in {"rollback", "unretain"} /\ pc'[p] = "cleanup"
          /\ name["dest"] # None => name'["dest"] # None
      BY <1>1, <1>16 DEF Rollback, Unretain, Goto, FramesOK, FilesOK
    <2>2. name["dest"] # None /\ p \in InProgress'
      BY <1>5, <2>1 DEF InProgress
    <2> QED
      BY <2>1, <2>2 DEF Safe, Kept, Untouched, Ending
  <1>17. CASE RollbackFails(p)
    <2>1. /\ pc[p] = "rollback" /\ pc'[p] \in {"again", "cleanup"}
          /\ name["prev"] # None /\ cuts' = cuts + 1 /\ name'["prev"] = name["prev"]
      BY <1>1, <1>17 DEF RollbackFails, Goto, FramesOK, FilesOK
    <2>2. cuts' # 0 /\ p \in InProgress'
      BY <1>2, <2>1 DEF InProgress
    <2> QED
      BY <2>1, <2>2 DEF Safe, Kept, Untouched, Ending
  <1>18. CASE RollbackAgain(p)
    <2>1. /\ pc[p] = "again" /\ pc'[p] = "cleanup" /\ cuts' = cuts
          /\ \/ name'["prev"] = name["prev"]
             \/ name'["dest"] = name["prev"]
      BY <1>1, <1>18 DEF RollbackAgain, history, Goto, FramesOK, FilesOK
    <2>2. name["prev"] # None /\ cuts # 0 /\ p \in InProgress'
      BY <1>4, <2>1 DEF Safe, Inspect, InProgress
    <2> QED
      BY <2>1, <2>2 DEF Safe, Kept, Untouched, Ending
  <1>19. CASE Cleanup(p) \/ WakeDaemon(p) \/ ResumeResident(p)
    <2>1. /\ pc[p] \in Ending /\ pc'[p] \in Ending \cup {"done"} /\ cuts' = cuts
          /\ name'["dest"] = name["dest"] /\ name'["prev"] = name["prev"]
      BY <1>1, <1>19 DEF Cleanup, WakeDaemon, ResumeResident, files, history, Goto, End, FramesOK,
                         FilesOK, Ending
    <2>2. Kept
      BY <1>4, <2>1 DEF Safe, Inspect, Ending
    <2> QED
      BY <1>6, <2>1, <2>2 DEF Ending
  <1>20. CASE Die(p)
    <2>1. p \in InProgress /\ cuts' = cuts + 1 /\ name' = name /\ pc'[p] = "dead"
      BY <1>1, <1>20 DEF Die, End, Goto, files, FramesOK
    <2>2. cuts = 0 /\ cuts' = 1 /\ Safe(p)
      <3>1. cuts = 0 /\ cuts' = 1
        BY <1>2, <2>1
      <3>2. ~Inspect(p)
        BY <2>1 DEF Inspect, InProgress
      <3> QED
        BY <1>4, <3>1, <3>2
    <2>3. pc[p] \in Untouched \cup Ending \cup {"publish", "confirm", "rollback", "again", "unretain"}
      BY <1>1, <2>1 DEF FramesOK, InProgress, Steps, Untouched, Ending
    <2>4. name["dest"] # None \/ name["prev"] # None
      BY <1>5, <2>1, <2>2, <2>3 DEF Safe, Kept
    <2> QED
      BY <2>1, <2>2, <2>4 DEF Kept, InProgress
  <1> QED
    BY <1>7, <1>8, <1>9, <1>10, <1>11, <1>12, <1>13, <1>14, <1>15, <1>16, <1>17, <1>18, <1>19, <1>20
       DEF Step

LEMMA SafeInit == Init => SafeInv
  <1> SUFFICES ASSUME Init PROVE SafeInv
    OBVIOUS
  <1>1. PICK v \in Pins \cup {None} :
           /\ name = [n \in Names |-> IF n = "dest" /\ v # None THEN Old ELSE None]
           /\ data = [f \in Files |-> IF f = Old THEN v ELSE None]
    BY DEF Init
  <1>2. InProgress = {}
    BY DEF Init, InProgress
  <1>3. data[Old] # None => name["dest"] # None
    BY <1>1, FileKinds DEF Names
  <1> QED
    BY <1>2, <1>3 DEF SafeInv, Kept

LEMMA SafeNext == Base /\ CalmInv /\ SafeInv /\ [Next]_vars => SafeInv'
  <1>1. ASSUME SafeInv, UNCHANGED vars PROVE SafeInv'
    BY <1>1 DEF SafeInv, Safe, Kept, InProgress, calm, vars, files, frames, services, history
  <1> QED
    BY <1>1, SafeStep DEF Next

(* One install that is cut short anywhere, the next one included, never    *)
(* costs the last binary.                                                  *)
THEOREM BinaryIsRecoverable == Spec => []Recoverable
  <1>1. ASSUME Base, CalmInv, SafeInv, calm, cuts <= 1, data[Old] # None
        PROVE  \E n \in {"dest", "prev", "new"} : Whole(n)
    <2>1. FramesOK /\ NameInv /\ FrameInv /\ WholeInv /\ StagedInv
      BY <1>1, TypeParts DEF Base, CalmInv
    <2>2. ASSUME NEW n \in {"dest", "prev"}, name[n] # None PROVE Whole(n)
      <3>1. name[n] \notin Writing
        BY <2>1, <2>2 DEF Writing, StagedInv, NameInv
      <3> QED
        BY <2>1, <2>2, <3>1 DEF Whole, WholeInv
    <2>3. CASE InProgress = {}
      BY <1>1, <2>2, <2>3 DEF SafeInv, Kept
    <2>4. CASE InProgress # {}
      <3>1. PICK p \in InProgress : TRUE
        BY <2>4
      <3>2. pc[p] \in Untouched \cup Ending \cup {"publish", "confirm", "rollback", "again", "unretain"}
        BY <2>1, <3>1 DEF FramesOK, InProgress, Steps, Untouched, Ending
      <3>3. CASE pc[p] \in {"retain", "publish"}
        <4>1. At("new") \in Pins
          BY <1>1, <2>1, <3>1, <3>3 DEF CalmInv, Position, FrameInv, InProgress
        <4>2. Writing = {}
          BY <1>1, <3>1, <3>3 DEF CalmInv, Sole, Writing, InProgress
        <4> QED
          BY <4>1, <4>2 DEF Whole
      <3>4. CASE pc[p] \notin {"retain", "publish"}
        <4>1. Safe(p)
          BY <1>1, <3>1 DEF SafeInv
        <4>2. name["dest"] # None \/ name["prev"] # None
          BY <1>1, <3>1, <3>2, <3>4, <4>1, Published DEF Safe, Kept
        <4> QED
          BY <2>2, <4>2
      <3> QED
        BY <3>3, <3>4
    <2> QED
      BY <2>3, <2>4
  <1>2. Base /\ CalmInv /\ SafeInv => Recoverable
    BY <1>1 DEF Recoverable
  <1>3. Spec => [](Base /\ CalmInv /\ SafeInv)
    BY CalmAlways, SafeInit, SafeNext, PTL DEF Spec
  <1> QED
    BY <1>2, <1>3, PTL

-----------------------------------------------------------------------------
(* The resident's engine. Until a cut, a resident that serves while a      *)
(* command is in progress either has not been asked yet, or will not be,   *)
(* and then nothing has been published.                                    *)
Unasked(p) ==
    /\ engine = before
    /\ kind[p] = "install" => pc[p] \in {"daemon", "resident"}
    /\ pc[p] \notin {"confirm", "rollback", "again", "unretain"}
    /\ pc[p] \in Ending => At("dest") = before

ServeInv ==
    calm /\ cuts = 0 /\ resident = "serving" /\ "engine" \notin excused =>
        /\ InProgress = {} => engine = At("dest")
        /\ \A p \in InProgress : Unasked(p)

\* There is a resident only where there was a binary, which is then resolved.
ResolveInv ==
    /\ resident # "none" => data[Old] # None
    /\ calm => \A p \in InProgress :
          pc[p] \in {"daemon", "resident"} /\ name["dest"] # None => cbmOK[p]

\* Who asks the resident, and who leaves it alone.
LEMMA ResidentMoves ==
    ASSUME NEW p \in Commands, Step(p)
    PROVE  \/ UNCHANGED <<resident, engine>>
           \/ QuiesceResident(p) /\ resident # "none" /\ resident' = "quiesced"
           \/ QuiesceUnanswered(p) /\ resident # "none" /\ resident' \in {"quiesced", "none"}
           \/ /\ ResumeResident(p) /\ qr[p] /\ resident # "none"
              /\ resident' = "serving" /\ engine' = At("dest")
  <1>1. CASE \/ Inspect(p) \/ QuiesceDaemon(p) \/ DaemonRefuses(p)
             \/ FetchFails(p) \/ OpenBlob(p) \/ Receive(p) \/ ReceiveFails(p) \/ OpenStaged(p)
    BY <1>1 DEF Inspect, QuiesceDaemon, DaemonRefuses, FetchFails, OpenBlob, Receive,
                ReceiveFails, OpenStaged, services
  <1>2. CASE \/ WriteStaged(p) \/ StagingFails(p) \/ ProbeStaged(p) \/ ClearPrev(p) \/ Retain(p)
             \/ RetainFails(p) \/ Publish(p) \/ PublishFails(p) \/ Confirm(p) \/ Unconfirmed(p)
    BY <1>2 DEF WriteStaged, StagingFails, ProbeStaged, ClearPrev, Retain, RetainFails, Publish,
                PublishFails, Confirm, Unconfirmed, services
  <1>3. CASE \/ Rollback(p) \/ RollbackFails(p) \/ RollbackAgain(p) \/ Unretain(p) \/ Cleanup(p)
             \/ WakeDaemon(p) \/ Die(p)
    BY <1>3 DEF Rollback, RollbackFails, RollbackAgain, Unretain, Cleanup, WakeDaemon, Die, services
  <1>4. CASE QuiesceResident(p) \/ QuiesceUnanswered(p)
    BY <1>4 DEF QuiesceResident, QuiesceUnanswered, HoldsResident
  <1>5. CASE ResumeResident(p)
    BY <1>5 DEF ResumeResident
  <1> QED
    BY <1>1, <1>2, <1>3, <1>4, <1>5 DEF Step

LEMMA ResolveStep ==
    ASSUME Base, CalmInv, ResolveInv, NEW p \in Commands, Step(p)
    PROVE  ResolveInv'
  <1>1. FramesOK /\ FilesOK
    BY TypeParts DEF Base
  <1>2. resident' # "none" => resident # "none"
    BY ResidentMoves
  <1>4. ASSUME calm', NEW q \in InProgress', pc'[q] \in {"daemon", "resident"}, name'["dest"] # None
        PROVE  cbmOK'[q]
    <2>1. q = p
      BY <1>4, Alone
    <2>2. CASE Inspect(p)
      BY <1>1, <1>4, <2>1, <2>2 DEF Inspect, files, FramesOK
    <2>3. CASE QuiesceDaemon(p)
      <3>1. pc[p] = "daemon" /\ p \in InProgress /\ UNCHANGED <<name, cbmOK>>
        BY <2>3 DEF QuiesceDaemon, InProgress, files
      <3>2. calm
        BY <1>4, Alone
      <3> QED
        BY <1>4, <2>1, <3>1, <3>2 DEF ResolveInv
    <2>4. CASE \/ Moves(p) \/ QuiesceResident(p) \/ OpenBlob(p) \/ OpenStaged(p) \/ Unretain(p)
               \/ \E l \in {"done", "dead"} : End(p, l)
      BY <1>1, <1>4, <2>1, <2>4 DEF Moves, Later, QuiesceResident, OpenBlob, OpenStaged, Unretain, End,
                                    Goto, FramesOK
    <2> QED
      BY <2>2, <2>3, <2>4, WhoMoves, WhoEnds DEF Step
  <1> QED
    BY <1>2, <1>4, FilesStep DEF ResolveInv

LEMMA ServeStep ==
    ASSUME Base, CalmInv, SafeInv, ResolveInv, ServeInv, NEW p \in Commands, Step(p)
    PROVE  ServeInv'
  <1> SUFFICES ASSUME calm', cuts' = 0, resident' = "serving", "engine" \notin excused'
               PROVE  /\ InProgress' = {} => engine' = At("dest")'
                      /\ p \in InProgress' => Unasked(p)'
    BY Alone DEF ServeInv
  <1> USE DEF Names
  <1>1. FilesOK /\ FramesOK /\ FrameInv /\ RestOK
    BY TypeParts DEF Base
  <1>2. calm /\ (~Inspect(p) => InProgress = {p}) /\ (Inspect(p) => InProgress = {})
    BY Alone
  <1>3. /\ \A m, n \in {"dest", "prev"} : name'[m] = name[n] => At(m)' = At(n)
        /\ p \in InProgress => Position(p)
        /\ p \in InProgress => (pc[p] \in {"clear", "retain", "publish"} => name["new"] # None)
    BY <1>2, Contents, Published DEF CalmInv
  <1>4. ASSUME cuts = 0, resident = "serving", "engine" \notin excused, ~Inspect(p)
        PROVE  p \in InProgress /\ Unasked(p)
    BY <1>2, <1>4 DEF ServeInv
  \* A command that publishes nothing goes on, or ends.
  <1>5. ASSUME ~Inspect(p), cuts = 0, resident = "serving", "engine" \notin excused,
               UNCHANGED <<engine, before>>, name'["dest"] = name["dest"],
               p \in InProgress' => kind'[p] = kind[p] /\
                  pc'[p] \in Untouched \cup Ending \cup {"publish"} /\
                  (kind[p] = "install" => pc'[p] \in {"daemon", "resident"}),
               pc[p] \in Untouched \cup Ending
        PROVE  /\ InProgress' = {} => engine' = At("dest")'
               /\ p \in InProgress' => Unasked(p)'
    <2>1. Unasked(p) /\ Position(p) /\ At("dest")' = At("dest")
      BY <1>3, <1>4, <1>5
    <2>2. At("dest")' = engine'
      BY <1>5, <2>1 DEF Unasked, Position
    <2> QED
      BY <1>5, <2>1, <2>2 DEF Unasked, Untouched, Ending
  <1>6. CASE Inspect(p)
    <2>1. /\ UNCHANGED <<name, cuts, resident, engine, excused>> /\ before' = At("dest")
          /\ pc'[p] = "daemon" /\ InProgress = {}
      BY <1>1, <1>2, <1>6 DEF Inspect, files, services, Goto, FramesOK
    <2>2. engine' = before' /\ p \in InProgress'
      BY <1>2, <2>1 DEF ServeInv, InProgress
    <2> QED
      BY <2>1, <2>2 DEF Unasked, Ending
  <1>7. CASE QuiesceDaemon(p)
    <2>1. /\ UNCHANGED <<name, cuts, resident, engine, excused, before, kind>> /\ pc[p] = "daemon"
          /\ pc'[p] = IF kind[p] = "install" THEN "resident" ELSE "fetch"
      BY <1>1, <1>7 DEF QuiesceDaemon, files, history, Goto, FramesOK
    <2> QED
      BY <1>5, <2>1 DEF Untouched, Inspect
  <1>8. CASE QuiesceResident(p)
    <2>1. /\ UNCHANGED <<cuts, excused>> /\ pc[p] = "resident" /\ p \in InProgress
          /\ ~HoldsResident(p) /\ UNCHANGED resident
      BY <1>8 DEF QuiesceResident, history, InProgress
    <2>2. data[Old] # None
      BY <2>1 DEF ResolveInv
    <2>3. Safe(p) /\ cuts = 0
      BY <1>2, <2>1, <2>2 DEF SafeInv
    <2>4. name["dest"] # None
      BY <2>1, <2>3 DEF Safe, Kept, Untouched
    <2> QED
      BY <1>2, <2>1, <2>4 DEF ResolveInv, HoldsResident
  <1>9. CASE DaemonRefuses(p)
    <2>1. /\ UNCHANGED <<name, cuts, resident, engine, excused, before>> /\ pc[p] = "daemon"
          /\ p \notin InProgress'
      BY <1>1, <1>9 DEF DaemonRefuses, files, services, End, Goto, FramesOK, InProgress
    <2> QED
      BY <1>5, <2>1 DEF Untouched, Inspect
  <1>17. CASE QuiesceUnanswered(p)
    BY <1>17 DEF QuiesceUnanswered
  <1>10. CASE \/ FetchFails(p) \/ OpenBlob(p) \/ Receive(p) \/ ReceiveFails(p) \/ OpenStaged(p)
              \/ WriteStaged(p) \/ StagingFails(p) \/ ProbeStaged(p) \/ ClearPrev(p) \/ RetainFails(p)
    <2>1. /\ UNCHANGED <<cuts, resident, engine, excused, before, kind>>
          /\ name'["dest"] = name["dest"]
          /\ pc[p] \in {"fetch", "receive", "extract", "write", "probe", "clear", "retain"}
      BY <1>1, <1>10 DEF FetchFails, OpenBlob, Receive, ReceiveFails, OpenStaged, WriteStaged, StagingFails,
                         ProbeStaged, ClearPrev, RetainFails, files, frames, InstallFrame, services,
                         history, FilesOK
    <2>2. pc'[p] \in {"wake", "receive", "extract", "cleanup", "write", "probe", "clear", "retain"}
      BY <1>1, <1>10 DEF FetchFails, OpenBlob, Receive, ReceiveFails, OpenStaged, WriteStaged, StagingFails,
                         ProbeStaged, ClearPrev, RetainFails, Goto, FramesOK
    <2>3. Unasked(p) /\ ~Inspect(p)
      BY <1>4, <2>1 DEF Inspect
    <2> QED
      BY <1>5, <2>1, <2>2, <2>3 DEF Unasked, Untouched, Ending
  <1>11. CASE Retain(p)
    <2>1. /\ UNCHANGED <<cuts, resident, engine, excused, before, kind>> /\ pc[p] = "retain"
          /\ pc'[p] = "publish"
      BY <1>1, <1>11 DEF Retain, frames, services, history, Goto, FramesOK
    <2>2. Unasked(p)
      BY <1>4, <2>1 DEF Inspect
    <2>3. p \in InProgress'
      BY <2>1 DEF InProgress
    <2> QED
      BY <2>1, <2>2, <2>3 DEF Unasked, Ending
  <1>12. CASE Publish(p)
    <2>1. /\ UNCHANGED <<cuts, resident>> /\ pc[p] = "publish"
          /\ "engine" \notin excused /\ kind[p] # "setup"
      BY <1>12 DEF Publish, history
    <2>2. Unasked(p) /\ kind[p] = "install"
      BY <1>1, <1>4, <2>1 DEF Inspect, FramesOK
    <2> QED
      BY <2>1, <2>2 DEF Unasked
  <1>13. CASE PublishFails(p) \/ RollbackFails(p) \/ Die(p)
    <2>1. cuts' = cuts + 1 \/ (pc[p] = "publish" /\ name["new"] = None /\ p \in InProgress)
      BY <1>13 DEF PublishFails, RollbackFails, Die, InProgress
    <2>2. cuts' = cuts + 1 /\ cuts \in Nat
      BY <1>1, <1>3, <2>1 DEF RestOK
    <2> QED
      BY <2>2
  <1>14. CASE Confirm(p) \/ Unconfirmed(p) \/ Rollback(p) \/ RollbackAgain(p) \/ Unretain(p)
    <2>1. /\ UNCHANGED <<cuts, resident, excused>>
          /\ pc[p] \in {"confirm", "rollback", "again", "unretain"}
      BY <1>14 DEF Confirm, Unconfirmed, Rollback, RollbackAgain, Unretain, services, history
    <2>2. Unasked(p)
      BY <1>4, <2>1 DEF Inspect
    <2> QED
      BY <2>1, <2>2 DEF Unasked
  <1>15. CASE Cleanup(p) \/ WakeDaemon(p)
    <2>1. /\ UNCHANGED <<cuts, resident, engine, before, kind>>
          /\ "engine" \in excused => "engine" \in excused'
          /\ name'["dest"] = name["dest"] /\ pc[p] \in Ending /\ pc'[p] \in Ending
          /\ ~Inspect(p)
      BY <1>1, <1>15 DEF Cleanup, WakeDaemon, files, frames, services, history, Goto, FramesOK, FilesOK,
                         Ending, Inspect
    <2>2. Unasked(p) /\ At("dest")' = At("dest") /\ p \in InProgress'
      BY <1>3, <1>4, <2>1 DEF Ending, InProgress
    <2> QED
      BY <2>1, <2>2 DEF Unasked, Ending
  <1>16. CASE ResumeResident(p)
    <2>1. /\ UNCHANGED <<name, cuts>> /\ pc[p] = "resume" /\ p \notin InProgress'
          /\ \/ engine' = At("dest")
             \/ UNCHANGED <<resident, engine>> /\ ("engine" \in excused => "engine" \in excused')
      BY <1>1, <1>16 DEF ResumeResident, files, End, Goto, FramesOK, InProgress
    <2>2. At("dest")' = At("dest")
      BY <1>3, <2>1
    <2>3. CASE engine' = At("dest")
      BY <2>1, <2>2, <2>3
    <2>4. CASE UNCHANGED <<resident, engine>> /\ ("engine" \in excused => "engine" \in excused')
      <3>1. Unasked(p)
        BY <1>4, <2>1, <2>4 DEF Inspect
      <3> QED
        BY <2>1, <2>2, <2>4, <3>1 DEF Unasked, Ending
    <2> QED
      BY <2>1, <2>3, <2>4
  <1> QED
    BY <1>6, <1>7, <1>8, <1>9, <1>10, <1>11, <1>12, <1>13, <1>14, <1>15, <1>16, <1>17
       DEF Step

LEMMA ServeInit == Init => ResolveInv /\ ServeInv
  <1> SUFFICES ASSUME Init PROVE ResolveInv /\ ServeInv
    OBVIOUS
  <1>1. PICK v \in Pins \cup {None} :
           /\ name = [n \in Names |-> IF n = "dest" /\ v # None THEN Old ELSE None]
           /\ data = [f \in Files |-> IF f = Old THEN v ELSE None]
           /\ \E r \in {"none", "serving"} :
                 /\ v = None => r = "none"
                 /\ resident = r
                 /\ engine = IF r = "serving" THEN v ELSE None
    BY DEF Init
  <1>2. InProgress = {} /\ \A p \in Commands : ~qr[p]
    BY DEF Init, InProgress
  <1>3. resident # "none" => v # None /\ data[Old] = v /\ At("dest") = v
    BY <1>1, FileKinds DEF At, Names
  <1> QED
    BY <1>1, <1>2, <1>3 DEF ResolveInv, ServeInv

LEMMA ServeNext ==
    Base /\ CalmInv /\ SafeInv /\ ResolveInv /\ ServeInv /\ GiveInv /\ [Next]_vars
        => ResolveInv' /\ ServeInv' /\ GiveInv'
  <1>1. ASSUME ResolveInv, ServeInv, GiveInv, UNCHANGED vars PROVE ResolveInv' /\ ServeInv' /\ GiveInv'
    BY <1>1 DEF ResolveInv, ServeInv, Unasked, GiveInv, HasDaemon, HasResident, InProgress, At, calm,
                vars, files, frames, services, history
  <1> QED
    BY <1>1, ResolveStep, ServeStep, GiveStep DEF Next

(* What a command has stopped runs again when none is in progress, or is   *)
(* excused; and a resident that serves runs what is installed, until a     *)
(* command is cut short or `tk setup` replaces it.                         *)
THEOREM FoundIsRestored == Spec => []Restored
  <1>1. Spec => [](Base /\ CalmInv /\ SafeInv /\ ResolveInv /\ ServeInv /\ GiveInv)
    BY CalmAlways, SafeInit, SafeNext, ServeInit, GiveInit, ServeNext, PTL DEF Spec
  <1>2. GiveInv => GivenBack
    BY DEF GiveInv, GivenBack, HasDaemon, HasResident
  <1>3. ServeInv => ServesInstalled
    BY DEF ServeInv, ServesInstalled
  <1> QED
    BY <1>1, <1>2, <1>3, PTL DEF Restored

-----------------------------------------------------------------------------
(* Replacement. The image and the pin as its users see them.               *)
Image == IF InProgress # {} THEN before ELSE At("dest")
Wanted == IF InProgress # {} THEN pin[CHOOSE p \in InProgress : TRUE] ELSE None

LEMMA Seen ==
    /\ InProgress = {} => Image = At("dest") /\ Wanted = None
    /\ \A p \in Commands : InProgress = {p} => Image = before /\ Wanted = pin[p]
  BY DEF Image, Wanted

LEMMA SeenNext ==
    /\ InProgress' = {} => Image' = At("dest")' /\ Wanted' = None
    /\ \A p \in Commands : InProgress' = {p} => Image' = before' /\ Wanted' = pin'[p]
  BY DEF Image, Wanted

LEMMA ContractStep ==
    ASSUME Base, CalmInv, NEW p \in Commands, Step(p), calm'
    PROVE  Contract!Next \/ UNCHANGED <<Image, Wanted, report, harmed>>
  <1> USE DEF Names
  <1>1. FilesOK /\ FramesOK /\ FrameInv /\ RestOK
    BY TypeParts DEF Base
  <1>2. /\ ~Inspect(p) => InProgress = {p}
        /\ Inspect(p) => InProgress = {}
        /\ InProgress' = {} \/ InProgress' = {p}
    BY Alone
  <1>3. name'["dest"] = name["dest"] => At("dest")' = At("dest")
    BY Contents
  <1>4. p \in InProgress => Position(p) /\ pin[p] \in Pins /\ pin[p] # None
    BY <1>1, Alone DEF CalmInv, FrameInv
  <1>5. CASE Inspect(p)
    <2>1. PICK v \in Pins : pin' = [pin EXCEPT ![p] = v]
      BY <1>5 DEF Inspect
    <2>2. /\ pc'[p] = "daemon" /\ pin'[p] = v /\ before' = At("dest") /\ ~harmed' /\ harmed' = FALSE
          /\ UNCHANGED report
      BY <1>1, <1>5, <2>1 DEF Inspect, Goto, FramesOK
    <2>3. InProgress = {} /\ InProgress' = {p}
      BY <1>2, <1>5, <2>2 DEF InProgress
    <2>4. Image' = Image /\ Wanted = None /\ Wanted' = v
      BY <2>2, <2>3, Seen, SeenNext
    <2>5. Contract!Start(v)
      BY <2>2, <2>4 DEF Contract!Start, Image, Wanted
    <2> QED
      BY <2>5 DEF Contract!Next
  <1>6. ASSUME ~Inspect(p), p \in InProgress', UNCHANGED <<before, pin, report>>,
               harmed' = harmed \/ harmed' = TRUE
        PROVE  Contract!Next \/ UNCHANGED <<Image, Wanted, report, harmed>>
    <2>1. InProgress = {p} /\ InProgress' = {p}
      BY <1>2, <1>6
    <2>2. Image' = Image /\ Wanted' = Wanted /\ Wanted # None
      BY <1>4, <1>6, <2>1, Seen, SeenNext
    <2>3. harmed' = TRUE => Contract!Harm
      BY <1>6, <2>2 DEF Contract!Harm, Image, Wanted
    <2> QED
      BY <1>6, <2>2, <2>3 DEF Contract!Next
  <1>7. CASE \/ QuiesceDaemon(p) \/ QuiesceResident(p) \/ FetchFails(p) \/ OpenBlob(p) \/ Receive(p)
             \/ ReceiveFails(p) \/ OpenStaged(p) \/ WriteStaged(p) \/ StagingFails(p) \/ ProbeStaged(p)
    <2>1. UNCHANGED <<before, pin, report, harmed>> /\ pc[p] # "idle"
      BY <1>7 DEF QuiesceDaemon, QuiesceResident, FetchFails, OpenBlob, Receive, ReceiveFails, OpenStaged,
                  WriteStaged, StagingFails, ProbeStaged, history, frames, InstallFrame
    <2>2. p \in InProgress'
      BY <1>1, <1>7 DEF QuiesceDaemon, QuiesceResident, FetchFails, OpenBlob, Receive, ReceiveFails,
                  OpenStaged, WriteStaged, StagingFails, ProbeStaged, Goto, FramesOK, InProgress
    <2> QED
      BY <1>6, <2>1, <2>2 DEF Inspect
  <1>8. CASE \/ ClearPrev(p) \/ Retain(p) \/ RetainFails(p) \/ Publish(p) \/ PublishFails(p) \/ Confirm(p)
             \/ Unconfirmed(p) \/ Rollback(p) \/ RollbackFails(p) \/ RollbackAgain(p) \/ Unretain(p)
             \/ Cleanup(p) \/ WakeDaemon(p)
    <2>1. UNCHANGED <<before, pin, report>> /\ (harmed' = harmed \/ harmed' = TRUE) /\ pc[p] # "idle"
      BY <1>8 DEF ClearPrev, Retain, RetainFails, Publish, PublishFails, Confirm, Unconfirmed, Rollback,
                  RollbackFails, RollbackAgain, Unretain, Cleanup, WakeDaemon, history, frames, InstallFrame
    <2>2. p \in InProgress'
      BY <1>1, <1>8 DEF ClearPrev, Retain, RetainFails, Publish, PublishFails, Confirm, Unconfirmed,
                  Rollback, RollbackFails, RollbackAgain, Unretain, Cleanup, WakeDaemon, Goto, FramesOK,
                  InProgress
    <2> QED
      BY <1>6, <2>1, <2>2 DEF Inspect
  \* The command ends: what is at the target is seen.
  <1>9. ASSUME ~Inspect(p), p \notin InProgress', name' = name
        PROVE  Image = before /\ Wanted = pin[p] /\ Wanted # None /\ Image' = At("dest") /\ Wanted' = None
    BY <1>2, <1>3, <1>4, <1>9, Seen, SeenNext
  <1>10. CASE DaemonRefuses(p) \/ QuiesceUnanswered(p)
    <2>1. /\ pc[p] \in {"daemon", "resident"} /\ name' = name /\ p \notin InProgress'
          /\ report' = "failed" /\ UNCHANGED harmed
      BY <1>1, <1>10 DEF DaemonRefuses, QuiesceUnanswered, End, Goto, files, FramesOK, InProgress
    <2>2. Position(p) /\ Image = before /\ Wanted # None /\ Image' = At("dest") /\ Wanted' = None
      BY <1>2, <1>4, <1>9, <2>1 DEF Inspect
    <2>3. Image' = Image
      BY <2>1, <2>2 DEF Position, Untouched
    <2>4. Contract!Failed
      BY <2>1, <2>2, <2>3 DEF Contract!Failed, Image, Wanted
    <2> QED
      BY <2>4 DEF Contract!Next
  <1>11. CASE ResumeResident(p)
    <2>1. /\ pc[p] = "resume" /\ name' = name /\ p \notin InProgress'
          /\ report' = IF ok[p] THEN "installed" ELSE "failed"
          /\ UNCHANGED harmed
      BY <1>1, <1>11 DEF ResumeResident, End, Goto, files, FramesOK, InProgress
    <2>2. /\ Position(p) /\ Image = before /\ Wanted = pin[p] /\ Wanted # None
          /\ Image' = At("dest") /\ Wanted' = None
      BY <1>2, <1>4, <1>9, <2>1 DEF Inspect
    <2>3. CASE ok[p]
      <3>1. Contract!Installed
        BY <2>1, <2>2, <2>3 DEF Contract!Installed, Position, Ending, Image, Wanted
      <3> QED
        BY <3>1 DEF Contract!Next
    <2>4. CASE ~ok[p]
      <3>1. Contract!Failed
        BY <2>1, <2>2, <2>4 DEF Contract!Failed, Position, Ending, Image, Wanted
      <3> QED
        BY <3>1 DEF Contract!Next
    <2> QED
      BY <2>3, <2>4
  <1>12. CASE Die(p)
    <2>1. /\ p \in InProgress /\ name' = name /\ p \notin InProgress'
          /\ harmed' = TRUE /\ UNCHANGED report
      BY <1>1, <1>12 DEF Die, End, Goto, files, FramesOK, InProgress
    <2>2. /\ Position(p) /\ Image = before /\ Wanted = pin[p] /\ Wanted # None
          /\ Image' = At("dest") /\ Wanted' = None
      BY <1>2, <1>4, <1>9, <2>1 DEF Inspect, InProgress
    <2>3. At("dest") \in {None, before, pin[p]}
      BY <2>1, <2>2, PositionShows
    <2>4. Contract!Killed
      BY <2>1, <2>2, <2>3 DEF Contract!Killed, Image, Wanted
    <2> QED
      BY <2>4 DEF Contract!Next
  <1> QED
    BY <1>5, <1>7, <1>8, <1>10, <1>11, <1>12 DEF Step

(* Used one at a time, whatever fails or is killed in between, an install  *)
(* replaces the binary or leaves it, and reports which.                    *)
THEOREM InstallIsReplacement == Spec => ImplementsReplacement
  <1>1. Init => Contract!Init
    <2> SUFFICES ASSUME Init PROVE Contract!Init
      OBVIOUS
    <2>1. PICK v \in Pins \cup {None} :
             /\ name = [n \in Names |-> IF n = "dest" /\ v # None THEN Old ELSE None]
             /\ data = [f \in Files |-> IF f = Old THEN v ELSE None]
      BY DEF Init
    <2>2. InProgress = {} /\ report = None /\ harmed = FALSE
      BY DEF Init, InProgress
    <2>3. At("dest") = v
      BY <2>1, FileKinds DEF At, Names
    <2> QED
      BY <2>2, <2>3 DEF Contract!Init
  <1>2. ASSUME Base, CalmInv, [Next]_vars
        PROVE  [calm' => [Contract!Next]_(Contract!vars)]_vars
    <2>1. ASSUME NEW p \in Commands, Step(p), calm' PROVE [Contract!Next]_(Contract!vars)
      BY <1>2, <2>1, ContractStep DEF Contract!vars, Image, Wanted
    <2> QED
      BY <1>2, <2>1 DEF Next
  <1> QED
    BY <1>1, <1>2, CalmAlways, PTL DEF Spec, ImplementsReplacement
=============================================================================
