--------------------------- MODULE ResidentProofs ---------------------------
(***************************************************************************)
(* Proofs about Resident: what holds of a resident for any number of       *)
(* connections, of installers and of engines; and about Endpoint: what     *)
(* holds of its address for any number of residents.                       *)
(***************************************************************************)
EXTENDS Resident, Endpoint, TLAPS

USE ConnectionsAssumption

LEMMA TypeInit == Init => TypeOK
  <1> SUFFICES ASSUME Init PROVE TypeOK
    OBVIOUS
  <1>1. /\ proc \in [Engines -> {"none", "up", "exited"}]
        /\ shut \in [Engines -> BOOLEAN] /\ dead \in [Engines -> BOOLEAN]
        /\ cmu \in [Engines -> Readers \cup {None}]
    BY DEF Init
  <1>2. /\ pc \in [Conns -> {"idle"} \cup ToolPc \cup QuiescePc \cup ResumePc]
        /\ eng \in [Conns -> Engines \cup {None}]
    BY DEF Init
  <1>3. /\ call \in [Readers -> {"idle", "lock", "busy", "answered", "failed", "childclosed"}]
        /\ held \in [Installers -> BOOLEAN] /\ gone \in [Installers -> BOOLEAN]
    BY DEF Init
  <1> QED
    BY <1>1, <1>2, <1>3 DEF Init, TypeOK

LEMMA TypeStep == TypeOK /\ [Next]_vars => TypeOK'
  <1> SUFFICES ASSUME TypeOK, [Next]_vars PROVE TypeOK'
    OBVIOUS
  <1> USE DEF TypeOK, Conns, ToolPc, QuiescePc, ResumePc,
              srvVars, engVars, connVars, instVars, stopVars, Goto, Reply
  <1>1. CASE Boot
    BY <1>1 DEF Boot, Spawn
  <1>2. CASE BootFails
    BY <1>2 DEF BootFails
  <1>3. CASE Close
    BY <1>3 DEF Close, StopMark, StopListener, StopRelease, StopReap
  <1>4. CASE Exit
    BY <1>4 DEF Exit
  <1>5. ASSUME NEW r \in Readers, Reader(r) PROVE TypeOK'
    <2>1. CASE AcceptReader(r)
      BY <2>1 DEF AcceptReader, Accept
    <2>2. CASE Gate(r)
      BY <2>2 DEF Gate
    <2>3. CASE TakeSlot(r)
      BY <2>3 DEF TakeSlot
    <2>4. CASE Return(r)
      BY <2>4 DEF Return
    <2>5. CASE TimeOut(r)
      BY <2>5 DEF TimeOut
    <2> QED
      BY <1>5, <2>1, <2>2, <2>3, <2>4, <2>5 DEF Reader
  <1>6. ASSUME NEW r \in Readers, CallGoroutine(r) PROVE TypeOK'
    <2> USE DEF CallEnds
    <2>1. CASE CallSends(r)
      BY <2>1 DEF CallSends
    <2>2. CASE CallRefused(r)
      <3>1. /\ \E v \in {"failed", "childclosed"} : call' = [call EXCEPT ![r] = v]
            /\ dead' = dead \/ dead' = [dead EXCEPT ![eng[r]] = TRUE]
            /\ UNCHANGED <<srvVars, proc, shut, cmu, pc, eng, instVars, stopVars>>
        BY <2>2 DEF CallRefused
      <3>2. call' \in [Readers -> {"idle", "lock", "busy", "answered", "failed", "childclosed"}]
        BY <3>1
      <3>3. dead' \in [Engines -> BOOLEAN]
        BY <3>1
      <3> QED
        BY <3>1, <3>2, <3>3
    <2>3. CASE EngineAnswers(r)
      BY <2>3 DEF EngineAnswers
    <2>4. CASE CallMeetsEof(r)
      BY <2>4 DEF CallMeetsEof
    <2> QED
      BY <1>6, <2>1, <2>2, <2>3, <2>4 DEF CallGoroutine
  <1>7. ASSUME NEW k \in Installers, Installer(k) PROVE TypeOK'
    <2>1. CASE AcceptInstaller(k)
      BY <2>1 DEF AcceptInstaller, Accept
    <2>2. CASE InstallerDies(k)
      BY <2>2 DEF InstallerDies
    <2>3. CASE InstallerLeaves(k)
      BY <2>3 DEF InstallerLeaves
    <2> QED
      BY <1>7, <2>1, <2>2, <2>3 DEF Installer
  <1>8. ASSUME NEW k \in Installers, Quiesce(k) PROVE TypeOK'
    <2>1. CASE QuiesceMark(k)
      BY <2>1 DEF QuiesceMark
    <2>2. CASE QuiesceDrain(k)
      BY <2>2 DEF QuiesceDrain
    <2>3. CASE QuiesceRelease(k)
      <3>1. /\ \E l \in {"clear", "reap"} : pc' = [pc EXCEPT ![k] = l]
            /\ shut' = shut \/ shut' = [shut EXCEPT ![eng[k]] = TRUE]
            /\ UNCHANGED <<srvVars, proc, dead, cmu, eng, call, instVars, stopVars>>
        BY <2>3 DEF QuiesceRelease
      <3>2. shut' \in [Engines -> BOOLEAN]
        BY <3>1
      <3>3. pc' \in [Conns -> {"idle"} \cup ToolPc \cup QuiescePc \cup ResumePc]
        BY <3>1
      <3> QED
        BY <3>1, <3>2, <3>3
    <2>4. CASE QuiesceReap(k)
      BY <2>4 DEF QuiesceReap
    <2>5. CASE QuiesceClear(k)
      BY <2>5 DEF QuiesceClear
    <2> QED
      BY <1>8, <2>1, <2>2, <2>3, <2>4, <2>5 DEF Quiesce
  <1>9. ASSUME NEW k \in Installers, Resume(k) PROVE TypeOK'
    <2>1. CASE ResumeStart(k)
      BY <2>1 DEF ResumeStart, Spawn
    <2>2. CASE ResumeFails(k)
      BY <2>2 DEF ResumeFails
    <2>3. CASE ResumeAttach(k)
      BY <2>3 DEF ResumeAttach
    <2>4. CASE ResumeServe(k)
      BY <2>4 DEF ResumeServe
    <2> QED
      BY <1>9, <2>1, <2>2, <2>3, <2>4 DEF Resume
  <1>10. ASSUME NEW e \in Engines, EngineExits(e) PROVE TypeOK'
    BY <1>10 DEF EngineExits
  <1>11. CASE UNCHANGED vars
    BY <1>11 DEF vars
  <1> QED
    BY <1>1, <1>2, <1>3, <1>4, <1>5, <1>6, <1>7, <1>8, <1>9, <1>10, <1>11
       DEF Next

(* The fields of a resident, its goroutines and its engines keep their types. *)
THEOREM TypeCorrect == Spec => []TypeOK
  BY TypeInit, TypeStep, PTL DEF Spec

-----------------------------------------------------------------------------
(* The reader that waits for the engine holds s.one.                       *)
SlotInv == \A r \in Readers : pc[r] = "calling" => one = r

LEMMA SlotStep == TypeOK /\ SlotInv /\ [Next]_vars => SlotInv'
  <1> SUFFICES ASSUME TypeOK, SlotInv, [Next]_vars PROVE SlotInv'
    OBVIOUS
  <1> USE DEF TypeOK, SlotInv, Conns, srvVars, engVars, connVars, instVars, stopVars, Goto, Reply
  <1>1. ASSUME NEW r \in Readers, TakeSlot(r) PROVE SlotInv'
    BY <1>1 DEF TakeSlot
  <1>2. ASSUME NEW r \in Readers, Return(r) \/ TimeOut(r) PROVE SlotInv'
    BY <1>2 DEF Return, TimeOut
  <1>3. ASSUME NEW r \in Readers, AcceptReader(r) \/ Gate(r) PROVE SlotInv'
    BY <1>3 DEF AcceptReader, Accept, Gate
  <1>4. ASSUME NEW r \in Readers, CallGoroutine(r) PROVE SlotInv'
    BY <1>4 DEF CallGoroutine, CallSends, CallRefused, EngineAnswers, CallMeetsEof
  <1>5. ASSUME NEW k \in Installers, Installer(k) PROVE SlotInv'
    BY <1>5 DEF Installer, AcceptInstaller, Accept, InstallerDies, InstallerLeaves
  <1>6. ASSUME NEW k \in Installers, Quiesce(k) PROVE SlotInv'
    <2>1. one' = one /\ \A r \in Readers : pc'[r] = pc[r]
      BY <1>6 DEF Quiesce, QuiesceMark, QuiesceDrain, QuiesceRelease, QuiesceReap, QuiesceClear
    <2> QED
      BY <2>1
  <1>7. ASSUME NEW k \in Installers, Resume(k) PROVE SlotInv'
    <2>1. one' = one /\ \A r \in Readers : pc'[r] = pc[r]
      BY <1>7 DEF Resume, ResumeStart, ResumeFails, ResumeAttach, ResumeServe
    <2> QED
      BY <2>1
  <1>8. CASE Boot \/ BootFails \/ Close \/ Exit
    BY <1>8 DEF Boot, BootFails, Close, StopMark, StopListener, StopRelease, StopReap, Exit
  <1>9. ASSUME NEW e \in Engines, EngineExits(e) PROVE SlotInv'
    BY <1>9 DEF EngineExits
  <1>10. CASE UNCHANGED vars
    BY <1>10 DEF vars
  <1> QED
    BY <1>1, <1>2, <1>3, <1>4, <1>5, <1>6, <1>7, <1>8, <1>9, <1>10 DEF Next, Reader

(* One request at a time waits on the engine (server.go, s.one).           *)
THEOREM SlotIsExclusive == Spec => []OneInSlot
  <1>1. Init => SlotInv
    BY DEF Init, SlotInv, Conns
  <1>2. SlotInv => OneInSlot
    BY DEF SlotInv, OneInSlot
  <1> QED
    BY <1>1, <1>2, TypeCorrect, SlotStep, PTL DEF Spec

-----------------------------------------------------------------------------
(* Control actions that have not met: one installer at a time is served or *)
(* owes a resume, and none is served once the server is closed. Nothing in *)
(* the code sees to it; what follows is what it yields.                    *)
Busy(k) == Running(k) \/ held[k]
AloneInv ==
    ~met =>
        /\ \A k, j \in Installers : Busy(k) /\ Busy(j) => k = j
        /\ \A k \in Installers : held[k] => pc[k] = "idle"
        /\ closed => \A k \in Installers : ~Running(k)

\* A meeting is never forgotten.
LEMMA MetStays == [Next]_vars /\ met => met'
  <1> SUFFICES ASSUME [Next]_vars, met PROVE met'
    OBVIOUS
  <1> USE DEF srvVars, engVars, connVars, instVars, stopVars
  <1>1. ASSUME NEW r \in Readers, Reader(r) \/ CallGoroutine(r) PROVE met'
    BY <1>1 DEF Reader, AcceptReader, Accept, Gate, TakeSlot, Return, TimeOut,
                CallGoroutine, CallSends, CallRefused, EngineAnswers, CallMeetsEof
  <1>2. ASSUME NEW k \in Installers, Installer(k) PROVE met'
    BY <1>2 DEF Installer, AcceptInstaller, InstallerDies, InstallerLeaves
  <1>3. ASSUME NEW k \in Installers, Quiesce(k) PROVE met'
    BY <1>3 DEF Quiesce, QuiesceMark, QuiesceDrain, QuiesceRelease, QuiesceReap, QuiesceClear
  <1>4. ASSUME NEW k \in Installers, Resume(k) PROVE met'
    BY <1>4 DEF Resume, ResumeStart, ResumeFails, ResumeAttach, ResumeServe
  <1>5. CASE Boot \/ BootFails \/ Close \/ Exit
    BY <1>5 DEF Boot, BootFails, Close, StopMark, StopListener, StopRelease, StopReap, Exit
  <1>6. ASSUME NEW e \in Engines, EngineExits(e) PROVE met'
    BY <1>6 DEF EngineExits
  <1>7. CASE UNCHANGED vars
    BY <1>7 DEF vars
  <1> QED
    BY <1>1, <1>2, <1>3, <1>4, <1>5, <1>6, <1>7 DEF Next

\* A step of an action that runs: where it leads, and that the others stand still.
LEMMA ActionStep ==
    ASSUME TypeOK, NEW k \in Installers, Quiesce(k) \/ Resume(k)
    PROVE  /\ Running(k) /\ UNCHANGED <<srv, closed, met, stop, stopEng>>
           /\ \A j \in Installers \ {k} :
                 pc'[j] = pc[j] /\ eng'[j] = eng[j] /\ held'[j] = held[j]
           /\ \/ pc'[k] \in QuiescePc \cup ResumePc /\ held' = held
              \/ pc'[k] = "idle" /\ (held'[k] => held[k] \/ pc[k] = "clear")
  <1> USE DEF TypeOK, Conns, Running, QuiescePc, ResumePc, Goto, Reply,
              srvVars, engVars, connVars, instVars, stopVars
  <1>1. CASE Quiesce(k)
    BY <1>1 DEF Quiesce, QuiesceMark, QuiesceDrain, QuiesceRelease, QuiesceReap, QuiesceClear
  <1>2. CASE Resume(k)
    BY <1>2 DEF Resume, ResumeStart, ResumeFails, ResumeAttach, ResumeServe
  <1> QED
    BY <1>1, <1>2

LEMMA AloneStep == TypeOK /\ AloneInv /\ [Next]_vars => AloneInv'
  <1> SUFFICES ASSUME TypeOK, AloneInv, [Next]_vars, ~met, ~met' PROVE AloneInv'
    BY MetStays DEF AloneInv
  <1> USE DEF TypeOK, AloneInv, Busy, Running, Conns, QuiescePc, ResumePc, ToolPc, Goto, Reply,
              srvVars, engVars, connVars, instVars, stopVars
  <1>1. ASSUME NEW r \in Readers, Reader(r) PROVE AloneInv'
    <2>1. UNCHANGED <<closed, held>> /\ \A k \in Installers : pc'[k] = pc[k]
      BY <1>1, ConnectionsAssumption DEF Reader, AcceptReader, Accept, Gate, TakeSlot, Return, TimeOut
    <2> QED
      BY <2>1
  <1>2. ASSUME NEW r \in Readers, CallGoroutine(r) PROVE AloneInv'
    BY <1>2 DEF CallGoroutine, CallSends, CallRefused, EngineAnswers, CallMeetsEof
  <1>3. ASSUME NEW k \in Installers, Installer(k) PROVE AloneInv'
    <2>1. CASE AcceptInstaller(k)
      <3>1. /\ ~closed /\ closed' = closed
            /\ \A j \in Installers \ {k} : ~Running(j) /\ ~held[j]
        BY <2>1 DEF AcceptInstaller, Accept
      <3>2. /\ ~held'[k]
            /\ \A j \in Installers \ {k} : pc'[j] = pc[j] /\ held'[j] = held[j]
        BY <2>1 DEF AcceptInstaller, Accept
      <3>3. \A j \in Installers \ {k} : ~Busy(j)' /\ ~held'[j]
        BY <3>1, <3>2
      <3> HIDE DEF Busy, Running
      <3> QED
        BY <3>1, <3>2, <3>3
    <2>2. CASE InstallerDies(k) \/ InstallerLeaves(k)
      BY <2>2 DEF InstallerDies, InstallerLeaves
    <2> QED
      BY <1>3, <2>1, <2>2 DEF Installer
  <1>4. ASSUME NEW k \in Installers, Quiesce(k) \/ Resume(k) PROVE AloneInv'
    BY <1>4, ActionStep
  <1>5. CASE StopMark
    BY <1>5 DEF StopMark
  <1>6. CASE Boot \/ BootFails \/ StopListener \/ StopRelease \/ StopReap \/ Exit
    BY <1>6 DEF Boot, BootFails, StopListener, StopRelease, StopReap, Exit
  <1>7. ASSUME NEW e \in Engines, EngineExits(e) PROVE AloneInv'
    BY <1>7 DEF EngineExits
  <1>8. CASE UNCHANGED vars
    BY <1>8 DEF vars
  <1> QED
    BY <1>1, <1>2, <1>3, <1>4, <1>5, <1>6, <1>7, <1>8 DEF Next, Close

LEMMA Alone == Spec => [](TypeOK /\ AloneInv)
  <1>1. Init => AloneInv
    BY DEF Init, AloneInv, Busy, Running, QuiescePc, ResumePc, Conns
  <1> QED
    BY <1>1, AloneStep, TypeCorrect, PTL DEF Spec

\* While one action runs no other does, and nobody else owes a resume.
LEMMA OthersIdle ==
    ASSUME TypeOK, AloneInv, ~met, NEW k \in Installers, Quiesce(k) \/ Resume(k)
    PROVE  /\ ~closed /\ ~held[k]
           /\ \A j \in Installers \ {k} :
                 /\ ~held[j] /\ ~held'[j] /\ eng'[j] = eng[j] /\ pc'[j] = pc[j]
                 /\ pc[j] \notin QuiescePc \cup ResumePc
  <1>1. Running(k)
    BY ActionStep
  <1>2. \A j \in Installers \ {k} : ~Busy(j)
    BY <1>1 DEF AloneInv, Busy
  <1>3. ~held[k]
    <2> SUFFICES ASSUME held[k] PROVE FALSE
      OBVIOUS
    <2>1. pc[k] = "idle"
      BY DEF AloneInv
    <2> QED
      BY <1>1, <2>1 DEF Running, QuiescePc, ResumePc
  <1>4. ~closed
    BY <1>1 DEF AloneInv
  <1> QED
    BY <1>2, <1>3, <1>4, ActionStep DEF Busy, Running

\* The steps that leave the control actions and the engine where they are.
LEMMA BesideActions ==
    ASSUME TypeOK, NEW r \in Readers, Reader(r) \/ CallGoroutine(r)
    PROVE  /\ UNCHANGED <<srv, engine, quiesced, closed, proc, shut, instVars, stopVars>>
           /\ \A k \in Installers : pc'[k] = pc[k] /\ eng'[k] = eng[k]
  <1> USE DEF TypeOK, Conns, Goto, Reply, srvVars, engVars, connVars, stopVars
  <1>1. CASE Reader(r)
    BY <1>1, ConnectionsAssumption DEF Reader, AcceptReader, Accept, Gate, TakeSlot, Return, TimeOut
  <1>2. CASE CallGoroutine(r)
    BY <1>2 DEF CallGoroutine, CallSends, CallRefused, EngineAnswers, CallMeetsEof
  <1> QED
    BY <1>1, <1>2

-----------------------------------------------------------------------------
(* The engine is attached before the quiesce flag is cleared, and nobody   *)
(* takes it away in between: not a Quiesce or the Close, which would have  *)
(* met the Resume.                                                         *)
ServeInv ==
    /\ ~met => \A k \in Installers :
          /\ pc[k] \in {"drain", "release", "reap", "clear"} => quiesced
          /\ pc[k] = "attach" => eng[k] # None
          /\ pc[k] = "unquiesce" => engine # None
    /\ ServingHasEngine

LEMMA ServeStep == TypeOK /\ AloneInv /\ ServeInv /\ [Next]_vars => ServeInv'
  <1> SUFFICES ASSUME TypeOK, AloneInv, ServeInv, [Next]_vars, ~met, ~met' PROVE ServeInv'
    BY MetStays DEF ServeInv, ServingHasEngine
  <1> USE DEF TypeOK, ServeInv, ServingHasEngine, Conns, QuiescePc, ResumePc,
              srvVars, engVars, connVars, instVars, stopVars, Goto, Reply
  <1>1. ASSUME NEW r \in Readers, Reader(r) \/ CallGoroutine(r) PROVE ServeInv'
    BY <1>1, BesideActions
  <1>2. ASSUME NEW k \in Installers, Installer(k) PROVE ServeInv'
    BY <1>2 DEF Installer, AcceptInstaller, Accept, InstallerDies, InstallerLeaves
  <1>3. ASSUME NEW k \in Installers, Quiesce(k) PROVE ServeInv'
    <2>1. \A j \in Installers \ {k} :
             pc'[j] = pc[j] /\ pc[j] \notin QuiescePc \cup ResumePc
      BY <1>3, OthersIdle
    <2>2. CASE QuiesceMark(k)
      BY <2>1, <2>2 DEF QuiesceMark
    <2>3. CASE QuiesceDrain(k) \/ QuiesceRelease(k) \/ QuiesceReap(k)
      BY <2>1, <2>3 DEF QuiesceDrain, QuiesceRelease, QuiesceReap
    <2>4. CASE QuiesceClear(k)
      BY <2>1, <2>4 DEF QuiesceClear
    <2> QED
      BY <1>3, <2>2, <2>3, <2>4 DEF Quiesce
  <1>4. ASSUME NEW k \in Installers, Resume(k) PROVE ServeInv'
    <2>1. \A j \in Installers \ {k} :
             pc'[j] = pc[j] /\ pc[j] \notin QuiescePc \cup ResumePc
      BY <1>4, OthersIdle
    <2>2. CASE ResumeStart(k)
      BY <2>1, <2>2 DEF ResumeStart, Spawn
    <2>3. CASE ResumeAttach(k)
      BY <2>1, <2>3 DEF ResumeAttach
    <2>4. CASE ResumeServe(k) \/ ResumeFails(k)
      BY <2>1, <2>4 DEF ResumeServe, ResumeFails
    <2> QED
      BY <1>4, <2>2, <2>3, <2>4 DEF Resume
  <1>5. CASE Boot \/ BootFails
    BY <1>5 DEF Boot, BootFails, Spawn
  <1>6. CASE Close
    <2>1. CASE StopMark
      BY <2>1 DEF StopMark, Running
    <2>2. CASE StopListener \/ StopRelease \/ StopReap
      BY <2>2 DEF StopListener, StopRelease, StopReap
    <2> QED
      BY <1>6, <2>1, <2>2 DEF Close
  <1>7. CASE Exit
    BY <1>7 DEF Exit
  <1>8. ASSUME NEW e \in Engines, EngineExits(e) PROVE ServeInv'
    BY <1>8 DEF EngineExits
  <1>9. CASE UNCHANGED vars
    BY <1>9 DEF vars
  <1> QED
    BY <1>1, <1>2, <1>3, <1>4, <1>5, <1>6, <1>7, <1>8, <1>9 DEF Next

(* What the comment of Resume promises, for any number of installs, timed  *)
(* out or killed at any point: until two of their actions meet, a resident *)
(* that lets requests through has an engine.                               *)
THEOREM ServingImpliesEngine == Spec => []ServingHasEngine
  <1>1. Init => ServeInv
    BY DEF Init, ServeInv, ServingHasEngine, Conns
  <1>2. ServeInv => ServingHasEngine
    BY DEF ServeInv
  <1> QED
    BY <1>1, <1>2, Alone, ServeStep, PTL DEF Spec

-----------------------------------------------------------------------------
(* The engines in hand. Between the release of an engine and the           *)
(* attachment of the next none is attached, so that neither assignment to  *)
(* s.engine overwrites an engine that still runs.                          *)
HandInv ==
    /\ stop = "listener" => srv = "accepting"
    /\ srv = "starting" =>
          /\ stop = "no" /\ engine = None /\ ~closed /\ \A e \in Engines : proc[e] = "none"
          /\ \A k \in Installers : pc[k] = "idle" /\ ~held[k]
    /\ ~met /\ closed => engine = None
    /\ ~met => \A k \in Installers :
          /\ pc[k] \in {"drain", "release"} => engine \in {None, eng[k]}
          /\ pc[k] \in {"reap", "clear"} /\ engine # None => shut[engine]
          /\ pc[k] \in {"start", "attach"} \/ held[k] => engine = None
    /\ NoEngineLost

LEMMA HandStep ==
    ASSUME TypeOK, AloneInv, HandInv, [Next]_vars
    PROVE  HandInv'
  <1>0. met => met'
    BY MetStays
  <1> USE DEF TypeOK, HandInv, NoEngineLost, InHand, Conns, QuiescePc, ResumePc,
              srvVars, engVars, connVars, instVars, stopVars, Goto, Reply
  <1>1. ASSUME NEW r \in Readers, Reader(r) \/ CallGoroutine(r) PROVE HandInv'
    BY <1>1, BesideActions
  <1>2. ASSUME NEW k \in Installers, Installer(k) PROVE HandInv'
    BY <1>2 DEF Installer, AcceptInstaller, Accept, InstallerDies, InstallerLeaves
  <1>3. ASSUME NEW k \in Installers, Quiesce(k) PROVE HandInv'
    <2>1. ~met => /\ ~closed /\ ~held[k]
                  /\ \A j \in Installers \ {k} :
                        /\ ~held[j] /\ ~held'[j] /\ eng'[j] = eng[j] /\ pc'[j] = pc[j]
                        /\ pc[j] \notin QuiescePc \cup ResumePc
      BY <1>3, OthersIdle
    <2>2. CASE QuiesceMark(k)
      BY <1>0, <2>1, <2>2 DEF QuiesceMark
    <2>3. CASE QuiesceDrain(k)
      BY <1>0, <2>1, <2>3 DEF QuiesceDrain
    <2>4. CASE QuiesceRelease(k)
      BY <1>0, <2>1, <2>4 DEF QuiesceRelease
    <2>5. CASE QuiesceReap(k)
      BY <1>0, <2>1, <2>5 DEF QuiesceReap
    <2>6. CASE QuiesceClear(k)
      BY <1>0, <2>1, <2>6 DEF QuiesceClear
    <2> QED
      BY <1>3, <2>2, <2>3, <2>4, <2>5, <2>6 DEF Quiesce
  <1>4. ASSUME NEW k \in Installers, Resume(k) PROVE HandInv'
    <2>1. ~met => /\ ~closed /\ ~held[k]
                  /\ \A j \in Installers \ {k} :
                        /\ ~held[j] /\ ~held'[j] /\ eng'[j] = eng[j] /\ pc'[j] = pc[j]
                        /\ pc[j] \notin QuiescePc \cup ResumePc
      BY <1>4, OthersIdle
    <2>2. CASE ResumeStart(k)
      BY <1>0, <2>1, <2>2 DEF ResumeStart, Spawn
    <2>3. CASE ResumeFails(k)
      BY <1>0, <2>1, <2>3 DEF ResumeFails
    <2>4. CASE ResumeAttach(k)
      BY <1>0, <2>1, <2>4 DEF ResumeAttach
    <2>5. CASE ResumeServe(k)
      BY <1>0, <2>1, <2>5 DEF ResumeServe
    <2> QED
      BY <1>4, <2>2, <2>3, <2>4, <2>5 DEF Resume
  <1>5. CASE Boot
    BY <1>5 DEF Boot, Spawn
  <1>6. CASE BootFails
    BY <1>6 DEF BootFails
  <1>7. CASE Close
    <2>1. CASE StopMark
      BY <1>0, <2>1 DEF StopMark, Running
    <2>2. CASE StopListener
      BY <2>2 DEF StopListener
    <2>3. CASE StopRelease
      BY <2>3 DEF StopRelease
    <2>4. CASE StopReap
      BY <2>4 DEF StopReap
    <2> QED
      BY <1>7, <2>1, <2>2, <2>3, <2>4 DEF Close
  <1>8. CASE Exit
    BY <1>8 DEF Exit
  <1>9. ASSUME NEW e \in Engines, EngineExits(e) PROVE HandInv'
    BY <1>9 DEF EngineExits
  <1>10. CASE UNCHANGED vars
    BY <1>10 DEF vars
  <1> QED
    BY <1>1, <1>2, <1>3, <1>4, <1>5, <1>6, <1>7, <1>8, <1>9, <1>10 DEF Next

(* server.go assigns s.engine in two places, and until two control actions *)
(* or one and the Close meet, neither loses an engine that still runs: it  *)
(* is attached to a server that will close it, or in the hands of the      *)
(* goroutine that starts or closes it.                                     *)
THEOREM EnginesAreKept == Spec => []NoEngineLost
  <1>1. Init => HandInv
    BY DEF Init, HandInv, NoEngineLost, Conns
  <1>2. HandInv => NoEngineLost
    BY DEF HandInv
  <1>3. TypeOK /\ AloneInv /\ HandInv /\ [Next]_vars => HandInv'
    BY HandStep
  <1> QED
    BY <1>1, <1>2, <1>3, Alone, PTL DEF Spec

(* Until the resident is closed, an engine that runs is the attached one   *)
(* or about to be, and one whose child is closed has ended or is awaited   *)
(* by the quiesce that closed it.                                          *)
WindowInv ==
    /\ ~met => \A k \in Installers :
          pc[k] = "clear" \/ held[k] => \A e \in Engines : proc[e] # "up"
    /\ ~met /\ ~closed =>
          /\ \A e \in Engines : proc[e] = "up" =>
                engine = e \/ \E k \in Installers : pc[k] = "attach" /\ eng[k] = e
          /\ \A e \in Engines : shut[e] =>
                proc[e] = "exited" \/ \E k \in Installers : pc[k] = "reap" /\ eng[k] = e
          /\ \A k \in Installers : pc[k] \in {"drain", "release", "reap"} => eng[k] = engine
    /\ srv = "stopped" \/ stop # "no" => closed

LEMMA WindowStep ==
    ASSUME TypeOK, AloneInv, HandInv, WindowInv, [Next]_vars
    PROVE  WindowInv'
  <1>0. met => met'
    BY MetStays
  <1> USE DEF TypeOK, WindowInv, Conns, QuiescePc, ResumePc,
              srvVars, engVars, connVars, instVars, stopVars, Goto, Reply
  <1>1. ASSUME NEW r \in Readers, Reader(r) \/ CallGoroutine(r) PROVE WindowInv'
    BY <1>1, BesideActions
  <1>2. ASSUME NEW k \in Installers, Installer(k) PROVE WindowInv'
    BY <1>2 DEF Installer, AcceptInstaller, Accept, InstallerDies, InstallerLeaves
  <1>3. ASSUME NEW k \in Installers, Quiesce(k) PROVE WindowInv'
    <2>1. ~met => /\ ~closed /\ ~held[k]
                  /\ \A j \in Installers \ {k} :
                        /\ ~held[j] /\ ~held'[j] /\ eng'[j] = eng[j] /\ pc'[j] = pc[j]
                        /\ pc[j] \notin QuiescePc \cup ResumePc
      BY <1>3, OthersIdle
    <2>2. CASE QuiesceMark(k)
      BY <1>0, <2>1, <2>2 DEF QuiesceMark
    <2>3. CASE QuiesceDrain(k)
      BY <1>0, <2>1, <2>3 DEF QuiesceDrain
    <2>4. CASE QuiesceRelease(k)
      BY <1>0, <2>1, <2>4 DEF QuiesceRelease
    <2>5. CASE QuiesceReap(k)
      BY <1>0, <2>1, <2>5 DEF QuiesceReap
    <2>6. CASE QuiesceClear(k)
      BY <1>0, <2>1, <2>6 DEF QuiesceClear
    <2> QED
      BY <1>3, <2>2, <2>3, <2>4, <2>5, <2>6 DEF Quiesce
  <1>4. ASSUME NEW k \in Installers, Resume(k) PROVE WindowInv'
    <2>1. ~met => /\ ~closed /\ ~held[k]
                  /\ \A j \in Installers \ {k} :
                        /\ ~held[j] /\ ~held'[j] /\ eng'[j] = eng[j] /\ pc'[j] = pc[j]
                        /\ pc[j] \notin QuiescePc \cup ResumePc
      BY <1>4, OthersIdle
    <2>2. CASE ResumeStart(k)
      <3>1. PICK x \in Engines : Spawn(x) /\ eng' = [eng EXCEPT ![k] = x]
        BY <2>2 DEF ResumeStart
      <3>2. /\ pc[k] = "start" /\ pc'[k] = "attach" /\ eng'[k] = x /\ (~met => engine = None)
            /\ UNCHANGED <<srv, engine, closed, shut, held, stop, met>>
        BY <2>2, <3>1 DEF ResumeStart, Spawn, HandInv
      <3>3. proc' = [proc EXCEPT ![x] = "up"] /\ proc[x] = "none"
        BY <3>1 DEF Spawn
      <3>4. \A e \in Engines : e # x => proc'[e] = proc[e]
        BY <3>3
      <3>5. ASSUME ~met PROVE ~shut[x] /\ \A e \in Engines : proc[e] # "up"
        BY <2>1, <3>2, <3>3, <3>5
      <3> QED
        BY <2>1, <3>2, <3>4, <3>5
    <2>3. CASE ResumeFails(k)
      BY <1>0, <2>1, <2>3 DEF ResumeFails
    <2>4. CASE ResumeAttach(k)
      <3>1. /\ pc[k] = "attach" /\ pc'[k] = "unquiesce" /\ engine' = eng[k]
            /\ ~met => engine = None
            /\ UNCHANGED <<srv, closed, proc, shut, held, stop, eng, met>>
        BY <2>4 DEF ResumeAttach, HandInv
      <3> QED
        BY <2>1, <3>1
    <2>5. CASE ResumeServe(k)
      BY <1>0, <2>1, <2>5 DEF ResumeServe
    <2> QED
      BY <1>4, <2>2, <2>3, <2>4, <2>5 DEF Resume
  <1>5. CASE Boot
    <2>1. PICK x \in Engines : Spawn(x) /\ engine' = x
      BY <1>5 DEF Boot
    <2>2. /\ srv = "starting" /\ srv' = "accepting"
          /\ UNCHANGED <<closed, shut, pc, eng, held, stop, met>>
      BY <1>5, <2>1 DEF Boot, Spawn
    <2>3. /\ \A e \in Engines : proc[e] = "none"
          /\ \A k \in Installers : pc[k] = "idle" /\ ~held[k]
          /\ stop = "no" /\ ~closed
      BY <2>2 DEF HandInv
    <2>4. \A e \in Engines : e # x => proc'[e] = "none"
      BY <2>1, <2>3 DEF Spawn
    <2>5. ~met => \A e \in Engines : ~shut[e]
      BY <2>3
    <2> QED
      BY <2>1, <2>2, <2>3, <2>4, <2>5
  <1>6. CASE BootFails
    BY <1>6 DEF BootFails
  <1>7. CASE Close
    <2>1. CASE StopMark
      BY <1>0, <2>1 DEF StopMark, Running
    <2>2. CASE StopListener
      BY <2>2 DEF StopListener
    <2>3. CASE StopRelease
      BY <2>3 DEF StopRelease
    <2>4. CASE StopReap
      BY <2>4 DEF StopReap
    <2> QED
      BY <1>7, <2>1, <2>2, <2>3, <2>4 DEF Close
  <1>8. CASE Exit
    BY <1>8 DEF Exit
  <1>9. ASSUME NEW e \in Engines, EngineExits(e) PROVE WindowInv'
    BY <1>9 DEF EngineExits
  <1>10. CASE UNCHANGED vars
    BY <1>10 DEF vars
  <1> QED
    BY <1>1, <1>2, <1>3, <1>4, <1>5, <1>6, <1>7, <1>8, <1>9, <1>10 DEF Next

(* What quiesceResident waits for: from its answer to the request for the  *)
(* next engine, no engine runs from the binary that is being replaced,     *)
(* until a control action of another install meets it.                     *)
THEOREM SwapIsSafe == Spec => []SwapWindow
  <1>1. Init => HandInv /\ WindowInv
    BY DEF Init, HandInv, WindowInv, NoEngineLost, Conns
  <1>2. WindowInv => SwapWindow
    BY DEF WindowInv, SwapWindow
  <1>3. TypeOK /\ AloneInv /\ HandInv /\ [Next]_vars => HandInv'
    BY HandStep
  <1>4. TypeOK /\ AloneInv /\ HandInv /\ WindowInv /\ [Next]_vars => WindowInv'
    BY WindowStep
  <1> QED
    BY <1>1, <1>2, <1>3, <1>4, Alone, PTL DEF Spec

-----------------------------------------------------------------------------
(* Refinement: each engine is driven as a serial engine.                   *)

(* A call is only ever started on an engine, and one that is inside holds  *)
(* the mutex of its child; a child is marked closed under that mutex.      *)
CallInv ==
    /\ \A r \in Readers :
          /\ pc[r] = "queued" \/ call[r] \in {"lock", "busy"} => eng[r] \in Engines
          /\ pc[r] \in {"gate", "queued"} => call[r] = "idle"
          /\ call[r] = "busy" => cmu[eng[r]] = r
    /\ \A e \in Engines : shut[e] => cmu[e] = None

Calls(e) == [r \in Readers |-> CallOn(e, r)]

EngineStep(e) == [Contract(e)!Next]_(Contract(e)!vars)

LEMMA StepOfEngine ==
    ASSUME NEW e \in Engines,
           \/ UNCHANGED <<Calls(e), shut[e], dead[e]>>
           \/ \E r \in Readers :
                 \/ Contract(e)!Enter(r) \/ Contract(e)!Begin(r) \/ Contract(e)!Refuse(r)
                 \/ Contract(e)!Answer(r) \/ Contract(e)!Break(r) \/ Contract(e)!Forget(r)
           \/ Contract(e)!Close
    PROVE  EngineStep(e)
  BY DEF EngineStep, Calls, Contract!Next, Contract!vars

(* Steps that leave the calls, the engines and their marks as they are.    *)
LEMMA OffTheEngines ==
    ASSUME UNCHANGED <<call, shut, dead>>, \A r \in Readers : eng'[r] = eng[r]
    PROVE  \A e \in Engines : EngineStep(e)
  <1> SUFFICES ASSUME NEW e \in Engines PROVE EngineStep(e)
    OBVIOUS
  <1>1. UNCHANGED Calls(e)
    BY DEF Calls, CallOn
  <1> QED
    BY <1>1, StepOfEngine

(* A step of the call of one reader.                                       *)
LEMMA CallsStep ==
    ASSUME NEW e \in Engines, NEW r \in Readers, NEW v, CallOn(e, r)' = v,
           \A s \in Readers \ {r} : eng'[s] = eng[s] /\ call'[s] = call[s]
    PROVE  Calls(e)' = [Calls(e) EXCEPT ![r] = v]
  BY DEF Calls, CallOn

LEMMA FreeWhenUnlocked ==
    ASSUME TypeOK, CallInv, NEW e \in Engines, cmu[e] = None
    PROVE  Contract(e)!Free
  <1> SUFFICES ASSUME NEW r \in Readers PROVE CallOn(e, r) # "running"
    BY DEF Contract!Free
  <1>1. ~(eng[r] = e /\ call[r] = "busy")
    BY DEF CallInv
  <1>2. call[r] \in {"idle", "lock", "busy", "answered", "failed", "childclosed"}
    BY DEF TypeOK
  <1> QED
    BY <1>1, <1>2 DEF CallOn

(* The steps of a call on its own engine; the other engines see nothing.   *)
LEMMA CallGoroutineStep ==
    ASSUME TypeOK, TypeOK', CallInv, NEW r \in Readers, CallGoroutine(r)
    PROVE  CallInv' /\ \A e \in Engines : EngineStep(e)
  <1> USE DEF TypeOK, Conns, srvVars, engVars, connVars, instVars, stopVars, CallEnds
  <1>1. PICK x \in Engines : x = eng[r]
    BY DEF CallInv, CallGoroutine, CallSends, CallRefused, EngineAnswers, CallMeetsEof
  <1>2. ASSUME NEW e \in Engines, e # x PROVE EngineStep(e)
    <2>1. UNCHANGED <<eng, shut[e], dead[e]>> /\ \A s \in Readers \ {r} : call'[s] = call[s]
      BY <1>1, <1>2 DEF CallGoroutine, CallSends, CallRefused, EngineAnswers, CallMeetsEof
    <2>2. UNCHANGED Calls(e)
      BY <1>1, <1>2, <2>1 DEF Calls, CallOn
    <2> QED
      BY <2>1, <2>2, StepOfEngine
  <1>3. CASE CallSends(r)
    <2>1. CallOn(x, r) = "queued" /\ CallOn(x, r)' = "running"
      BY <1>1, <1>3 DEF CallSends, CallOn
    <2>2. Calls(x)' = [Calls(x) EXCEPT ![r] = "running"]
      BY <1>1, <1>3, <2>1, CallsStep DEF CallSends
    <2>3. Contract(x)!Free
      BY <1>1, <1>3, FreeWhenUnlocked DEF CallSends
    <2>4. Contract(x)!Begin(r)
      BY <1>1, <1>3, <2>1, <2>2, <2>3 DEF CallSends, Calls, Contract!Begin
    <2>5. CallInv'
      BY <1>1, <1>3 DEF CallSends, CallInv
    <2>6. EngineStep(x)
      BY <1>1, <2>4, StepOfEngine
    <2> QED
      BY <1>2, <2>5, <2>6
  <1>4. CASE CallRefused(r)
    <2>1. CallOn(x, r) = "queued" /\ CallOn(x, r)' = "refused"
      BY <1>1, <1>4 DEF CallRefused, CallOn
    <2>2. Calls(x)' = [Calls(x) EXCEPT ![r] = "refused"]
      BY <1>1, <1>4, <2>1, CallsStep DEF CallRefused
    <2>3. Contract(x)!Free
      BY <1>1, <1>4, FreeWhenUnlocked DEF CallRefused
    <2>4. Contract(x)!Refuse(r) \/ Contract(x)!Break(r)
      BY <1>1, <1>4, <2>1, <2>2, <2>3 DEF CallRefused, Calls, Contract!Refuse, Contract!Break
    <2>5. CallInv'
      BY <1>1, <1>4 DEF CallRefused, CallInv
    <2>6. EngineStep(x)
      BY <1>1, <2>4, StepOfEngine
    <2> QED
      BY <1>2, <2>5, <2>6
  <1>5. CASE EngineAnswers(r)
    <2>1. CallOn(x, r) = "running" /\ CallOn(x, r)' = "answered"
      BY <1>1, <1>5 DEF EngineAnswers, CallOn
    <2>2. Calls(x)' = [Calls(x) EXCEPT ![r] = "answered"]
      BY <1>1, <1>5, <2>1, CallsStep DEF EngineAnswers
    <2>3. Contract(x)!Answer(r)
      BY <1>1, <1>5, <2>1, <2>2 DEF EngineAnswers, Calls, Contract!Answer
    <2>4. CallInv'
      BY <1>1, <1>5 DEF EngineAnswers, CallInv
    <2>5. EngineStep(x)
      BY <1>1, <2>3, StepOfEngine
    <2> QED
      BY <1>2, <2>4, <2>5
  <1>6. CASE CallMeetsEof(r)
    <2>1. CallOn(x, r) = "running" /\ CallOn(x, r)' = "refused"
      BY <1>1, <1>6 DEF CallMeetsEof, CallOn
    <2>2. Calls(x)' = [Calls(x) EXCEPT ![r] = "refused"]
      BY <1>1, <1>6, <2>1, CallsStep DEF CallMeetsEof
    <2>3. Contract(x)!Break(r)
      BY <1>1, <1>6, <2>1, <2>2 DEF CallMeetsEof, Calls, Contract!Break
    <2>4. CallInv'
      BY <1>1, <1>6 DEF CallMeetsEof, CallInv
    <2>5. EngineStep(x)
      BY <1>1, <2>3, StepOfEngine
    <2> QED
      BY <1>2, <2>4, <2>5
  <1> QED
    BY <1>3, <1>4, <1>5, <1>6 DEF CallGoroutine

(* The steps of the connections and of Close that start or end a call, or  *)
(* mark a child closed.                                                    *)
LEMMA TakeSlotStep ==
    ASSUME TypeOK, TypeOK', CallInv, NEW r \in Readers, TakeSlot(r)
    PROVE  CallInv' /\ \A e \in Engines : EngineStep(e)
  <1> USE DEF TypeOK, Conns, Goto, TakeSlot, engVars
  <1>1. CallInv'
    BY DEF CallInv
  <1>2. call[r] = "idle" /\ call' = [call EXCEPT ![r] = "lock"] /\ eng' = eng
    BY DEF CallInv
  <1>3. ASSUME NEW e \in Engines, e = eng[r] PROVE EngineStep(e)
    <2>1. CallOn(e, r) = "idle" /\ CallOn(e, r)' = "queued"
      BY <1>2, <1>3 DEF CallOn
    <2>2. Calls(e)' = [Calls(e) EXCEPT ![r] = "queued"]
      BY <1>2, <2>1, CallsStep
    <2>3. Contract(e)!Enter(r)
      BY <2>1, <2>2 DEF Calls, Contract!Enter
    <2> QED
      BY <2>3, StepOfEngine
  <1>4. ASSUME NEW e \in Engines, e # eng[r] PROVE EngineStep(e)
    <2>1. UNCHANGED Calls(e)
      BY <1>2, <1>4 DEF Calls, CallOn
    <2> QED
      BY <2>1, StepOfEngine
  <1> QED
    BY <1>1, <1>3, <1>4

LEMMA GateStep ==
    ASSUME TypeOK, TypeOK', CallInv, NEW r \in Readers, Gate(r)
    PROVE  CallInv' /\ \A e \in Engines : EngineStep(e)
  <1> USE DEF TypeOK, Conns, Goto, Reply, Gate, engVars
  <1>1. CallInv'
    BY DEF CallInv
  <1>2. call[r] = "idle" /\ UNCHANGED <<call, shut, dead>>
    BY DEF CallInv
  <1>3. \A s \in Readers \ {r} : eng'[s] = eng[s]
    OBVIOUS
  <1>4. \A e \in Engines : UNCHANGED Calls(e)
    BY <1>2, <1>3 DEF Calls, CallOn
  <1> QED
    BY <1>1, <1>2, <1>4, StepOfEngine

(* The outcome of a call is read, or dropped with the name of its caller.  *)
LEMMA ForgetStep ==
    ASSUME TypeOK, TypeOK', CallInv, NEW r \in Readers, AcceptReader(r) \/ Return(r)
    PROVE  CallInv' /\ \A e \in Engines : EngineStep(e)
  <1> USE DEF TypeOK, Conns, Goto, Reply, engVars, srvVars
  <1>1. /\ call' = [call EXCEPT ![r] = "idle"] /\ UNCHANGED <<shut, dead, cmu>>
        /\ call[r] \in {"idle", "answered", "failed", "childclosed"}
        /\ eng' = [eng EXCEPT ![r] = None]
        /\ \E l \in {"gate", "idle"} : pc' = [pc EXCEPT ![r] = l]
    BY DEF AcceptReader, Accept, Return
  <1>2. CallInv'
    BY <1>1 DEF CallInv
  <1> SUFFICES ASSUME NEW e \in Engines PROVE EngineStep(e)
    BY <1>2
  <1>3. CallOn(e, r)' = "idle" /\ CallOn(e, r) \in {"idle", "answered", "refused"}
    BY <1>1 DEF CallOn
  <1>4. Calls(e)' = [Calls(e) EXCEPT ![r] = "idle"]
    BY <1>1, <1>3, CallsStep
  <1>5. CASE CallOn(e, r) = "idle"
    <2>1. UNCHANGED Calls(e)
      BY <1>4, <1>5 DEF Calls
    <2> QED
      BY <1>1, <2>1, StepOfEngine
  <1>6. CASE CallOn(e, r) \in {"answered", "refused"}
    <2>1. Contract(e)!Forget(r)
      BY <1>1, <1>4, <1>6 DEF Calls, Contract!Forget
    <2> QED
      BY <2>1, StepOfEngine
  <1> QED
    BY <1>3, <1>5, <1>6

(* Closing a child: the one that Quiesce or Close took, with its mutex     *)
(* free, or none.                                                          *)
LEMMA ReleaseStep ==
    ASSUME TypeOK, TypeOK', CallInv, UNCHANGED <<call, dead, cmu>>,
           NEW x,
           \A r \in Readers : eng'[r] = eng[r] /\ pc'[r] = pc[r],
           \/ UNCHANGED shut
           \/ x \in Engines /\ cmu[x] = None /\ shut' = [shut EXCEPT ![x] = TRUE]
    PROVE  CallInv' /\ \A e \in Engines : EngineStep(e)
  <1> USE DEF TypeOK
  <1>1. CallInv'
    BY DEF CallInv
  <1> SUFFICES ASSUME NEW e \in Engines PROVE EngineStep(e)
    BY <1>1
  <1>2. UNCHANGED Calls(e)
    BY DEF Calls, CallOn
  <1>3. CASE UNCHANGED shut[e]
    BY <1>2, <1>3, StepOfEngine
  <1>4. CASE shut'[e] # shut[e]
    <2>1. e = x /\ cmu[e] = None /\ shut'[e] = TRUE
      BY <1>4
    <2>2. Contract(e)!Free
      BY <2>1, FreeWhenUnlocked
    <2>3. Contract(e)!Close
      BY <1>2, <2>1, <2>2 DEF Calls, Contract!Close
    <2> QED
      BY <2>3, StepOfEngine
  <1> QED
    BY <1>3, <1>4

LEMMA CallStep ==
    TypeOK /\ TypeOK' /\ CallInv /\ [Next]_vars
        => CallInv' /\ \A e \in Engines : EngineStep(e)
  <1> SUFFICES ASSUME TypeOK, TypeOK', CallInv, [Next]_vars
               PROVE  CallInv' /\ \A e \in Engines : EngineStep(e)
    OBVIOUS
  <1> DEFINE Goal == CallInv' /\ \A e \in Engines : EngineStep(e)
  <1> USE DEF srvVars, engVars, connVars, instVars, stopVars, Goto, Reply
  <1>0. ASSUME UNCHANGED <<call, shut, dead, cmu>>,
               \A r \in Readers : eng'[r] = eng[r] /\ (pc'[r] = pc[r] \/ pc'[r] = "idle")
        PROVE  Goal
    BY <1>0, OffTheEngines DEF CallInv
  <1>1. ASSUME NEW r \in Readers, Reader(r) PROVE Goal
    <2>1. CASE AcceptReader(r) \/ Return(r)
      BY <2>1, ForgetStep
    <2>2. CASE TimeOut(r)
      BY <1>0, <2>2 DEF TimeOut, TypeOK, Conns
    <2> QED
      BY <1>1, <2>1, <2>2, GateStep, TakeSlotStep DEF Reader
  <1>2. ASSUME NEW r \in Readers, CallGoroutine(r) PROVE Goal
    BY <1>2, CallGoroutineStep
  <1>3. ASSUME NEW k \in Installers, Installer(k) PROVE Goal
    BY <1>0, <1>3, ConnectionsAssumption
       DEF Installer, AcceptInstaller, Accept, InstallerDies, InstallerLeaves, TypeOK, Conns
  <1>4. ASSUME NEW k \in Installers, Quiesce(k) PROVE Goal
    <2>1. \A r \in Readers : eng'[r] = eng[r] /\ pc'[r] = pc[r]
      BY <1>4, ConnectionsAssumption
         DEF Quiesce, QuiesceMark, QuiesceDrain, QuiesceRelease, QuiesceReap, QuiesceClear,
             TypeOK, Conns
    <2>2. CASE QuiesceRelease(k)
      <3>1. eng[k] \in Engines \cup {None}
        BY DEF TypeOK, Conns
      <3> QED
        BY <2>1, <2>2, <3>1, ReleaseStep DEF QuiesceRelease
    <2>3. CASE QuiesceMark(k) \/ QuiesceDrain(k) \/ QuiesceReap(k) \/ QuiesceClear(k)
      BY <1>0, <2>1, <2>3 DEF QuiesceMark, QuiesceDrain, QuiesceReap, QuiesceClear
    <2> QED
      BY <1>4, <2>2, <2>3 DEF Quiesce
  <1>5. ASSUME NEW k \in Installers, Resume(k) PROVE Goal
    <2>1. \A r \in Readers : eng'[r] = eng[r] /\ pc'[r] = pc[r]
      BY <1>5, ConnectionsAssumption
         DEF Resume, ResumeStart, ResumeFails, ResumeAttach, ResumeServe, TypeOK, Conns
    <2> QED
      BY <1>0, <1>5, <2>1 DEF Resume, ResumeStart, ResumeFails, ResumeAttach, ResumeServe, Spawn
  <1>6. CASE Close
    <2>1. CASE StopRelease
      BY <2>1, ReleaseStep DEF StopRelease, TypeOK
    <2>2. CASE StopMark \/ StopListener \/ StopReap
      BY <1>0, <2>2 DEF StopMark, StopListener, StopReap
    <2> QED
      BY <1>6, <2>1, <2>2 DEF Close
  <1>7. CASE Boot \/ BootFails
    BY <1>0, <1>7 DEF Boot, BootFails, Spawn
  <1>8. CASE Exit
    BY <1>0, <1>8 DEF Exit, TypeOK, Conns
  <1>9. ASSUME NEW e \in Engines, EngineExits(e) PROVE Goal
    BY <1>0, <1>9 DEF EngineExits
  <1>10. CASE UNCHANGED vars
    BY <1>0, <1>10 DEF vars
  <1> QED
    BY <1>1, <1>2, <1>3, <1>4, <1>5, <1>6, <1>7, <1>8, <1>9, <1>10 DEF Next

LEMMA CallInit == Init => CallInv /\ \A e \in Engines : Contract(e)!Init
  <1> SUFFICES ASSUME Init PROVE CallInv /\ \A e \in Engines : Contract(e)!Init
    OBVIOUS
  <1>1. CallInv
    BY DEF Init, CallInv, Conns
  <1>2. \A e \in Engines, r \in Readers : CallOn(e, r) = "idle"
    BY DEF Init, CallOn, Conns
  <1>3. \A e \in Engines : Contract(e)!Init
    BY <1>2 DEF Init, Contract!Init
  <1> QED
    BY <1>1, <1>3

(* Every engine is driven one call at a time and is never closed under a   *)
(* call, whatever times out, swaps or stops: s.one is given back by a call *)
(* that timed out, and it is the mutex of the child that keeps the promise.*)
THEOREM EnginesAreSerial == Spec => EachEngineSerial
  <1>1. TypeOK /\ TypeOK' /\ CallInv /\ [Next]_vars
            => [\A e \in Engines : UNCHANGED Contract(e)!vars \/ Contract(e)!Next]_<<call, eng, shut, dead>>
    BY CallStep DEF EngineStep
  <1>2. TypeOK /\ TypeOK' /\ CallInv /\ [Next]_vars => CallInv'
    BY CallStep
  <1> QED
    BY <1>1, <1>2, CallInit, TypeCorrect, PTL DEF Spec, EachEngineSerial

-----------------------------------------------------------------------------
(* The address of a resident (Endpoint): the path and the pid file in      *)
(* front of Serve.                                                         *)

LEMMA PathTypeStep == AddressTypeOK /\ [AddressNext]_endpoint => AddressTypeOK'
  <1> SUFFICES ASSUME AddressTypeOK, [AddressNext]_endpoint PROVE AddressTypeOK'
    OBVIOUS
  <1> USE DEF AddressTypeOK, States, Moves, address, callers
  <1>1. ASSUME NEW r \in Residents, Startup(r) PROVE AddressTypeOK'
    <2>1. UNCHANGED callers /\ upset' \in BOOLEAN
      BY <1>1 DEF Startup, Bind, Listen, Alive, Remove, Rebind, WritePid, RemovePid, CloseListener,
         Leave
    <2>2. sock' \in Residents \cup {Nobody} /\ pidfile' \in Residents \cup {Nobody}
      BY <1>1 DEF Startup, Bind, Listen, Alive, Remove, Rebind, WritePid, RemovePid, CloseListener,
         Leave
    <2>3. PICK l \in States : serve' = [serve EXCEPT ![r] = l]
      BY <1>1 DEF Startup, Bind, Listen, Alive, Remove, Rebind, WritePid, RemovePid, CloseListener,
         Leave
    <2> QED
      BY <2>1, <2>2, <2>3
  <1>2. ASSUME NEW r \in Residents, StartByHand(r) \/ EnsureEngine(r) \/ Stop(r) \/ Crash(r)
        PROVE AddressTypeOK'
    BY <1>2 DEF StartByHand, Start, EnsureEngine, Stop, Crash
  <1>3. ASSUME NEW c \in Clients, Call(c) PROVE AddressTypeOK'
    BY <1>3 DEF Call, Dial, Dialled, Listening, Answer, Hangup, Deadline
  <1>4. ASSUME NEW d \in Detachers, Detach(d) PROVE AddressTypeOK'
    BY <1>4 DEF Detach, Check, WaitReady, WaitEnds, StartDetached, Start, Report
  <1>5. CASE UNCHANGED endpoint
    BY <1>5 DEF endpoint
  <1> QED
    BY <1>1, <1>2, <1>3, <1>4, <1>5 DEF AddressNext

(* Path, files and processes have their types.                             *)
THEOREM PathTypeCorrect == AddressSpec => []AddressTypeOK
  <1>1. AddressInit => AddressTypeOK
    BY DEF AddressInit, AddressTypeOK, States
  <1> QED
    BY <1>1, PathTypeStep, PTL DEF AddressSpec

(* What a resident on its way up or down finds at the path, while no start *)
(* has overlapped a start or a stop: whoever was there did not serve, or   *)
(* it would have answered; and from the bind on the path is its own.       *)
NobodyServes == \A s \in Residents : serve[s] # "serve"
AddressInv ==
    ~upset =>
        /\ \A r, s \in Unsettled : r = s
        /\ \A r \in Residents : serve[r] = "serve" => sock = r /\ pidfile = r
        /\ \A r \in Residents :
              /\ serve[r] \in {"alive", "remove"} => sock # Nobody
              /\ serve[r] = "rebind" => sock = Nobody
              /\ serve[r] \in {"listen", "pid", "engine", "unpid", "unlisten"} => sock = r
              /\ serve[r] = "engine" => pidfile = r
              /\ serve[r] \in {"remove", "rebind", "listen", "pid", "engine", "unpid", "unlisten", "exit"}
                    => NobodyServes

LEMMA AddressStep == AddressTypeOK /\ AddressInv /\ [AddressNext]_endpoint => AddressInv'
  <1> SUFFICES ASSUME AddressTypeOK, AddressInv, [AddressNext]_endpoint, ~upset'
      PROVE AddressInv'
    BY DEF AddressInv
  <1> USE DEF AddressTypeOK, Moves, address, callers, NobodyServes, Unsettled, Steady, Down,
     AddressInv
  <1>1. ASSUME NEW r \in Residents, Startup(r) PROVE AddressInv'
    <2>0. ~upset /\ serve[r] \notin Steady /\ \A s \in Residents : s # r => serve[s] \in Steady /\ serve'[s] = serve[s]
      BY <1>1 DEF Startup, Bind, Listen, Alive, Remove, Rebind, WritePid, RemovePid, CloseListener,
         Leave
    <2>1. CASE Bind(r)
      BY <2>0, <2>1, EndpointAssumption DEF Bind
    <2>2. CASE Listen(r)
      BY <2>0, <2>2 DEF Listen
    <2>3. CASE Alive(r)
      BY <2>0, <2>3 DEF Alive, Dialled, Listening
    <2>4. CASE Remove(r)
      BY <2>0, <2>4 DEF Remove
    <2>5. CASE Rebind(r)
      BY <2>0, <2>5 DEF Rebind
    <2>6. CASE WritePid(r)
      BY <2>0, <2>6 DEF WritePid
    <2>7. CASE RemovePid(r)
      BY <2>0, <2>7 DEF RemovePid
    <2>8. CASE CloseListener(r)
      BY <2>0, <2>8 DEF CloseListener
    <2>9. CASE Leave(r)
      BY <2>0, <2>9 DEF Leave
    <2> QED
      BY <1>1, <2>1, <2>2, <2>3, <2>4, <2>5, <2>6, <2>7, <2>8, <2>9 DEF Startup
  <1>2. ASSUME NEW r \in Residents, EnsureEngine(r) PROVE AddressInv'
    <2>1. /\ ~upset /\ serve[r] = "engine" /\ serve'[r] \in {"serve", "unpid"}
          /\ \A s \in Residents : s # r => serve[s] \in Down /\ serve'[s] = serve[s]
          /\ sock' = r /\ pidfile' = r
      BY <1>2 DEF EnsureEngine
    <2>2. \A s \in Unsettled' : s = r
      BY <2>1
    <2> QED
      BY <2>1, <2>2
  <1>3. ASSUME NEW r \in Residents, Start(r), UNCHANGED address PROVE AddressInv'
    <2>1. /\ ~upset /\ Unsettled = {}
      BY <1>3 DEF Start
    <2>2. \A s \in Residents : serve[s] \in Steady
      BY <2>1
    <2>3. serve' = [serve EXCEPT ![r] = "bind"] /\ sock' = sock /\ pidfile' = pidfile
      BY <1>3 DEF Start
    <2>4. \A s \in Residents : serve'[s] = IF s = r THEN "bind" ELSE serve[s]
      BY <2>3
    <2>5. \A s \in Unsettled' : s = r
      BY <2>2, <2>4
    <2>6. \A s \in Residents : serve'[s] = "serve" => sock' = s /\ pidfile' = s
      BY <2>1, <2>3, <2>4
    <2>7. \A s \in Residents : serve'[s] \in {"bind"} \cup Steady
      BY <2>2, <2>4
    <2>8. \A s \in Residents : serve'[s] \notin {"alive", "remove", "rebind", "listen", "pid", "engine",
                                            "unpid", "unlisten", "exit"}
      BY <2>7
    <2>9. \A s, u \in Unsettled' : s = u
      BY <2>5
    <2> HIDE DEF Unsettled, NobodyServes
    <2> QED
      BY <2>6, <2>8, <2>9
  <1>4. ASSUME NEW r \in Residents, Stop(r) PROVE AddressInv'
    <2>1. /\ ~upset /\ Unsettled = {} /\ serve[r] = "serve"
          /\ serve' = [serve EXCEPT ![r] = "exit"]
      BY <1>4 DEF Stop
    <2>2. \A s \in Residents : serve[s] \in Steady /\ (s # r => serve[s] # "serve")
      BY <2>1
    <2>3. \A s \in Residents : serve'[s] = IF s = r THEN "exit" ELSE serve[s]
      BY <2>1
    <2>4. \A s \in Residents : serve'[s] \in {"exit"} \cup Down
      BY <2>2, <2>3
    <2>5. \A s, u \in Unsettled' : s = u
      BY <2>2, <2>3
    <2>6. NobodyServes'
      BY <2>4
    <2>7. \A s \in Residents : serve'[s] \notin {"serve", "alive", "remove", "rebind", "listen", "pid",
                                            "engine", "unpid", "unlisten"}
      BY <2>4
    <2> HIDE DEF Unsettled, NobodyServes
    <2> QED
      BY <2>5, <2>6, <2>7
  <1>5. ASSUME NEW r \in Residents, Crash(r) PROVE AddressInv'
    BY <1>5 DEF Crash
  <1>6. ASSUME UNCHANGED <<address, serve, upset>> PROVE AddressInv'
    BY <1>6
  <1>7. ASSUME NEW c \in Clients, Call(c) PROVE AddressInv'
    BY <1>6, <1>7 DEF Call, Dial, Answer, Hangup, Deadline
  <1>8. ASSUME NEW d \in Detachers, Detach(d) PROVE AddressInv'
    BY <1>3, <1>6, <1>8 DEF Detach, Check, WaitReady, WaitEnds, StartDetached, Report
  <1>9. CASE UNCHANGED endpoint
    BY <1>6, <1>9 DEF endpoint
  <1> QED
    BY <1>1, <1>2, <1>3, <1>4, <1>5, <1>7, <1>8, <1>9 DEF AddressNext, StartByHand

LEMMA AddressInvariant == AddressSpec => [](AddressTypeOK /\ AddressInv)
  <1>1. AddressInit => AddressInv
    BY DEF AddressInit, AddressInv, Unsettled, Steady, Down, NobodyServes
  <1> QED
    BY <1>1, PathTypeCorrect, AddressStep, PTL DEF AddressSpec

(* While no start overlaps a start or a stop the path and the pid file     *)
(* lead to the one resident that serves.                                   *)
THEOREM ServingIsFound == AddressSpec => []ServingIsAddressed
  <1>1. AddressTypeOK /\ AddressInv => ServingIsAddressed
    BY DEF AddressTypeOK, AddressInv, ServingIsAddressed, Serving
  <1> QED
    BY <1>1, AddressInvariant, PTL

(* A start that overlaps no other is refused its address only while        *)
(* another resident serves.                                                *)
THEOREM StaleNeverRefuses == AddressSpec => StaleIsTakenOver
  <1> DEFINE Refused == \A r \in Residents :
                 /\ serve[r] \in {"alive", "remove", "rebind"}
                 /\ serve'[r] \in {"busy", "gone"}
                 /\ ~upset
                 => Serving # {}
  <1>1. AddressTypeOK /\ AddressInv /\ [AddressNext]_endpoint => [Refused]_endpoint
    <2> SUFFICES ASSUME AddressTypeOK, AddressInv, [AddressNext]_endpoint, NEW r \in Residents,
                        serve[r] \in {"alive", "remove", "rebind"}, serve'[r] \in {"busy", "gone"}, ~upset
                 PROVE  Serving # {}
      OBVIOUS
    <2> USE DEF AddressTypeOK, Moves
    <2>1. Alive(r) \/ Remove(r) \/ Rebind(r)
      <3>1. ASSUME NEW s \in Residents, Startup(s)
            PROVE s = r /\ (Alive(r) \/ Remove(r) \/ Rebind(r))
        <4>1. s = r
          BY <3>1 DEF Startup, Bind, Listen, Alive, Remove, Rebind, WritePid, RemovePid,
             CloseListener, Leave
        <4> QED
          BY <3>1, <4>1 DEF Startup, Bind, Listen, WritePid, RemovePid, CloseListener, Leave
      <3>2. ASSUME NEW s \in Residents, Start(s) \/ EnsureEngine(s) \/ Stop(s) \/ Crash(s)
            PROVE FALSE
        BY <3>2 DEF Start, EnsureEngine, Stop, Crash
      <3>3. ASSUME serve' = serve PROVE FALSE
        BY <3>3
      <3>4. ASSUME NEW c \in Clients, Call(c) PROVE FALSE
        BY <3>3, <3>4 DEF Call, Dial, Answer, Hangup, Deadline
      <3>5. ASSUME NEW d \in Detachers, Detach(d) PROVE FALSE
        BY <3>2, <3>3, <3>5 DEF Detach, Check, WaitReady, WaitEnds, StartDetached
      <3> QED
        BY <3>1, <3>2, <3>3, <3>4, <3>5 DEF AddressNext, StartByHand, endpoint
    <2>2. CASE Alive(r)
      <3>1. serve[r] = "alive" /\ sock \in Listening
        BY <2>2 DEF Alive, Dialled
      <3>2. serve[sock] = "serve"
        BY <3>1 DEF Listening, AddressInv, Unsettled, Steady, Down
      <3> QED
        BY <3>1, <3>2 DEF Serving, Listening
    <2>3. CASE Remove(r)
      BY <2>3 DEF Remove, AddressInv
    <2>4. CASE Rebind(r)
      BY <2>4 DEF Rebind, AddressInv
    <2> QED
      BY <2>1, <2>2, <2>3, <2>4
  <1> QED
    BY <1>1, AddressInvariant, PTL DEF AddressSpec, StaleIsTakenOver
=============================================================================
