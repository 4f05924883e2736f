------------------------------ MODULE Resident ------------------------------
(***************************************************************************)
(* The resident: a Unix socket in front of one warm engine, and the        *)
(* installers that swap the engine under it (internal/resident/server.go,  *)
(* with the client's side of a swap in internal/cli/admin.go).             *)
(*                                                                         *)
(* Every accepted connection is a goroutine that serves one request: a     *)
(* tool call by a reader, or a control action by an installer. They share  *)
(* the fields under s.mu (engine, quiesced, closed), the serial slot s.one *)
(* and, inside an engine, the mutex of its Child. A critical section of    *)
(* s.mu is one step; the slot and the child's mutex are held across steps. *)
(* An engine is what SerialEngine promises; Child.tla has its detail.      *)
(***************************************************************************)
EXTENDS Naturals, FiniteSets

CONSTANTS
    Readers,        \* connections that carry a tool request
    Installers,     \* connections that carry control actions, one per `tk install`
    Engines,        \* the engine processes that can be started (a bound for TLC)
    MaxOpen,        \* the connections that may be open at one time (a bound for TLC)
    None            \* no engine, no holder

ASSUME ConnectionsAssumption ==
    /\ Readers \cap Installers = {}
    /\ None \notin Readers /\ None \notin Engines
    /\ MaxOpen \in Nat \ {0}

Conns == Readers \cup Installers

VARIABLES
    srv,            \* the process: "starting", "accepting", "stopped", "exited"
    engine,         \* s.engine
    quiesced,       \* s.quiesced
    closed,         \* s.closed
    one,            \* the holder of s.one
    proc,           \* [Engines -> ...] the process: "none", "up", "exited"
    shut,           \* [Engines -> BOOLEAN] the child's closed flag
    dead,           \* [Engines -> BOOLEAN] the child's dead latch
    cmu,            \* [Engines -> ...] the holder of the child's mutex
    pc,             \* [Conns -> ...] the connection's goroutine
    eng,            \* [Conns -> ...] the engine it read or started
    call,           \* [Readers -> ...] the goroutine CallTimeout runs CallTool in
    held,           \* [Installers -> BOOLEAN] engineReleased: a resume is owed
    gone,           \* [Installers -> BOOLEAN] nobody waits for the reply any more
    met,            \* history: control actions met each other, or the Close
    stop,           \* the goroutine that runs s.Close
    stopEng         \* the engine s.Close took

srvVars == <<srv, engine, quiesced, closed, one>>
engVars == <<proc, shut, dead, cmu>>
connVars == <<pc, eng, call>>
stopVars == <<stop, stopEng>>
instVars == <<held, gone, met>>
vars == <<srvVars, engVars, connVars, instVars, stopVars>>

ToolPc == {"gate", "queued", "calling"}
QuiescePc == {"mark", "drain", "release", "reap", "clear"}
ResumePc == {"start", "attach", "unquiesce"}

TypeOK ==
    /\ srv \in {"starting", "accepting", "stopped", "exited"}
    /\ engine \in Engines \cup {None}
    /\ quiesced \in BOOLEAN
    /\ closed \in BOOLEAN
    /\ one \in Readers \cup {None}
    /\ proc \in [Engines -> {"none", "up", "exited"}]
    /\ shut \in [Engines -> BOOLEAN]
    /\ dead \in [Engines -> BOOLEAN]
    /\ cmu \in [Engines -> Readers \cup {None}]
    /\ pc \in [Conns -> {"idle"} \cup ToolPc \cup QuiescePc \cup ResumePc]
    /\ eng \in [Conns -> Engines \cup {None}]
    /\ call \in [Readers -> {"idle", "lock", "busy", "answered", "failed", "childclosed"}]
    /\ held \in [Installers -> BOOLEAN]
    /\ gone \in [Installers -> BOOLEAN]
    /\ met \in BOOLEAN
    /\ stop \in {"no", "listener", "release", "reap", "done"}
    /\ stopEng \in Engines \cup {None}

Init ==
    /\ srv = "starting"
    /\ engine = None
    /\ quiesced = FALSE
    /\ closed = FALSE
    /\ one = None
    /\ proc = [e \in Engines |-> "none"]
    /\ shut = [e \in Engines |-> FALSE]
    /\ dead = [e \in Engines |-> FALSE]
    /\ cmu = [e \in Engines |-> None]
    /\ pc = [r \in Conns |-> "idle"]
    /\ eng = [r \in Conns |-> None]
    /\ call = [r \in Readers |-> "idle"]
    /\ held = [k \in Installers |-> FALSE]
    /\ gone = [k \in Installers |-> FALSE]
    /\ met = FALSE
    /\ stop = "no"
    /\ stopEng = None

Goto(r, l) == pc' = [pc EXCEPT ![r] = l]

\* The goroutine of r has written its reply and ended, and its locals are gone.
Reply(r) == Goto(r, "idle") /\ eng' = [eng EXCEPT ![r] = None]

\* Start has spawned engine process e and shaken hands with it.
Spawn(e) ==
    /\ proc[e] = "none"
    /\ proc' = [proc EXCEPT ![e] = "up"]
    /\ UNCHANGED <<shut, dead, cmu>>

-----------------------------------------------------------------------------
(* Serve: the socket is bound, the engine started, then connections are    *)
(* accepted, each served by a goroutine of its own.                        *)

Boot ==
    /\ srv = "starting"
    /\ \E e \in Engines : Spawn(e) /\ engine' = e
    /\ srv' = "accepting"
    /\ UNCHANGED <<quiesced, closed, one, connVars, instVars, stopVars>>

BootFails ==
    /\ srv = "starting"
    /\ srv' = "exited"
    /\ UNCHANGED <<engine, quiesced, closed, one, engVars, connVars, instVars, stopVars>>

(* The first critical section a request of each kind reaches in serveConn. *)
(* A request that is malformed, names no tool or asks for the status is    *)
(* answered without touching the server's state and is left out here; the  *)
(* status belongs to Endpoint.                                             *)
Open == {c \in Conns : pc[c] # "idle"}

Accept(r, l) ==
    /\ srv = "accepting" /\ pc[r] = "idle" /\ Cardinality(Open) < MaxOpen
    /\ Goto(r, l)
    /\ UNCHANGED <<srvVars, engVars, stopVars>>

\* The goroutine of an abandoned call has to end before its name is used again here.
AcceptReader(r) ==
    /\ call[r] \notin {"lock", "busy"}
    /\ Accept(r, "gate")
    /\ call' = [call EXCEPT ![r] = "idle"]
    /\ eng' = [eng EXCEPT ![r] = None]
    /\ UNCHANGED instVars

\* A control action of k is being carried out, whether k still waits for it or not.
Running(k) == pc[k] \in QuiescePc \cup ResumePc

\* An installer resumes exactly what its own quiesce released. Nothing in the server keeps
\* its actions from meeting those of another installer, or the Close.
AcceptInstaller(k) ==
    /\ \/ ~held[k] /\ Accept(k, "mark") /\ UNCHANGED held
       \/ held[k] /\ Accept(k, "start") /\ held' = [held EXCEPT ![k] = FALSE]
    /\ met' = (met \/ closed \/ \E j \in Installers \ {k} : Running(j) \/ held[j])
    /\ UNCHANGED <<eng, call, gone>>

\* `tk install` is killed between its quiesce and its resume.
InstallerDies(k) ==
    /\ held[k] /\ pc[k] = "idle"
    /\ held' = [held EXCEPT ![k] = FALSE]
    /\ UNCHANGED <<srvVars, engVars, connVars, gone, met, stopVars>>

\* It is killed, or the deadline of Client.Call passes, while its action runs: the
\* goroutine goes on to its end, and a release it then reports is resumed by nobody.
InstallerLeaves(k) ==
    /\ Running(k) /\ ~gone[k]
    /\ gone' = [gone EXCEPT ![k] = TRUE]
    /\ UNCHANGED <<srvVars, engVars, connVars, held, met, stopVars>>

-----------------------------------------------------------------------------
(* A tool request.                                                         *)

\* What serveConn reads under s.mu, and what it does about it: a request is refused with
\* "closed", "quiesced" or "no engine", or goes on with the engine it has read.
Gate(r) ==
    /\ pc[r] = "gate"
    /\ \/ (closed \/ quiesced \/ engine = None) /\ Reply(r)
       \/ /\ ~closed /\ ~quiesced /\ engine # None
          /\ eng' = [eng EXCEPT ![r] = engine]
          /\ Goto(r, "queued")
    /\ UNCHANGED <<srvVars, engVars, call, instVars, stopVars>>

TakeSlot(r) ==
    /\ pc[r] = "queued" /\ one = None
    /\ one' = r
    /\ call' = [call EXCEPT ![r] = "lock"]
    /\ Goto(r, "calling")
    /\ UNCHANGED <<srv, engine, quiesced, closed, engVars, eng, instVars, stopVars>>

\* CallTimeout has its result: the slot is given back and the client answered.
Return(r) ==
    /\ pc[r] = "calling" /\ call[r] \in {"answered", "failed", "childclosed"}
    /\ one' = None
    /\ call' = [call EXCEPT ![r] = "idle"]
    /\ Reply(r)
    /\ UNCHANGED <<srv, engine, quiesced, closed, engVars, instVars, stopVars>>

\* Mutant of TimeOut: the clock starts when the request is on the wire.
TimeOutAfterSend(r) ==
    /\ pc[r] = "calling" /\ call[r] = "busy"
    /\ one' = None
    /\ Goto(r, "idle")
    /\ UNCHANGED <<srv, engine, quiesced, closed, engVars, eng, call, instVars, stopVars>>

\* The deadline passes: the slot is given back and the client answered, and the call goes
\* on without its caller.
TimeOut(r) ==
    /\ pc[r] = "calling" /\ call[r] \in {"lock", "busy"}
    /\ one' = None
    /\ Goto(r, "idle")
    /\ UNCHANGED <<srv, engine, quiesced, closed, engVars, eng, call, instVars, stopVars>>

CallEnds(r, v) == call' = [call EXCEPT ![r] = v]

\* Child.call on a usable child takes the child's mutex and writes the request.
CallSends(r) ==
    /\ call[r] = "lock" /\ cmu[eng[r]] = None
    /\ ~dead[eng[r]] /\ ~shut[eng[r]] /\ proc[eng[r]] = "up"
    /\ cmu' = [cmu EXCEPT ![eng[r]] = r]
    /\ CallEnds(r, "busy")
    /\ UNCHANGED <<srvVars, proc, shut, dead, pc, eng, instVars, stopVars>>

CallRefused(r) ==
    /\ call[r] = "lock" /\ cmu[eng[r]] = None
    /\ \/ dead[eng[r]] /\ CallEnds(r, "failed") /\ UNCHANGED dead
       \/ ~dead[eng[r]] /\ shut[eng[r]] /\ CallEnds(r, "childclosed") /\ UNCHANGED dead
       \/ /\ ~dead[eng[r]] /\ ~shut[eng[r]] /\ proc[eng[r]] = "exited"
          /\ dead' = [dead EXCEPT ![eng[r]] = TRUE]
          /\ CallEnds(r, "failed")
    /\ UNCHANGED <<srvVars, proc, shut, cmu, pc, eng, instVars, stopVars>>

\* The engine answers, with a result or with an error of its own.
EngineAnswers(r) ==
    /\ call[r] = "busy" /\ proc[eng[r]] = "up"
    /\ cmu' = [cmu EXCEPT ![eng[r]] = None]
    /\ CallEnds(r, "answered")
    /\ UNCHANGED <<srvVars, proc, shut, dead, pc, eng, instVars, stopVars>>

CallMeetsEof(r) ==
    /\ call[r] = "busy" /\ proc[eng[r]] = "exited"
    /\ cmu' = [cmu EXCEPT ![eng[r]] = None]
    /\ dead' = [dead EXCEPT ![eng[r]] = TRUE]
    /\ CallEnds(r, "failed")
    /\ UNCHANGED <<srvVars, proc, shut, pc, eng, instVars, stopVars>>

-----------------------------------------------------------------------------
(* Quiesce: refuse new requests, take the serial slot once, close the      *)
(* engine that was attached, drop the reference.                           *)

QuiesceMark(k) ==
    /\ pc[k] = "mark"
    /\ quiesced' = TRUE
    /\ eng' = [eng EXCEPT ![k] = engine]
    /\ Goto(k, "drain")
    /\ UNCHANGED <<srv, engine, closed, one, engVars, call, instVars, stopVars>>

\* s.one.Lock(); s.one.Unlock()
QuiesceDrain(k) ==
    /\ pc[k] = "drain" /\ one = None
    /\ Goto(k, "release")
    /\ UNCHANGED <<srvVars, engVars, eng, call, instVars, stopVars>>

\* Mutant of QuiesceRelease: the child is closed under a call.
ReleaseUnlocked(k) ==
    /\ pc[k] = "release"
    /\ \/ eng[k] = None /\ Goto(k, "clear") /\ UNCHANGED shut
       \/ /\ eng[k] # None
          /\ Goto(k, IF shut[eng[k]] THEN "clear" ELSE "reap")
          /\ shut' = [shut EXCEPT ![eng[k]] = TRUE]
    /\ UNCHANGED <<srvVars, proc, dead, cmu, eng, call, instVars, stopVars>>

\* Mutant of QuiesceRelease: the process is not waited for.
ReleaseWithoutWait(k) ==
    /\ pc[k] = "release"
    /\ Goto(k, "clear")
    /\ \/ eng[k] = None /\ UNCHANGED shut
       \/ eng[k] # None /\ cmu[eng[k]] = None /\ shut' = [shut EXCEPT ![eng[k]] = TRUE]
    /\ UNCHANGED <<srvVars, proc, dead, cmu, eng, call, instVars, stopVars>>

\* Mutant of QuiesceRelease: a child that is busy is left alone.
ReleaseUnlessBusy(k) ==
    /\ pc[k] = "release"
    /\ \/ /\ eng[k] # None => cmu[eng[k]] # None
          /\ Goto(k, "clear") /\ UNCHANGED shut
       \/ /\ eng[k] # None /\ cmu[eng[k]] = None
          /\ Goto(k, IF shut[eng[k]] THEN "clear" ELSE "reap")
          /\ shut' = [shut EXCEPT ![eng[k]] = TRUE]
    /\ UNCHANGED <<srvVars, proc, dead, cmu, eng, call, instVars, stopVars>>

\* Child.Close waits for the child's mutex; on a child already closed it returns at once.
QuiesceRelease(k) ==
    /\ pc[k] = "release"
    /\ \/ eng[k] = None /\ Goto(k, "clear") /\ UNCHANGED shut
       \/ /\ eng[k] # None /\ cmu[eng[k]] = None
          /\ Goto(k, IF shut[eng[k]] THEN "clear" ELSE "reap")
          /\ shut' = [shut EXCEPT ![eng[k]] = TRUE]
    /\ UNCHANGED <<srvVars, proc, dead, cmu, eng, call, instVars, stopVars>>

QuiesceReap(k) ==
    /\ pc[k] = "reap" /\ proc[eng[k]] = "exited"
    /\ Goto(k, "clear")
    /\ UNCHANGED <<srvVars, engVars, eng, call, instVars, stopVars>>

\* An installer that still waits for the reply now owes a resume.
QuiesceClear(k) ==
    /\ pc[k] = "clear"
    /\ engine' = None
    /\ Reply(k)
    /\ held' = [held EXCEPT ![k] = ~gone[k]]
    /\ gone' = [gone EXCEPT ![k] = FALSE]
    /\ UNCHANGED <<srv, quiesced, closed, one, engVars, call, met, stopVars>>

-----------------------------------------------------------------------------
(* Resume: start an engine, attach it, and only then serve again.          *)

\* Mutant of ResumeStart: the quiesce flag is cleared first.
ResumeServesEarly(k) ==
    /\ pc[k] = "start"
    /\ \E e \in Engines : Spawn(e) /\ eng' = [eng EXCEPT ![k] = e]
    /\ quiesced' = FALSE
    /\ Goto(k, "attach")
    /\ UNCHANGED <<srv, engine, closed, one, call, instVars, stopVars>>

ResumeStart(k) ==
    /\ pc[k] = "start"
    /\ \E e \in Engines : Spawn(e) /\ eng' = [eng EXCEPT ![k] = e]
    /\ Goto(k, "attach")
    /\ UNCHANGED <<srvVars, call, instVars, stopVars>>

ResumeFails(k) ==
    /\ pc[k] = "start"
    /\ Reply(k)
    /\ gone' = [gone EXCEPT ![k] = FALSE]
    /\ UNCHANGED <<srvVars, engVars, call, held, met, stopVars>>

ResumeAttach(k) ==
    /\ pc[k] = "attach"
    /\ engine' = eng[k]
    /\ Goto(k, "unquiesce")
    /\ UNCHANGED <<srv, quiesced, closed, one, engVars, eng, call, instVars, stopVars>>

\* The status sent back is read once more, to tell the installer; nothing depends on it.
ResumeServe(k) ==
    /\ pc[k] = "unquiesce"
    /\ quiesced' = FALSE
    /\ Reply(k)
    /\ gone' = [gone EXCEPT ![k] = FALSE]
    /\ UNCHANGED <<srv, engine, closed, one, engVars, call, held, met, stopVars>>

-----------------------------------------------------------------------------
(* Close, run by the goroutine that waits for the context.                 *)

StopMark ==
    /\ srv = "accepting" /\ stop = "no"
    /\ closed' = TRUE
    /\ stopEng' = engine
    /\ engine' = None
    /\ stop' = "listener"
    /\ met' = (met \/ \E k \in Installers : Running(k))
    /\ UNCHANGED <<srv, quiesced, one, engVars, connVars, held, gone>>

\* ln.Close ends the accept loop, and with it Serve.
StopListener ==
    /\ stop = "listener"
    /\ srv' = "stopped"
    /\ stop' = "release"
    /\ UNCHANGED <<engine, quiesced, closed, one, engVars, connVars, instVars, stopEng>>

StopRelease ==
    /\ stop = "release"
    /\ \/ stopEng = None /\ stop' = "done" /\ UNCHANGED shut
       \/ /\ stopEng # None /\ cmu[stopEng] = None
          /\ stop' = IF shut[stopEng] THEN "done" ELSE "reap"
          /\ shut' = [shut EXCEPT ![stopEng] = TRUE]
    /\ UNCHANGED <<srvVars, proc, dead, cmu, connVars, instVars, stopEng>>

StopReap ==
    /\ stop = "reap" /\ proc[stopEng] = "exited"
    /\ stop' = "done"
    /\ UNCHANGED <<srvVars, engVars, connVars, instVars, stopEng>>

\* Serve has returned and so does main: every goroutine ends where it stands.
Exit ==
    /\ srv = "stopped"
    /\ srv' = "exited"
    /\ pc' = [r \in Conns |-> "idle"]
    /\ UNCHANGED <<engine, quiesced, closed, one, engVars, eng, call, instVars, stopVars>>

-----------------------------------------------------------------------------
(* Engine processes end: by themselves, on end of file, or killed by the   *)
(* Close that has waited two seconds for them.                             *)

EngineExits(e) ==
    /\ srv # "exited" /\ proc[e] = "up"
    /\ proc' = [proc EXCEPT ![e] = "exited"]
    /\ UNCHANGED <<srvVars, shut, dead, cmu, connVars, instVars, stopVars>>

BeingReaped(e) ==
    \/ stop = "reap" /\ stopEng = e
    \/ \E k \in Installers : pc[k] = "reap" /\ eng[k] = e

\* Mutant of Kill: a child that ignores end of file is waited for.
NeverKill(e) == BeingReaped(e) /\ UNCHANGED vars

Kill(e) == srv # "exited" /\ BeingReaped(e) /\ EngineExits(e)

-----------------------------------------------------------------------------
CallGoroutine(r) ==
    srv # "exited" /\ (CallSends(r) \/ CallRefused(r) \/ EngineAnswers(r) \/ CallMeetsEof(r))

Reader(r) ==
    \/ AcceptReader(r) \/ Gate(r) \/ TakeSlot(r) \/ Return(r) \/ TimeOut(r)

Installer(k) ==
    AcceptInstaller(k) \/ InstallerDies(k) \/ InstallerLeaves(k)

Quiesce(k) ==
    QuiesceMark(k) \/ QuiesceDrain(k) \/ QuiesceRelease(k) \/ QuiesceReap(k) \/ QuiesceClear(k)

Resume(k) ==
    ResumeStart(k) \/ ResumeFails(k) \/ ResumeAttach(k) \/ ResumeServe(k)

Close == StopMark \/ StopListener \/ (srv # "exited" /\ (StopRelease \/ StopReap))

Next ==
    \/ Boot \/ BootFails \/ Close \/ Exit
    \/ \E r \in Readers : Reader(r) \/ CallGoroutine(r)
    \/ \E k \in Installers : Installer(k) \/ Quiesce(k) \/ Resume(k)
    \/ \E e \in Engines : EngineExits(e)

Spec == Init /\ [][Next]_vars

(* Goroutines that can run do (one is never at two of these places),       *)
(* timers fire, and a waiter for a sync.Mutex that is released again and   *)
(* again gets it. No client has to send, no installer has to resume, and   *)
(* nothing is assumed of the engine, not even that a started one shakes    *)
(* hands: ResumeStart waits for that without a bound.                      *)
Fairness ==
    /\ WF_vars(StopListener \/ Exit)
    /\ \A r \in Readers :
          /\ WF_vars(Gate(r) \/ Return(r) \/ TimeOut(r))
          /\ SF_vars(TakeSlot(r))
          /\ SF_vars(srv # "exited" /\ (CallSends(r) \/ CallRefused(r) \/ CallMeetsEof(r)))
    /\ \A k \in Installers :
          /\ WF_vars(QuiesceMark(k) \/ QuiesceReap(k) \/ QuiesceClear(k))
          /\ WF_vars(ResumeAttach(k) \/ ResumeServe(k))
          /\ SF_vars(QuiesceDrain(k) \/ QuiesceRelease(k))
    /\ \A e \in Engines : WF_vars(Kill(e))

\* An engine that answers every request it has been given, as long as it lives.
EngineFairness == \A r \in Readers : WF_vars(srv # "exited" /\ EngineAnswers(r))

FairSpec == Spec /\ Fairness

-----------------------------------------------------------------------------
(* A resident that lets requests through has an engine to serve them with: *)
(* the order of Resume's two critical sections (server.go, Resume). It     *)
(* holds from install to install, also after one that timed out or was     *)
(* killed, until a control action first meets another: a quiesce that runs *)
(* between the two sections breaks it.                                     *)
ServingHasEngine ==
    ~met /\ srv = "accepting" /\ ~closed /\ ~quiesced => engine # None

(* One caller at a time waits on the engine, however many connections are  *)
(* being served: the serial slot s.one.                                    *)
OneInSlot ==
    \A r, s \in Readers : pc[r] = "calling" /\ pc[s] = "calling" => r = s

(* Every engine is driven as SerialEngine says, with the calls of timed-out*)
(* requests still in it, through closes by Quiesce and by Close.           *)
CallOn(e, r) ==
    CASE eng[r] # e -> "idle"
      [] eng[r] = e /\ call[r] = "lock" -> "queued"
      [] eng[r] = e /\ call[r] = "busy" -> "running"
      [] eng[r] = e /\ call[r] \in {"failed", "childclosed"} -> "refused"
      [] OTHER -> call[r]

Contract(e) == INSTANCE SerialEngine
    WITH Callers <- Readers,
         call <- [r \in Readers |-> CallOn(e, r)],
         shut <- shut[e],
         dead <- dead[e]

EachEngineSerial ==
    /\ \A e \in Engines : Contract(e)!Init
    /\ [][\A e \in Engines : UNCHANGED Contract(e)!vars \/ Contract(e)!Next]_<<call, eng, shut, dead>>

(* From the moment an installer is told that the engine is released to the *)
(* moment it asks for a new one, no engine runs from the binary it is      *)
(* replacing: what quiesceResident waits for. A resume of an abandoned     *)
(* install that comes late, or the reply of a quiesce that found another   *)
(* closing the engine, breaks it: both are a meeting of control actions.   *)
SwapWindow ==
    ~met => \A k \in Installers : held[k] => \A e \in Engines : proc[e] # "up"

(* No engine process is forgotten: one that runs and has not been told to  *)
(* end is attached to a server that will close it, or in the hands of the  *)
(* goroutine that is starting or closing it. server.go overwrites s.engine *)
(* in two places, and Resume attaches without asking whether the server is *)
(* closed: the meetings excluded here lose engines.                        *)
InHand(e) ==
    \/ \E k \in Installers : eng[k] = e /\ pc[k] \in {"drain", "release", "attach"}
    \/ stopEng = e /\ stop \in {"listener", "release"}
NoEngineLost ==
    ~met /\ srv # "exited" =>
        \A e \in Engines : proc[e] = "up" /\ ~shut[e] => (engine = e /\ ~closed) \/ InHand(e)

(* Every tool request is answered, whatever the engine does and however    *)
(* many callers wait for the slot, also behind a call that was abandoned   *)
(* and still holds the engine (server.go, serveConn).                      *)
RequestAnswered ==
    \A r \in Readers : pc[r] \in ToolPc ~> pc[r] \notin ToolPc

(* Every quiesce is answered (server.go, comment of serveAction), if the   *)
(* engine answers what it was given. Behind an engine that never does,     *)
(* Quiesce waits for the child's mutex for ever.                           *)
QuiesceAnswered ==
    EngineFairness => \A k \in Installers : pc[k] \in QuiescePc ~> pc[k] \notin QuiescePc
=============================================================================
