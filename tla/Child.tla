------------------------------- MODULE Child -------------------------------
(***************************************************************************)
(* One long-lived engine process spoken to over its stdio pipes:           *)
(* cbmexec.Child (internal/cbmexec/child.go).                              *)
(*                                                                         *)
(* A call of CallTimeout is two threads: the caller, who waits for the     *)
(* result or for the deadline (waiter), and the goroutine that runs        *)
(* CallTool (pc), which takes c.mu, writes a request, and keeps c.mu until *)
(* it has read the reply that carries its id. A caller that gives up       *)
(* leaves its goroutine behind, still holding c.mu.                        *)
(*                                                                         *)
(* The engine is the external program at the other end of the pipes: it    *)
(* answers requests, writes other lines among the answers, may die at any  *)
(* time and may simply never answer.                                       *)
(***************************************************************************)
EXTENDS Naturals, Sequences

CONSTANTS
    Callers,        \* calls of CallTool/CallTimeout that may overlap
    Closers,        \* calls of Close that may overlap
    None,           \* no holder of the mutex, no result yet
    Refused,        \* the outcome of a call that ended with an error
    MaxId,          \* bound: JSON-RPC ids given out
    MaxNoise        \* bound: unread lines while the engine adds another

ASSUME NoneAssumption == None \notin Callers /\ None \notin Nat
ASSUME RefusedAssumption == Refused \notin Nat /\ Refused # None
ASSUME BoundAssumption == MaxId \in Nat /\ MaxNoise \in Nat

VARIABLES
    phase,      \* "handshake", then "ready" or "failed"
    waiter,     \* [Callers -> ...] the frame of CallTimeout
    pc,         \* [Callers -> ...] the goroutine that runs CallTool
    want,       \* [Callers -> Nat] the id the goroutine's request carries
    chan,       \* [Callers -> ...] the channel between the two, of size one
    mu,         \* the holder of c.mu, or None
    id,         \* c.id, the last JSON-RPC id given out
    closed,     \* c.closed
    dead,       \* c.dead is set
    stdin,      \* ids of the requests written and not yet answered
    stdout,     \* lines written by the engine and not yet read
    proc,       \* the engine process: "up" or "exited"
    closer      \* [Closers -> ...] the frames of Close

vars == <<phase, waiter, pc, want, chan, mu, id, closed, dead,
          stdin, stdout, proc, closer>>

callVars == <<waiter, pc, want, chan>>
wireVars == <<stdin, stdout, proc>>

(* A line of the engine's output. A reply carries the id of its request    *)
(* and the answer to it; every other line (a log line, a notification, an  *)
(* id that is not the one waited for) is noise. An answer is named by the  *)
(* request it answers.                                                     *)
NoiseId == 0
Line == [id : Nat, answers : Nat, ok : BOOLEAN]
Noise == [id |-> NoiseId, answers |-> NoiseId, ok |-> TRUE]
ReplyTo(i, b) == [id |-> i, answers |-> i, ok |-> b]

TypeOK ==
    /\ phase \in {"handshake", "ready", "failed"}
    /\ waiter \in [Callers -> {"idle", "waiting", "answered", "refused", "timedout"}]
    /\ pc \in [Callers -> {"idle", "lock", "read"}]
    /\ want \in [Callers -> Nat]
    /\ chan \in [Callers -> Nat \cup {None, Refused}]
    /\ mu \in Callers \cup {None}
    /\ id \in Nat
    /\ closed \in BOOLEAN
    /\ dead \in BOOLEAN
    /\ stdin \subseteq Nat
    /\ stdout \in Seq(Line)
    /\ proc \in {"up", "exited"}
    /\ closer \in [Closers -> {"idle", "lock", "eof", "wait", "done"}]

\* cmd.Start has succeeded; nobody else has the child yet.
Init ==
    /\ phase = "handshake"
    /\ waiter = [c \in Callers |-> "idle"]
    /\ pc = [c \in Callers |-> "idle"]
    /\ want = [c \in Callers |-> NoiseId]
    /\ chan = [c \in Callers |-> None]
    /\ mu = None
    /\ id = 0
    /\ closed = FALSE
    /\ dead = FALSE
    /\ stdin = {}
    /\ stdout = <<>>
    /\ proc = "up"
    /\ closer = [k \in Closers |-> "idle"]

-----------------------------------------------------------------------------
(* StartChild: the initialize call, then the initialized notification.     *)

Handshake ==
    /\ phase = "handshake" /\ proc = "up"
    /\ phase' = "ready"
    /\ id' = id + 1
    /\ UNCHANGED <<callVars, mu, closed, dead, wireVars, closer>>

\* Any failure closes the child before anyone can use it: EOF, then Wait or Kill.
HandshakeFails ==
    /\ phase = "handshake"
    /\ phase' = "failed"
    /\ id' = id + 1
    /\ closed' = TRUE
    /\ proc' = "exited"
    /\ dead' \in BOOLEAN        \* an error reply does not latch it, a broken pipe does
    /\ UNCHANGED <<callVars, mu, stdin, stdout, closer>>

-----------------------------------------------------------------------------
(* CallTimeout: the caller's side.                                         *)

StartCall(c) ==
    /\ phase = "ready"
    /\ waiter[c] = "idle" /\ pc[c] = "idle"
    /\ id < MaxId
    /\ waiter' = [waiter EXCEPT ![c] = "waiting"]
    /\ pc' = [pc EXCEPT ![c] = "lock"]
    /\ chan' = [chan EXCEPT ![c] = None]
    /\ UNCHANGED <<phase, want, mu, id, closed, dead, wireVars, closer>>

Receive(c) ==
    /\ waiter[c] = "waiting" /\ chan[c] # None
    /\ waiter' = [waiter EXCEPT ![c] = IF chan[c] = Refused THEN "refused" ELSE "answered"]
    /\ UNCHANGED <<phase, pc, want, chan, mu, id, closed, dead, wireVars, closer>>

\* The deadline bounds the caller's wait; the goroutine and c.mu are left as they are.
TimeOut(c) ==
    /\ waiter[c] = "waiting"
    /\ waiter' = [waiter EXCEPT ![c] = "timedout"]
    /\ UNCHANGED <<phase, pc, want, chan, mu, id, closed, dead, wireVars, closer>>

Return(c) ==
    /\ waiter[c] \in {"answered", "refused", "timedout"}
    /\ waiter' = [waiter EXCEPT ![c] = "idle"]
    /\ UNCHANGED <<phase, pc, want, chan, mu, id, closed, dead, wireVars, closer>>

-----------------------------------------------------------------------------
(* call: the goroutine's side. Taking c.mu, the checks and the write are   *)
(* one step: nobody else can touch the child's fields or its stdin between *)
(* them.                                                                   *)

\* The goroutine ends with outcome r; its caller may be long gone.
Finish(c, r) ==
    /\ pc' = [pc EXCEPT ![c] = "idle"]
    /\ chan' = [chan EXCEPT ![c] = r]

\* Mutant of Send: the closed flag is not looked at.
SendUnchecked(c) ==
    /\ pc[c] = "lock" /\ mu = None
    /\ ~dead /\ proc = "up"
    /\ mu' = c
    /\ id' = id + 1
    /\ want' = [want EXCEPT ![c] = id + 1]
    /\ stdin' = stdin \cup {id + 1}
    /\ pc' = [pc EXCEPT ![c] = "read"]
    /\ UNCHANGED <<phase, waiter, chan, closed, dead, stdout, proc, closer>>

Send(c) ==
    /\ pc[c] = "lock" /\ mu = None
    /\ ~dead /\ ~closed /\ proc = "up"
    /\ mu' = c
    /\ id' = id + 1
    /\ want' = [want EXCEPT ![c] = id + 1]
    /\ stdin' = stdin \cup {id + 1}
    /\ pc' = [pc EXCEPT ![c] = "read"]
    /\ UNCHANGED <<phase, waiter, chan, closed, dead, stdout, proc, closer>>

\* The write meets a broken pipe: fail latches the child's death.
SendFails(c) ==
    /\ pc[c] = "lock" /\ mu = None
    /\ ~dead /\ ~closed /\ proc = "exited"
    /\ id' = id + 1
    /\ dead' = TRUE
    /\ Finish(c, Refused)
    /\ UNCHANGED <<phase, waiter, want, mu, closed, wireVars, closer>>

\* A dead child reports its first reason, a closed one says it is closed.
CallRefused(c) ==
    /\ pc[c] = "lock" /\ mu = None
    /\ dead \/ closed
    /\ Finish(c, Refused)
    /\ UNCHANGED <<phase, waiter, want, mu, id, closed, dead, wireVars, closer>>

\* Mutant of ReadReply: the next line is the answer, whatever its id.
ReadNextLine(c) ==
    /\ pc[c] = "read" /\ stdout # <<>>
    /\ stdout' = Tail(stdout)
    /\ Finish(c, IF Head(stdout).ok THEN Head(stdout).answers ELSE Refused)
    /\ mu' = None
    /\ UNCHANGED <<phase, waiter, want, id, closed, dead, stdin, proc, closer>>

\* Mutant of ReadReply: an error reply returns without the unlock.
ReadErrorKeepsLock(c) ==
    /\ pc[c] = "read" /\ stdout # <<>>
    /\ Head(stdout).id = want[c]
    /\ stdout' = Tail(stdout)
    /\ Finish(c, IF Head(stdout).ok THEN Head(stdout).answers ELSE Refused)
    /\ mu' = IF Head(stdout).ok THEN None ELSE c
    /\ UNCHANGED <<phase, waiter, want, id, closed, dead, stdin, proc, closer>>

\* The reply with the awaited id: its result, or the engine's own error.
ReadReply(c) ==
    /\ pc[c] = "read" /\ stdout # <<>>
    /\ Head(stdout).id = want[c]
    /\ stdout' = Tail(stdout)
    /\ Finish(c, IF Head(stdout).ok THEN Head(stdout).answers ELSE Refused)
    /\ mu' = None
    /\ UNCHANGED <<phase, waiter, want, id, closed, dead, stdin, proc, closer>>

SkipLine(c) ==
    /\ pc[c] = "read" /\ stdout # <<>>
    /\ Head(stdout).id # want[c]
    /\ stdout' = Tail(stdout)
    /\ UNCHANGED <<phase, callVars, mu, id, closed, dead, stdin, proc, closer>>

\* End of file before the reply: the child is dead for this call and for all later ones.
ReadEof(c) ==
    /\ pc[c] = "read" /\ stdout = <<>> /\ proc = "exited"
    /\ dead' = TRUE
    /\ Finish(c, Refused)
    /\ mu' = None
    /\ UNCHANGED <<phase, waiter, want, id, closed, wireVars, closer>>

-----------------------------------------------------------------------------
(* Close. It takes c.mu to set the flag, so it waits for a call inside.    *)

CallClose(k) ==
    /\ phase = "ready" /\ closer[k] = "idle"
    /\ closer' = [closer EXCEPT ![k] = "lock"]
    /\ UNCHANGED <<phase, callVars, mu, id, closed, dead, wireVars>>

CloseMark(k) ==
    /\ closer[k] = "lock" /\ mu = None
    /\ closer' = [closer EXCEPT ![k] = IF closed THEN "done" ELSE "eof"]
    /\ closed' = TRUE
    /\ UNCHANGED <<phase, callVars, mu, id, dead, wireVars>>

CloseStdin(k) ==
    /\ closer[k] = "eof"
    /\ closer' = [closer EXCEPT ![k] = "wait"]
    /\ UNCHANGED <<phase, callVars, mu, id, closed, dead, wireVars>>

\* Mutant of Kill: a child that outlives its stdin is waited for.
NeverKill(k) ==
    /\ closer[k] = "wait" /\ proc = "up"
    /\ UNCHANGED vars

\* Two seconds after EOF the process is killed.
Kill(k) ==
    /\ closer[k] = "wait" /\ proc = "up"
    /\ proc' = "exited"
    /\ stdin' = {}
    /\ UNCHANGED <<phase, callVars, mu, id, closed, dead, stdout, closer>>

Reap(k) ==
    /\ closer[k] = "wait" /\ proc = "exited"
    /\ closer' = [closer EXCEPT ![k] = "done"]
    /\ UNCHANGED <<phase, callVars, mu, id, closed, dead, wireVars>>

-----------------------------------------------------------------------------
(* The engine process.                                                     *)

EngineReplies(i) ==
    /\ proc = "up" /\ i \in stdin
    /\ stdin' = stdin \ {i}
    /\ \E b \in BOOLEAN : stdout' = Append(stdout, ReplyTo(i, b))
    /\ UNCHANGED <<phase, callVars, mu, id, closed, dead, proc, closer>>

EngineChatters ==
    /\ proc = "up" /\ Len(stdout) < MaxNoise
    /\ stdout' = Append(stdout, Noise)
    /\ UNCHANGED <<phase, callVars, mu, id, closed, dead, stdin, proc, closer>>

\* It crashes, or it obeys the end of file on its stdin.
EngineExits ==
    /\ phase = "ready" /\ proc = "up"
    /\ proc' = "exited"
    /\ stdin' = {}
    /\ UNCHANGED <<phase, callVars, mu, id, closed, dead, stdout, closer>>

-----------------------------------------------------------------------------
CallTool(c) ==
    \/ Send(c) \/ SendFails(c) \/ CallRefused(c)
    \/ ReadReply(c) \/ SkipLine(c) \/ ReadEof(c)

CallTimeout(c) == StartCall(c) \/ Receive(c) \/ TimeOut(c) \/ Return(c)

Close(k) == CallClose(k) \/ CloseMark(k) \/ CloseStdin(k) \/ Kill(k) \/ Reap(k)

Engine == (\E i \in stdin : EngineReplies(i)) \/ EngineChatters \/ EngineExits

Next ==
    \/ Handshake \/ HandshakeFails
    \/ \E c \in Callers : CallTimeout(c) \/ CallTool(c)
    \/ \E k \in Closers : Close(k)
    \/ Engine

Spec == Init /\ [][Next]_vars

(* Timers fire and runnable goroutines run. A waiter for c.mu gets it if   *)
(* it is released again and again: sync.Mutex hands a starving waiter the  *)
(* lock. Nothing is assumed of the engine, and nobody has to call.         *)
Fairness ==
    /\ \A c \in Callers :
          /\ WF_vars(Receive(c)) /\ WF_vars(TimeOut(c)) /\ WF_vars(Return(c))
          /\ SF_vars(Send(c) \/ SendFails(c) \/ CallRefused(c))
          /\ WF_vars(ReadReply(c) \/ SkipLine(c) \/ ReadEof(c))
    /\ \A k \in Closers :
          /\ SF_vars(CloseMark(k))
          /\ WF_vars(CloseStdin(k)) /\ WF_vars(Kill(k)) /\ WF_vars(Reap(k))

\* An engine that answers whatever it has read, as long as it lives.
EngineFairness == WF_vars(\E i \in stdin : EngineReplies(i))

FairSpec == Spec /\ Fairness
AnsweringSpec == FairSpec /\ EngineFairness

-----------------------------------------------------------------------------
(* A call never returns the answer to another request: neither one that an *)
(* abandoned call left behind nor a line the engine wrote on its own. What *)
(* the id loop of call and the mutex held across a timeout are for.        *)
OwnAnswer == \A c \in Callers : chan[c] \in Nat => chan[c] = want[c]

(* Whatever is on the pipes and not yet consumed belongs to the one call   *)
(* that holds c.mu, also after its caller has given up: the engine is      *)
(* driven one request at a time.                                           *)
OnTheWire == stdin \cup ({stdout[n].id : n \in DOMAIN stdout} \ {NoiseId})
OneOnTheWire == \A i \in OnTheWire : mu # None /\ i = want[mu]

(* The closed flag is never set under a call that is inside the engine,    *)
(* and no call enters the engine after it is set: Close finishes what is   *)
(* in flight.                                                              *)
ClosedIsQuiet == closed => \A c \in Callers : pc[c] # "read"

(* The child implements SerialEngine: a goroutine between Lock and Unlock  *)
(* is the call inside the engine, and a result that answers somebody       *)
(* else's request corresponds to no state of a serial engine.              *)
CallState(c) ==
    CASE pc[c] = "lock" -> "queued"
      [] pc[c] = "read" -> "running"
      [] pc[c] = "idle" /\ chan[c] = None -> "idle"
      [] pc[c] = "idle" /\ chan[c] = Refused -> "refused"
      [] pc[c] = "idle" /\ chan[c] \in Nat ->
            IF chan[c] = want[c] THEN "answered" ELSE "stolen"

Contract == INSTANCE SerialEngine
    WITH call <- [c \in Callers |-> CallState(c)],
         shut <- closed \/ phase = "failed",
         dead <- dead /\ phase # "failed"

ImplementsSerialEngine == Contract!Spec

(* No goroutine is left behind for good: whether its caller still waits or *)
(* has given up, whoever overtakes it on the mutex, crash or close, a call *)
(* ends. With an engine that answers what it has read (AnsweringSpec).     *)
EveryCallEnds == \A c \in Callers : pc[c] # "idle" ~> pc[c] = "idle"

(* Close returns, also to a caller who finds the child busy: with an       *)
(* engine that answers what it has read (AnsweringSpec).                   *)
CloseReturns == \A k \in Closers : closer[k] = "lock" ~> closer[k] = "done"
=============================================================================
