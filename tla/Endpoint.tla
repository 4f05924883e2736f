------------------------------ MODULE Endpoint ------------------------------
(***************************************************************************)
(* The address of the resident: a socket path and a pid file that every    *)
(* resident of a home binds, takes over and removes (resident/server.go:   *)
(* Serve, listen, alive, Close), the clients that dial it                  *)
(* (resident/client.go) and `tk mcp --detach`, which starts a resident and *)
(* waits until it serves (cli/resident.go).                                *)
(*                                                                         *)
(* A socket file outlives its process. Closing a listener removes the file *)
(* at its path, whoever bound it last; so does the pid file's removal.     *)
(***************************************************************************)
EXTENDS Naturals, FiniteSets

CONSTANTS
    Residents,      \* processes of `tk resident`, each started once
    Detachers,      \* runs of `tk mcp --detach`, each made once
    Clients,        \* calls of a client, each made once
    Nobody          \* no resident, and of a call no end

ASSUME EndpointAssumption == Nobody \notin Residents \cup Detachers \cup Clients

VARIABLES
    sock,           \* whose socket is at the path
    pidfile,        \* whose pid is in the pid file
    serve,          \* [Residents -> ...] where Serve stands
    detach,         \* [Detachers -> ...] where runDetach stands
    conn,           \* [Clients -> ...] the resident a call has connected to
    ended,          \* [Clients -> ...] how the call ended
    upset           \* whether a start has ever overlapped a start or a stop

address == <<sock, pidfile>>
callers == <<detach, conn, ended>>
endpoint == <<address, serve, callers, upset>>

States == {"off", "bind", "listen", "alive", "remove", "rebind", "pid", "engine",
           "serve", "unpid", "unlisten", "exit", "busy", "gone", "killed"}

AddressTypeOK ==
    /\ sock \in Residents \cup {Nobody} /\ pidfile \in Residents \cup {Nobody}
    /\ serve \in [Residents -> States]
    /\ detach \in [Detachers -> {"idle", "start", "wait", "already", "started", "failed"}]
    /\ conn \in [Clients -> Residents \cup {Nobody}]
    /\ ended \in [Clients -> {Nobody, "answered", "absent"}]
    /\ upset \in BOOLEAN

AddressInit ==
    /\ sock = Nobody /\ pidfile = Nobody
    /\ serve = [r \in Residents |-> "off"]
    /\ detach = [d \in Detachers |-> "idle"]
    /\ conn = [c \in Clients |-> Nobody]
    /\ ended = [c \in Clients |-> Nobody]
    /\ upset = FALSE

Moves(r, l) == serve' = [serve EXCEPT ![r] = l]
Down == {"off", "busy", "gone", "killed"}
Steady == Down \cup {"serve"}
Unsettled == {r \in Residents : serve[r] \notin Steady}

\* From listen(2) to the close of the listener the kernel completes a dial.
Listening == {r \in Residents : serve[r] \in {"pid", "engine", "serve", "unpid", "unlisten"}}
Dialled == sock \in Listening

-----------------------------------------------------------------------------
(* Serve.                                                                  *)

Start(r) ==
    /\ serve[r] = "off"
    /\ Moves(r, "bind")
    /\ upset' = (upset \/ Unsettled # {})

StartByHand(r) == Start(r) /\ UNCHANGED <<address, callers>>

\* listen: the path is free, or somebody's.
Bind(r) ==
    /\ serve[r] = "bind"
    /\ \/ sock = Nobody /\ sock' = r /\ Moves(r, "listen")
       \/ sock # Nobody /\ UNCHANGED sock /\ Moves(r, "alive")
    /\ UNCHANGED <<pidfile, callers, upset>>

Listen(r) ==
    /\ serve[r] = "listen"
    /\ Moves(r, "pid")
    /\ UNCHANGED <<address, callers, upset>>

\* Mutant of Alive: a socket file is taken for a resident.
AliveIfThere(r) ==
    /\ serve[r] = "alive"
    /\ Moves(r, IF sock # Nobody THEN "busy" ELSE "remove")
    /\ UNCHANGED <<address, callers, upset>>

\* Mutant of Alive: nobody is dialled.
NeverAlive(r) ==
    /\ serve[r] = "alive"
    /\ Moves(r, "remove")
    /\ UNCHANGED <<address, callers, upset>>

\* Whoever answers is left alone.
Alive(r) ==
    /\ serve[r] = "alive"
    /\ Moves(r, IF Dialled THEN "busy" ELSE "remove")
    /\ UNCHANGED <<address, callers, upset>>

\* What is at the path now is removed, if anything is.
Remove(r) ==
    /\ serve[r] = "remove"
    /\ Moves(r, IF sock = Nobody THEN "gone" ELSE "rebind")
    /\ sock' = Nobody
    /\ UNCHANGED <<pidfile, callers, upset>>

Rebind(r) ==
    /\ serve[r] = "rebind"
    /\ \/ sock = Nobody /\ sock' = r /\ Moves(r, "listen")
       \/ sock # Nobody /\ UNCHANGED sock /\ Moves(r, "gone")
    /\ UNCHANGED <<pidfile, callers, upset>>

WritePid(r) ==
    /\ serve[r] = "pid"
    /\ \/ /\ pidfile' = r
          /\ Moves(r, "engine")
       \/ Moves(r, "unlisten") /\ UNCHANGED pidfile
    /\ UNCHANGED <<sock, callers, upset>>

\* ensureEngine: the engine answers the handshake, or Serve returns.
EnsureEngine(r) ==
    /\ serve[r] = "engine"
    /\ Moves(r, "serve") \/ Moves(r, "unpid")
    /\ UNCHANGED <<address, callers, upset>>

\* The deferred calls of a start that failed, last one first.
RemovePid(r) ==
    /\ serve[r] = "unpid"
    /\ pidfile' = Nobody
    /\ Moves(r, "unlisten")
    /\ UNCHANGED <<sock, callers, upset>>

CloseListener(r) ==
    /\ serve[r] = "unlisten"
    /\ sock' = Nobody
    /\ Moves(r, "gone")
    /\ UNCHANGED <<pidfile, callers, upset>>

\* Close: the listener first; Serve returns, the pid file goes, the process ends.
Stop(r) ==
    /\ serve[r] = "serve"
    /\ sock' = Nobody
    /\ Moves(r, "exit")
    /\ upset' = (upset \/ Unsettled # {})
    /\ UNCHANGED <<pidfile, callers>>

Leave(r) ==
    /\ serve[r] = "exit"
    /\ pidfile' = Nobody
    /\ Moves(r, "gone")
    /\ UNCHANGED <<sock, callers, upset>>

\* Killed: both files stay.
Crash(r) ==
    /\ serve[r] \notin Down
    /\ Moves(r, "killed")
    /\ UNCHANGED <<address, callers, upset>>

-----------------------------------------------------------------------------
(* Client.Call: absent means that the caller starts an engine of its own.  *)
Dial(c) ==
    /\ conn[c] = Nobody /\ ended[c] = Nobody
    /\ \/ Dialled /\ conn' = [conn EXCEPT ![c] = sock] /\ UNCHANGED ended
       \/ ~Dialled /\ ended' = [ended EXCEPT ![c] = "absent"] /\ UNCHANGED conn
    /\ UNCHANGED <<address, serve, detach, upset>>

Waiting(c) == conn[c] # Nobody /\ ended[c] = Nobody

\* A connection made before there is an accept loop waits for it.
Answer(c) ==
    /\ Waiting(c) /\ serve[conn[c]] = "serve"
    /\ ended' = [ended EXCEPT ![c] = "answered"]
    /\ UNCHANGED <<address, serve, detach, conn, upset>>

\* Mutant of Hangup: an end of file is decoded as a reply.
HangupDecoded(c) ==
    /\ Waiting(c) /\ serve[conn[c]] \in Down
    /\ ended' = [ended EXCEPT ![c] = "malformed"]
    /\ UNCHANGED <<address, serve, detach, conn, upset>>

\* End of file: the resident has gone.
Hangup(c) ==
    /\ Waiting(c) /\ serve[conn[c]] \in Down
    /\ ended' = [ended EXCEPT ![c] = "absent"]
    /\ UNCHANGED <<address, serve, detach, conn, upset>>

\* Mutant of Deadline: the connection has none.
DeadlineNever(c) == FALSE /\ UNCHANGED endpoint

\* It has not answered: its engine may never answer the handshake.
Deadline(c) ==
    /\ Waiting(c)
    /\ ended' = [ended EXCEPT ![c] = "absent"]
    /\ UNCHANGED <<address, serve, detach, conn, upset>>

Call(c) == Dial(c) \/ Answer(c) \/ Hangup(c) \/ Deadline(c)

-----------------------------------------------------------------------------
(* runDetach.                                                              *)
Report(d, what) ==
    /\ detach' = [detach EXCEPT ![d] = what]
    /\ UNCHANGED <<address, conn, ended>>

\* Available: a dial, which a resident without an engine completes too.
Check(d) ==
    /\ detach[d] = "idle"
    /\ Report(d, IF Dialled THEN "already" ELSE "start")
    /\ UNCHANGED <<serve, upset>>

StartDetached(d, r) ==
    /\ detach[d] = "start"
    /\ Start(r)
    /\ Report(d, "wait")

\* Running: a status that names an engine, from whoever is at the path.
WaitReady(d) ==
    /\ detach[d] = "wait" /\ sock # Nobody /\ serve[sock] = "serve"
    /\ Report(d, "started")
    /\ UNCHANGED <<serve, upset>>

WaitEnds(d) ==
    /\ detach[d] \in {"start", "wait"}
    /\ Report(d, "failed")
    /\ UNCHANGED <<serve, upset>>

Detach(d) ==
    \/ Check(d) \/ WaitReady(d) \/ WaitEnds(d)
    \/ \E r \in Residents : StartDetached(d, r)

-----------------------------------------------------------------------------
Startup(r) ==
    \/ Bind(r) \/ Listen(r) \/ Alive(r) \/ Remove(r) \/ Rebind(r)
    \/ WritePid(r) \/ RemovePid(r) \/ CloseListener(r) \/ Leave(r)

AddressNext ==
    \/ \E r \in Residents :
          \/ StartByHand(r) \/ Startup(r) \/ EnsureEngine(r) \/ Stop(r) \/ Crash(r)
    \/ \E c \in Clients : Call(c)
    \/ \E d \in Detachers : Detach(d)

AddressSpec == AddressInit /\ [][AddressNext]_endpoint

(* Processes that can run do and timers fire. Nobody has to start, stop or *)
(* call, and a start may wait for its engine for ever.                     *)
AddressFairness ==
    /\ \A r \in Residents : WF_endpoint(Startup(r))
    /\ \A c \in Clients : WF_endpoint(Hangup(c)) /\ WF_endpoint(Answer(c)) /\ WF_endpoint(Deadline(c))
    /\ \A d \in Detachers : WF_endpoint(WaitEnds(d))

AddressFairSpec == AddressSpec /\ AddressFairness

-----------------------------------------------------------------------------
(* While a start overlaps neither a start nor a stop there is one          *)
(* resident, the path leads to it and the pid file names it, whoever was   *)
(* refused beside it or killed before it (server.go, listen: "A live       *)
(* resident is never displaced"; its pid is what it is stopped by).        *)
Serving == {r \in Residents : serve[r] = "serve"}
ServingIsAddressed ==
    ~upset => \A r \in Serving : Serving = {r} /\ sock = r /\ pidfile = r

(* A socket file that was left behind keeps no start from succeeding: a    *)
(* start that overlaps no other is refused its address only while another  *)
(* resident serves (server.go, listen).                                    *)
StaleIsTakenOver ==
    [][\A r \in Residents :
          /\ serve[r] \in {"alive", "remove", "rebind"}
          /\ serve'[r] \in {"busy", "gone"}
          /\ ~upset
          => Serving # {}]_endpoint

(* A call ends, whatever becomes of the resident that took its connection, *)
(* and so does a `tk mcp --detach` (client.go, Call; cli/resident.go,      *)
(* waitReady).                                                             *)
CallsEnd ==
    /\ \A c \in Clients : conn[c] # Nobody ~> ended[c] # Nobody
    /\ \A d \in Detachers : detach[d] = "wait" ~> detach[d] \in {"started", "failed"}
=============================================================================
