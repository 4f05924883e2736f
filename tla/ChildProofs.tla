---------------------------- MODULE ChildProofs ----------------------------
(***************************************************************************)
(* Proofs about Child: what holds of one child for any number of callers   *)
(* and closers, any number of requests and any amount of noise; that every *)
(* child keeps the contract SerialEngine, and what the contract means.     *)
(***************************************************************************)
EXTENDS Child, SequenceTheorems, TLAPS

(* Nobody calls before the handshake has succeeded, and nothing marks the  *)
(* child dead before it has been tried.                                    *)
HandshakeInv ==
    /\ phase # "ready" => mu = None /\ \A c \in Callers : pc[c] = "idle"
    /\ phase = "handshake" => ~dead

(* The goroutine that reads is the one that holds c.mu, and it waits for   *)
(* an id that no noise line carries; a goroutine that has not finished has *)
(* put nothing on its channel.                                             *)
LockInv ==
    /\ \A c \in Callers : pc[c] = "read" <=> mu = c
    /\ \A c \in Callers : pc[c] = "read" => want[c] # NoiseId
    /\ \A c \in Callers : pc[c] # "idle" => chan[c] = None

(* Each request is on the pipes once, on its way in or as its reply on the *)
(* way out, a reply answers the request whose id it carries, and an engine *)
(* that is gone has nothing left to answer.                                *)
WireInv ==
    /\ \A n \in DOMAIN stdout : stdout[n].id # NoiseId =>
          /\ stdout[n].answers = stdout[n].id
          /\ stdout[n].id \notin stdin
          /\ mu # None /\ stdout[n].id = want[mu]
          /\ \A m \in DOMAIN stdout : stdout[m].id = stdout[n].id => m = n
    /\ \A i \in stdin : mu # None /\ i = want[mu]
    /\ proc = "exited" => stdin = {}

IInv == TypeOK /\ HandshakeInv /\ LockInv /\ WireInv /\ ClosedIsQuiet /\ OwnAnswer

-----------------------------------------------------------------------------
USE NoneAssumption, RefusedAssumption, BoundAssumption

(* The first line read: what is left are the other lines, each one place   *)
(* nearer.                                                                 *)
LEMMA TailLines ==
    ASSUME NEW s \in Seq(Line), s # <<>>
    PROVE  /\ Tail(s) \in Seq(Line)
           /\ 1 \in DOMAIN s /\ Head(s) = s[1] /\ Head(s) \in Line
           /\ \A n \in DOMAIN Tail(s) : n + 1 \in DOMAIN s /\ Tail(s)[n] = s[n + 1]
  OBVIOUS

(* A line written: the old lines keep their places, the new one is last.   *)
LEMMA AppendLine ==
    ASSUME NEW s \in Seq(Line), NEW x \in Line
    PROVE  /\ Append(s, x) \in Seq(Line)
           /\ \A n \in DOMAIN Append(s, x) :
                 \/ n \in DOMAIN s /\ Append(s, x)[n] = s[n]
                 \/ n = Len(s) + 1 /\ Append(s, x)[n] = x
  OBVIOUS

LEMMA TypeInit == Init => TypeOK
  <1> SUFFICES ASSUME Init PROVE TypeOK
    OBVIOUS
  <1>1. stdout \in Seq(Line)
    BY DEF Init
  <1>2. /\ waiter \in [Callers -> {"idle", "waiting", "answered", "refused", "timedout"}]
        /\ pc \in [Callers -> {"idle", "lock", "read"}]
        /\ want \in [Callers -> Nat]
        /\ chan \in [Callers -> Nat \cup {None, Refused}]
        /\ closer \in [Closers -> {"idle", "lock", "eof", "wait", "done"}]
    BY DEF Init, NoiseId
  <1> QED
    BY <1>1, <1>2 DEF Init, TypeOK

LEMMA TypeStep == TypeOK /\ [Next]_vars => TypeOK'
  <1> SUFFICES ASSUME TypeOK, [Next]_vars PROVE TypeOK'
    OBVIOUS
  <1> USE DEF TypeOK, callVars, wireVars
  <1>1. CASE Handshake
    BY <1>1 DEF Handshake
  <1>2. CASE HandshakeFails
    BY <1>2 DEF HandshakeFails
  <1>3. ASSUME NEW c \in Callers, CallTimeout(c) PROVE TypeOK'
    BY <1>3 DEF CallTimeout, StartCall, Receive, TimeOut, Return
  <1>4. ASSUME NEW c \in Callers, CallTool(c) PROVE TypeOK'
    <2>1. CASE Send(c)
      BY <2>1 DEF Send
    <2>2. CASE SendFails(c)
      BY <2>2 DEF SendFails, Finish
    <2>3. CASE CallRefused(c)
      BY <2>3 DEF CallRefused, Finish
    <2>4. CASE ReadReply(c)
      <3>1. Tail(stdout) \in Seq(Line) /\ Head(stdout) \in Line
        BY <2>4, TailLines DEF ReadReply
      <3>2. Head(stdout).answers \in Nat
        BY <3>1 DEF Line
      <3> QED
        BY <2>4, <3>1, <3>2 DEF ReadReply, Finish
    <2>5. CASE SkipLine(c)
      BY <2>5, TailLines DEF SkipLine
    <2>6. CASE ReadEof(c)
      BY <2>6 DEF ReadEof, Finish
    <2> QED
      BY <1>4, <2>1, <2>2, <2>3, <2>4, <2>5, <2>6 DEF CallTool
  <1>5. ASSUME NEW k \in Closers, Close(k) PROVE TypeOK'
    BY <1>5 DEF Close, CallClose, CloseMark, CloseStdin, Kill, Reap
  <1>6. CASE Engine
    <2>1. ASSUME NEW i \in stdin, EngineReplies(i) PROVE TypeOK'
      <3>1. PICK b \in BOOLEAN : stdout' = Append(stdout, ReplyTo(i, b))
        BY <2>1 DEF EngineReplies
      <3>2. ReplyTo(i, b) \in Line
        BY DEF ReplyTo, Line
      <3>3. stdout' \in Seq(Line)
        BY <3>1, <3>2, AppendLine
      <3>4. stdin' \subseteq Nat
        BY <2>1 DEF EngineReplies
      <3> QED
        BY <2>1, <3>3, <3>4 DEF EngineReplies
    <2>2. CASE EngineChatters
      <3>1. Noise \in Line
        BY DEF Noise, NoiseId, Line
      <3> QED
        BY <2>2, <3>1, AppendLine DEF EngineChatters
    <2>3. CASE EngineExits
      BY <2>3 DEF EngineExits
    <2> QED
      BY <1>6, <2>1, <2>2, <2>3 DEF Engine
  <1>7. CASE UNCHANGED vars
    BY <1>7 DEF vars
  <1> QED
    BY <1>1, <1>2, <1>3, <1>4, <1>5, <1>6, <1>7 DEF Next

-----------------------------------------------------------------------------
(* The invariant. Each step of the goroutine, of Close and of the engine   *)
(* is a lemma's case of its own; the steps of CallTimeout touch none of    *)
(* what the invariant is about but for StartCall.                          *)

LEMMA InvInit == Init => IInv
  <1> SUFFICES ASSUME Init PROVE IInv
    OBVIOUS
  <1>1. TypeOK
    BY TypeInit
  <1>2. DOMAIN stdout = {}
    BY DEF Init
  <1> QED
    BY <1>1, <1>2 DEF Init, IInv, HandshakeInv, LockInv, WireInv, ClosedIsQuiet, OwnAnswer

(* The steps that neither touch the pipes nor the lock.                    *)
LEMMA OffTheWire ==
    ASSUME IInv, TypeOK', UNCHANGED <<mu, want, wireVars>>
    PROVE  WireInv'
  BY DEF IInv, WireInv, wireVars

LEMMA SendInv ==
    ASSUME IInv, TypeOK', NEW c \in Callers, Send(c)
    PROVE  IInv'
  <1> USE DEF IInv, TypeOK, Send
  <1>1. HandshakeInv'
    BY DEF HandshakeInv
  <1>2. pc[c] = "lock" /\ mu = None /\ ~closed
    OBVIOUS
  <1>3. id + 1 # NoiseId /\ id + 1 \in Nat
    BY DEF NoiseId
  <1>4. /\ pc' = [pc EXCEPT ![c] = "read"] /\ want' = [want EXCEPT ![c] = id + 1]
        /\ mu' = c /\ chan' = chan /\ closed' = closed
    OBVIOUS
  <1>5. LockInv'
    BY <1>2, <1>3, <1>4 DEF LockInv
  <1>6. stdin = {} /\ \A n \in DOMAIN stdout : stdout[n].id = NoiseId
    BY <1>2 DEF WireInv
  <1>7. WireInv'
    BY <1>4, <1>6 DEF WireInv
  <1>8. ClosedIsQuiet'
    BY <1>2, <1>4 DEF ClosedIsQuiet
  <1>9. OwnAnswer'
    <2> SUFFICES ASSUME NEW d \in Callers, chan[d] \in Nat PROVE chan[d] = want'[d]
      BY <1>4 DEF OwnAnswer
    <2>1. d # c
      BY <1>2, NoneAssumption DEF LockInv
    <2> QED
      BY <1>4, <2>1 DEF OwnAnswer
  <1> QED
    BY <1>1, <1>5, <1>7, <1>8, <1>9

(* The reply that is read is the only thing left on the pipes.             *)
LEMMA ReadReplyInv ==
    ASSUME IInv, TypeOK', NEW c \in Callers, ReadReply(c)
    PROVE  IInv'
  <1> USE DEF IInv, TypeOK, ReadReply, Finish
  <1>1. HandshakeInv'
    BY DEF HandshakeInv
  <1>2. pc[c] = "read" /\ mu = c /\ want[c] # NoiseId
    BY DEF LockInv
  <1>3. 1 \in DOMAIN stdout /\ Head(stdout) = stdout[1] /\ stdout[1].id = want[c]
    BY TailLines
  <1>4. stdout[1].answers = want[c] /\ want[c] \notin stdin
    BY <1>2, <1>3 DEF WireInv
  <1>5. \A n \in DOMAIN stdout : stdout[n].id # NoiseId => n = 1
    <2> SUFFICES ASSUME NEW n \in DOMAIN stdout, stdout[n].id # NoiseId PROVE n = 1
      OBVIOUS
    <2>1. stdout[n].id = want[c]
      BY <1>2 DEF WireInv
    <2>2. stdout[1].id = stdout[n].id
      BY <1>3, <2>1
    <2> QED
      BY <1>3, <2>2 DEF WireInv
  <1>6. stdin' = {}
    BY <1>2, <1>4 DEF WireInv
  <1>7. \A n \in DOMAIN stdout' : stdout'[n].id = NoiseId
    <2> SUFFICES ASSUME NEW n \in DOMAIN stdout' PROVE stdout'[n].id = NoiseId
      OBVIOUS
    <2>1. n \in Nat \ {0} /\ n + 1 \in DOMAIN stdout /\ stdout'[n] = stdout[n + 1]
      BY TailLines
    <2>2. n + 1 # 1
      BY <2>1
    <2> QED
      BY <1>5, <2>1, <2>2
  <1>8. WireInv'
    BY <1>6, <1>7 DEF WireInv
  <1>9. LockInv'
    BY <1>2 DEF LockInv
  <1>10. ClosedIsQuiet'
    BY DEF ClosedIsQuiet
  <1>11. OwnAnswer'
    BY <1>3, <1>4 DEF OwnAnswer
  <1> QED
    BY <1>1, <1>8, <1>9, <1>10, <1>11

(* A line that is dropped moves the others up one place.                   *)
LEMMA SkipLineInv ==
    ASSUME IInv, TypeOK', NEW c \in Callers, SkipLine(c)
    PROVE  IInv'
  <1> USE DEF IInv, TypeOK, SkipLine, callVars
  <1>1. HandshakeInv' /\ LockInv' /\ ClosedIsQuiet' /\ OwnAnswer'
    BY DEF HandshakeInv, LockInv, ClosedIsQuiet, OwnAnswer
  <1>2. \A n \in DOMAIN stdout' : n \in Nat /\ n + 1 \in DOMAIN stdout /\ stdout'[n] = stdout[n + 1]
    BY TailLines
  <1>3. ASSUME NEW n \in DOMAIN stdout', stdout'[n].id # NoiseId
        PROVE  /\ stdout'[n].answers = stdout'[n].id
               /\ stdout'[n].id \notin stdin'
               /\ mu' # None /\ stdout'[n].id = want'[mu']
               /\ \A m \in DOMAIN stdout' : stdout'[m].id = stdout'[n].id => m = n
    <2>1. n + 1 \in DOMAIN stdout /\ stdout[n + 1].id # NoiseId
      BY <1>2, <1>3
    <2>2. ASSUME NEW m \in DOMAIN stdout', stdout'[m].id = stdout'[n].id
          PROVE  m = n
      <3>1. stdout[m + 1].id = stdout[n + 1].id /\ m + 1 \in DOMAIN stdout
        BY <1>2, <2>2
      <3>2. m + 1 = n + 1
        BY <2>1, <3>1 DEF WireInv
      <3> QED
        BY <1>2, <3>2
    <2>3. stdout'[n] = stdout[n + 1]
      BY <1>2
    <2> QED
      BY <2>1, <2>2, <2>3 DEF WireInv
  <1>4. WireInv'
    BY <1>3 DEF WireInv
  <1> QED
    BY <1>1, <1>4

LEMMA ReadEofInv ==
    ASSUME IInv, TypeOK', NEW c \in Callers, ReadEof(c)
    PROVE  IInv'
  <1> USE DEF IInv, TypeOK, ReadEof, Finish, wireVars
  <1>1. HandshakeInv' /\ LockInv' /\ ClosedIsQuiet' /\ OwnAnswer'
    BY DEF HandshakeInv, LockInv, ClosedIsQuiet, OwnAnswer
  <1>2. stdin = {} /\ DOMAIN stdout = {}
    BY DEF WireInv
  <1>3. WireInv'
    BY <1>2 DEF WireInv
  <1> QED
    BY <1>1, <1>3

(* The reply written takes the place of its request.                       *)
LEMMA EngineRepliesInv ==
    ASSUME IInv, TypeOK', NEW i \in stdin, EngineReplies(i)
    PROVE  IInv'
  <1> USE DEF IInv, TypeOK, EngineReplies, callVars
  <1>1. HandshakeInv' /\ LockInv' /\ ClosedIsQuiet' /\ OwnAnswer'
    BY DEF HandshakeInv, LockInv, ClosedIsQuiet, OwnAnswer
  <1>2. mu # None /\ i = want[mu] /\ i # NoiseId /\ i \in Nat
    BY DEF WireInv, LockInv
  <1>3. PICK b \in BOOLEAN : stdout' = Append(stdout, ReplyTo(i, b))
    OBVIOUS
  <1>4. ReplyTo(i, b) \in Line /\ ReplyTo(i, b).id = i /\ ReplyTo(i, b).answers = i
    BY <1>2 DEF ReplyTo, Line
  <1>5. \A n \in DOMAIN stdout' :
           \/ n \in DOMAIN stdout /\ stdout'[n] = stdout[n]
           \/ n = Len(stdout) + 1 /\ stdout'[n] = ReplyTo(i, b)
    BY <1>3, <1>4, AppendLine
  <1>6. \A n \in DOMAIN stdout : stdout[n].id # i
    BY <1>2 DEF WireInv
  <1>7. ASSUME NEW n \in DOMAIN stdout', stdout'[n].id # NoiseId
        PROVE  /\ stdout'[n].answers = stdout'[n].id
               /\ stdout'[n].id \notin stdin'
               /\ mu' # None /\ stdout'[n].id = want'[mu']
               /\ \A m \in DOMAIN stdout' : stdout'[m].id = stdout'[n].id => m = n
    <2>1. CASE n \in DOMAIN stdout /\ stdout'[n] = stdout[n]
      BY <1>4, <1>5, <1>6, <1>7, <2>1 DEF WireInv
    <2>2. CASE n = Len(stdout) + 1 /\ stdout'[n] = ReplyTo(i, b)
      BY <1>2, <1>4, <1>5, <1>6, <2>2
    <2> QED
      BY <1>5, <2>1, <2>2
  <1>8. (\A j \in stdin' : mu' # None /\ j = want'[mu']) /\ (proc' = "exited" => stdin' = {})
    BY DEF WireInv
  <1>9. WireInv'
    BY <1>7, <1>8 DEF WireInv
  <1> QED
    BY <1>1, <1>9

LEMMA EngineChattersInv ==
    ASSUME IInv, TypeOK', EngineChatters
    PROVE  IInv'
  <1> USE DEF IInv, TypeOK, EngineChatters, callVars
  <1>1. HandshakeInv' /\ LockInv' /\ ClosedIsQuiet' /\ OwnAnswer'
    BY DEF HandshakeInv, LockInv, ClosedIsQuiet, OwnAnswer
  <1>2. Noise \in Line /\ Noise.id = NoiseId
    BY DEF Noise, NoiseId, Line
  <1>3. \A n \in DOMAIN stdout' :
           stdout'[n].id # NoiseId => n \in DOMAIN stdout /\ stdout'[n] = stdout[n]
    BY <1>2, AppendLine
  <1>4. WireInv'
    BY <1>3 DEF WireInv
  <1> QED
    BY <1>1, <1>4

LEMMA InvStep == IInv /\ [Next]_vars => IInv'
  <1> SUFFICES ASSUME IInv, [Next]_vars PROVE IInv'
    OBVIOUS
  <1>0. TypeOK'
    BY TypeStep DEF IInv
  <1> USE DEF HandshakeInv, LockInv, ClosedIsQuiet, OwnAnswer, callVars
  <1>1. CASE Handshake
    BY <1>0, <1>1, OffTheWire DEF IInv, Handshake
  <1>2. CASE HandshakeFails
    <2>1. stdin = {}
      BY <1>2 DEF IInv, WireInv, HandshakeFails
    <2> QED
      BY <1>0, <1>2, <2>1 DEF IInv, WireInv, HandshakeFails
  <1>3. ASSUME NEW c \in Callers, StartCall(c) PROVE IInv'
    BY <1>0, <1>3, OffTheWire DEF IInv, TypeOK, StartCall
  <1>4. ASSUME NEW c \in Callers, Receive(c) \/ TimeOut(c) \/ Return(c) PROVE IInv'
    BY <1>0, <1>4, OffTheWire DEF IInv, Receive, TimeOut, Return
  <1>5. ASSUME NEW c \in Callers, CallTool(c) PROVE IInv'
    <2>1. CASE SendFails(c) \/ CallRefused(c)
      <3>1. UNCHANGED <<mu, want, wireVars, closed, phase>> /\ Finish(c, Refused) /\ pc[c] = "lock"
        BY <2>1 DEF SendFails, CallRefused
      <3> QED
        BY <1>0, <3>1, OffTheWire DEF IInv, TypeOK, Finish
    <2> QED
      BY <1>0, <1>5, <2>1, SendInv, ReadReplyInv, SkipLineInv, ReadEofInv DEF CallTool
  <1>6. ASSUME NEW k \in Closers, Close(k) PROVE IInv'
    <2>1. CASE CallClose(k) \/ CloseStdin(k) \/ Reap(k)
      BY <1>0, <2>1, OffTheWire DEF IInv, CallClose, CloseStdin, Reap
    <2>2. CASE CloseMark(k)
      BY <1>0, <2>2, OffTheWire DEF IInv, CloseMark
    <2>3. CASE Kill(k)
      BY <1>0, <2>3 DEF IInv, WireInv, Kill
    <2> QED
      BY <1>6, <2>1, <2>2, <2>3 DEF Close
  <1>7. CASE Engine
    <2>1. CASE EngineExits
      BY <1>0, <2>1 DEF IInv, WireInv, EngineExits
    <2> QED
      BY <1>0, <1>7, <2>1, EngineRepliesInv, EngineChattersInv DEF Engine
  <1>8. CASE UNCHANGED vars
    BY <1>0, <1>8, OffTheWire DEF IInv, vars, wireVars
  <1> QED
    BY <1>1, <1>2, <1>3, <1>4, <1>5, <1>6, <1>7, <1>8 DEF Next, CallTimeout

(* IInv is an invariant of every child: the basis of all that follows.     *)
THEOREM Invariant == Spec => []IInv
  BY InvInit, InvStep, PTL DEF Spec

(* The fields of a child, its frames and its pipes keep their types.       *)
THEOREM TypeCorrect == Spec => []TypeOK
  <1>1. IInv => TypeOK
    BY DEF IInv
  <1> QED
    BY <1>1, Invariant, PTL

(* No call is handed the answer to another request (child.go, call).       *)
THEOREM NoStolenAnswer == Spec => []OwnAnswer
  <1>1. IInv => OwnAnswer
    BY DEF IInv
  <1> QED
    BY <1>1, Invariant, PTL

(* No call is inside a child that has been marked closed (Close).          *)
THEOREM CloseFinishesWork == Spec => []ClosedIsQuiet
  <1>1. IInv => ClosedIsQuiet
    BY DEF IInv
  <1> QED
    BY <1>1, Invariant, PTL

(* The pipes carry the traffic of one request at a time, abandoned or not. *)
THEOREM DrivenOneAtATime == Spec => []OneOnTheWire
  <1>1. IInv => OneOnTheWire
    <2> SUFFICES ASSUME IInv, NEW i \in OnTheWire PROVE mu # None /\ i = want[mu]
      BY DEF OneOnTheWire
    <2>1. CASE i \in stdin
      BY <2>1 DEF IInv, WireInv
    <2>2. CASE i \in {stdout[n].id : n \in DOMAIN stdout} \ {NoiseId}
      BY <2>2 DEF IInv, WireInv
    <2> QED
      BY <2>1, <2>2 DEF OnTheWire
  <1> QED
    BY <1>1, Invariant, PTL

-----------------------------------------------------------------------------
(* Refinement: a child is a serial engine.                                 *)

Mapped == [c \in Callers |-> CallState(c)]

(* A step of one call changes the abstract state of that call only.        *)
LEMMA MappedStep ==
    ASSUME NEW c \in Callers, NEW v, CallState(c)' = v,
           \A d \in Callers \ {c} : /\ pc'[d] = pc[d]
                                    /\ want'[d] = want[d]
                                    /\ chan'[d] = chan[d]
    PROVE  Mapped' = [Mapped EXCEPT ![c] = v]
  <1>1. \A d \in Callers \ {c} : CallState(d)' = CallState(d)
    BY DEF CallState
  <1> QED
    BY <1>1 DEF Mapped

LEMMA MappedSame == ASSUME UNCHANGED callVars PROVE Mapped' = Mapped
  BY DEF callVars, Mapped, CallState

LEMMA FreeWhenUnlocked ==
    ASSUME IInv, mu = None
    PROVE  \A c \in Callers : Mapped[c] # "running"
  <1> SUFFICES ASSUME NEW c \in Callers PROVE CallState(c) # "running"
    BY DEF Mapped
  <1>1. pc[c] \in {"idle", "lock"}
    BY NoneAssumption DEF IInv, LockInv, TypeOK
  <1>2. chan[c] \in Nat \cup {None, Refused}
    BY DEF IInv, TypeOK
  <1> QED
    BY <1>1, <1>2 DEF CallState

LEMMA MapInit == Init => Contract!Init
  <1> SUFFICES ASSUME Init PROVE Contract!Init
    OBVIOUS
  <1>1. \A c \in Callers : CallState(c) = "idle"
    BY DEF Init, CallState
  <1> QED
    BY <1>1 DEF Init, Contract!Init

LEMMA MapStartCall ==
    ASSUME IInv, IInv', NEW c \in Callers, StartCall(c)
    PROVE  Contract!Enter(c)
  <1> USE DEF IInv, TypeOK, StartCall
  <1>1. CallState(c)' = "queued"
    BY DEF CallState
  <1>2. chan[c] \in Nat => chan[c] = want[c]
    BY DEF OwnAnswer
  <1>3. Mapped[c] \in {"idle", "answered", "refused"}
    BY <1>2, RefusedAssumption DEF Mapped, CallState
  <1>4. Mapped' = [Mapped EXCEPT ![c] = "queued"]
    BY <1>1, MappedStep
  <1> QED
    BY <1>3, <1>4 DEF Mapped, Contract!Enter

LEMMA MapSend ==
    ASSUME IInv, IInv', NEW c \in Callers, Send(c)
    PROVE  Contract!Begin(c)
  <1> USE DEF IInv, TypeOK, Send
  <1>1. Mapped[c] = "queued" /\ CallState(c)' = "running"
    BY DEF Mapped, CallState
  <1>2. Mapped' = [Mapped EXCEPT ![c] = "running"]
    BY <1>1, MappedStep
  <1>3. phase = "ready"
    BY DEF HandshakeInv
  <1> QED
    BY <1>1, <1>2, <1>3, FreeWhenUnlocked DEF Mapped, Contract!Begin, Contract!Free

LEMMA MapSendFails ==
    ASSUME IInv, IInv', NEW c \in Callers, SendFails(c)
    PROVE  Contract!Break(c)
  <1> USE DEF IInv, TypeOK, SendFails, Finish
  <1>1. Mapped[c] = "queued" /\ CallState(c)' = "refused"
    BY RefusedAssumption DEF Mapped, CallState
  <1>2. Mapped' = [Mapped EXCEPT ![c] = "refused"]
    BY <1>1, MappedStep
  <1>3. phase = "ready"
    BY DEF HandshakeInv
  <1> QED
    BY <1>1, <1>2, <1>3, FreeWhenUnlocked DEF Mapped, Contract!Break, Contract!Free

LEMMA MapCallRefused ==
    ASSUME IInv, IInv', NEW c \in Callers, CallRefused(c)
    PROVE  Contract!Refuse(c)
  <1> USE DEF IInv, TypeOK, CallRefused, Finish
  <1>1. Mapped[c] = "queued" /\ CallState(c)' = "refused"
    BY RefusedAssumption DEF Mapped, CallState
  <1>2. Mapped' = [Mapped EXCEPT ![c] = "refused"]
    BY <1>1, MappedStep
  <1>3. phase = "ready"
    BY DEF HandshakeInv
  <1> QED
    BY <1>1, <1>2, <1>3, FreeWhenUnlocked DEF Mapped, Contract!Refuse, Contract!Free

(* The engine's own error is a refusal of this call only.                  *)
LEMMA MapReadReply ==
    ASSUME IInv, IInv', NEW c \in Callers, ReadReply(c)
    PROVE  Contract!Answer(c) \/ Contract!Decline(c)
  <1> USE DEF IInv, TypeOK, ReadReply, Finish
  <1>1. Mapped[c] = "running"
    BY DEF Mapped, CallState
  <1>2. Head(stdout) \in Line
    BY TailLines
  <1>3. CASE Head(stdout).ok
    <2>1. pc'[c] = "idle" /\ chan'[c] \in Nat
      BY <1>2, <1>3 DEF Line
    <2>2. chan'[c] = want'[c]
      BY <2>1 DEF OwnAnswer
    <2>3. CallState(c)' = "answered"
      BY <2>1, <2>2, NoneAssumption, RefusedAssumption DEF CallState
    <2>4. Mapped' = [Mapped EXCEPT ![c] = "answered"]
      BY <2>3, MappedStep
    <2> QED
      BY <1>1, <2>4 DEF Mapped, Contract!Answer
  <1>4. CASE ~Head(stdout).ok
    <2>1. CallState(c)' = "refused"
      BY <1>4, RefusedAssumption DEF CallState
    <2>2. Mapped' = [Mapped EXCEPT ![c] = "refused"]
      BY <2>1, MappedStep
    <2> QED
      BY <1>1, <2>2 DEF Mapped, Contract!Decline
  <1> QED
    BY <1>3, <1>4

LEMMA MapReadEof ==
    ASSUME IInv, IInv', NEW c \in Callers, ReadEof(c)
    PROVE  Contract!Break(c)
  <1> USE DEF IInv, TypeOK, ReadEof, Finish
  <1>1. Mapped[c] = "running" /\ CallState(c)' = "refused"
    BY RefusedAssumption DEF Mapped, CallState
  <1>2. Mapped' = [Mapped EXCEPT ![c] = "refused"]
    BY <1>1, MappedStep
  <1>3. phase = "ready"
    BY DEF HandshakeInv
  <1> QED
    BY <1>1, <1>2, <1>3 DEF Mapped, Contract!Break

(* Closing marks the engine shut, and so does a handshake that fails.      *)
LEMMA MapClose ==
    ASSUME IInv, IInv', HandshakeFails \/ \E k \in Closers : CloseMark(k)
    PROVE  Contract!Close
  <1>1. mu = None /\ UNCHANGED callVars
    BY DEF IInv, HandshakeInv, HandshakeFails, CloseMark
  <1>2. (closed \/ phase = "failed")'
    BY DEF HandshakeFails, CloseMark
  <1>3. (dead /\ phase # "failed")' = (dead /\ phase # "failed")
    BY DEF IInv, HandshakeInv, HandshakeFails, CloseMark
  <1> QED
    BY <1>1, <1>2, <1>3, FreeWhenUnlocked, MappedSame DEF Mapped, Contract!Close, Contract!Free

LEMMA MapStutter ==
    ASSUME UNCHANGED <<pc, want, chan, closed, dead>>, phase' = phase \/ (phase = "handshake" /\ phase' = "ready")
    PROVE  UNCHANGED Contract!vars
  <1>1. \A c \in Callers : CallState(c)' = CallState(c)
    BY DEF CallState
  <1> QED
    BY <1>1 DEF Contract!vars

LEMMA MapStep == IInv /\ IInv' /\ [Next]_vars => [Contract!Next]_(Contract!vars)
  <1> SUFFICES ASSUME IInv, IInv', [Next]_vars PROVE [Contract!Next]_(Contract!vars)
    OBVIOUS
  <1> USE DEF callVars, wireVars
  <1>1. CASE Handshake
    BY <1>1, MapStutter DEF Handshake
  <1>2. CASE HandshakeFails
    BY <1>2, MapClose DEF Contract!Next
  <1>3. ASSUME NEW c \in Callers, CallTimeout(c) PROVE [Contract!Next]_(Contract!vars)
    <2>1. CASE StartCall(c)
      BY <2>1, MapStartCall DEF Contract!Next
    <2>2. CASE Receive(c) \/ TimeOut(c) \/ Return(c)
      BY <2>2, MapStutter DEF Receive, TimeOut, Return
    <2> QED
      BY <1>3, <2>1, <2>2 DEF CallTimeout
  <1>4. ASSUME NEW c \in Callers, CallTool(c) PROVE [Contract!Next]_(Contract!vars)
    <2>1. CASE SkipLine(c)
      BY <2>1, MapStutter DEF SkipLine
    <2>2. CASE ~SkipLine(c)
      BY <1>4, <2>2, MapSend, MapSendFails, MapCallRefused, MapReadReply, MapReadEof
         DEF CallTool, Contract!Next
    <2> QED
      BY <2>1, <2>2
  <1>5. ASSUME NEW k \in Closers, Close(k) PROVE [Contract!Next]_(Contract!vars)
    <2>1. CASE CloseMark(k)
      BY <2>1, MapClose DEF Contract!Next
    <2>2. CASE CallClose(k) \/ CloseStdin(k) \/ Kill(k) \/ Reap(k)
      BY <2>2, MapStutter DEF CallClose, CloseStdin, Kill, Reap
    <2> QED
      BY <1>5, <2>1, <2>2 DEF Close
  <1>6. CASE Engine
    BY <1>6, MapStutter DEF Engine, EngineReplies, EngineChatters, EngineExits
  <1>7. CASE UNCHANGED vars
    BY <1>7, MapStutter DEF vars
  <1> QED
    BY <1>1, <1>2, <1>3, <1>4, <1>5, <1>6, <1>7 DEF Next

(* What the callers of a child may assume, whatever its pipes carry: one   *)
(* call at a time, each with its own answer or a refusal, none in a child  *)
(* that is closed or dead.                                                 *)
THEOREM ChildIsSerialEngine == Spec => ImplementsSerialEngine
  BY MapInit, MapStep, Invariant, PTL DEF Spec, ImplementsSerialEngine, Contract!Spec

-----------------------------------------------------------------------------
(* The contract itself: an engine that any calls share.                    *)
VARIABLES
    inside,         \* how far each call has come
    over,           \* the engine has been closed
    gone            \* its death has been noticed

Shared == INSTANCE SerialEngine WITH call <- inside, shut <- over, dead <- gone

SerialInv == Shared!TypeOK /\ Shared!Serial

(* The contract means what its readers take it to mean: no two calls are   *)
(* in the engine at once, and none is in an engine that has been shut. With *)
(* ChildIsSerialEngine this holds of every Child, with EnginesAreSerial of *)
(* every engine of a resident.                                             *)
THEOREM OneAtATime == Shared!Spec => []Shared!Serial
  <1>1. Shared!Init => SerialInv
    BY DEF Shared!Init, SerialInv, Shared!TypeOK, Shared!Serial, Shared!Free, Shared!CallStates
  <1>2. SerialInv /\ [Shared!Next]_(Shared!vars) => SerialInv'
    <2> SUFFICES ASSUME SerialInv, [Shared!Next]_(Shared!vars)
                 PROVE  SerialInv'
      OBVIOUS
    <2> USE DEF SerialInv, Shared!TypeOK, Shared!Serial, Shared!Free, Shared!CallStates
    <2>1. ASSUME NEW c \in Callers, Shared!Enter(c)
          PROVE  SerialInv'
      BY <2>1 DEF Shared!Enter
    <2>2. ASSUME NEW c \in Callers, Shared!Begin(c)
          PROVE  SerialInv'
      BY <2>2 DEF Shared!Begin
    <2>3. ASSUME NEW c \in Callers, Shared!Refuse(c) \/ Shared!Decline(c)
          PROVE  SerialInv'
      BY <2>3 DEF Shared!Refuse, Shared!Decline
    <2>4. ASSUME NEW c \in Callers, Shared!Answer(c)
          PROVE  SerialInv'
      BY <2>4 DEF Shared!Answer
    <2>5. ASSUME NEW c \in Callers, Shared!Break(c)
          PROVE  SerialInv'
      <3>1. Shared!TypeOK' /\ over' = over
        BY <2>5 DEF Shared!Break
      <3>2. \A d \in Callers : inside'[d] = "running" => inside[d] = "running"
        BY <2>5 DEF Shared!Break
      <3> QED
        BY <3>1, <3>2
    <2>6. ASSUME NEW c \in Callers, Shared!Forget(c)
          PROVE  SerialInv'
      BY <2>6 DEF Shared!Forget
    <2>7. CASE Shared!Close
      BY <2>7 DEF Shared!Close
    <2>8. CASE UNCHANGED Shared!vars
      BY <2>8 DEF Shared!vars
    <2> QED
      BY <2>1, <2>2, <2>3, <2>4, <2>5, <2>6, <2>7, <2>8 DEF Shared!Next
  <1> QED
    BY <1>1, <1>2, PTL DEF Shared!Spec, SerialInv
=============================================================================
