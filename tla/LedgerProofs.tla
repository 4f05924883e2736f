---------------------------- MODULE LedgerProofs ----------------------------
(***************************************************************************)
(* Proofs about Ledger: what holds of one ledger for any number of         *)
(* appends, prunes, keys and torn writes.                                  *)
(***************************************************************************)
EXTENDS Ledger, SequenceTheorems, FiniteSetTheorems, TLAPS

USE LedgerAssumption DEF LedgerAssumption

Lines == Entry \cup {Garbage}

\* Whoever is in Append holds the entry it will write, which is its own.
EntryInv == \A w \in InProgress : entry[w] \in Entry /\ entry[w].by = w

(* A file without its last newline ends in what a failed append has left,  *)
(* and appends that have been acknowledged have returned.                  *)
TailInv ==
    /\ open => lines # <<>>
    /\ open => Last(lines) = Garbage \/ pc[Last(lines).by] = "failed"
    /\ \A w \in acked : pc[w] = "done"

-----------------------------------------------------------------------------
(* A line put at the end of a file.                                        *)
LEMMA AppendedLine ==
    ASSUME NEW s \in Seq(Lines), NEW x \in Lines
    PROVE  /\ Append(s, x) \in Seq(Lines)
           /\ Append(s, x) # <<>>
           /\ Last(Append(s, x)) = x
           /\ Len(s) + 1 \in DOMAIN Append(s, x) /\ Append(s, x)[Len(s) + 1] = x
           /\ \A i \in DOMAIN s : i \in DOMAIN Append(s, x) /\ Append(s, x)[i] = s[i]
           /\ \A i \in DOMAIN Append(s, x) : i \in DOMAIN s \/ i = Len(s) + 1
  BY DEF Last

(* A line written over the remains of another.                             *)
LEMMA MergedLine ==
    ASSUME NEW s \in Seq(Lines), s # <<>>
    PROVE  LET t == [s EXCEPT ![Len(s)] = Garbage]
           IN  /\ t \in Seq(Lines)
               /\ t # <<>>
               /\ Last(t) = Garbage
               /\ DOMAIN t = DOMAIN s
               /\ \A i \in DOMAIN s : i # Len(s) => t[i] = s[i]
  BY DEF Last, Lines

(* The file after a line x: it is there, or has become part of garbage.    *)
LEMMA LinePut ==
    ASSUME TypeOK, TailInv, NEW x \in Lines
    PROVE  /\ WithLine(x) \in Seq(Lines)
           /\ WithLine(x) # <<>>
           /\ Last(WithLine(x)) \in {x, Garbage}
           /\ ~open => \E i \in DOMAIN WithLine(x) : WithLine(x)[i] = x
           /\ \A i \in DOMAIN lines :
                 \/ i \in DOMAIN WithLine(x) /\ WithLine(x)[i] = lines[i]
                 \/ open /\ lines[i] = Last(lines)
  <1>1. lines \in Seq(Lines)
    BY DEF TypeOK, Lines
  <1>2. CASE open
    <2>1. lines # <<>> /\ WithLine(x) = [lines EXCEPT ![Len(lines)] = Garbage]
      BY <1>2 DEF TailInv, WithLine
    <2> QED
      BY <1>1, <1>2, <2>1, MergedLine DEF Last
  <1>3. CASE ~open
    BY <1>1, <1>3, AppendedLine DEF WithLine
  <1> QED
    BY <1>2, <1>3 DEF TypeOK

-----------------------------------------------------------------------------
Base == TypeOK /\ EntryInv /\ TailInv

(* The first lines of a file.                                              *)
LEMMA FrontLines ==
    ASSUME NEW s \in Seq(Lines), NEW n \in Nat, n <= Len(s)
    PROVE  /\ SubSeq(s, 1, n) \in Seq(Lines)
           /\ Len(SubSeq(s, 1, n)) = n
           /\ \A i \in 1..n : SubSeq(s, 1, n)[i] = s[i]
  <1>1. \A i \in 1..n : s[i] \in Lines
    OBVIOUS
  <1>2. /\ SubSeq(s, 1, n) \in Seq(Lines)
        /\ Len(SubSeq(s, 1, n)) = IF 1 <= n THEN n - 1 + 1 ELSE 0
        /\ \A i \in 1..(n - 1 + 1) : SubSeq(s, 1, n)[i] = s[1 + i - 1]
    BY <1>1, SubSeqProperties
  <1> QED
    BY <1>2

LEMMA ReadAllType ==
    ASSUME TypeOK
    PROVE  readAll \in Seq(Lines) /\ (Readable => readAll \in Seq(Entry))
  <1>1. lines \in Seq(Lines)
    BY DEF TypeOK, Lines
  <1>2. CASE lines # <<>> /\ Last(lines) = Garbage
    <2>1. readAll = SubSeq(lines, 1, Len(lines) - 1)
      BY <1>2 DEF readAll
    <2>2. Len(lines) - 1 \in Nat /\ Len(lines) - 1 <= Len(lines)
      BY <1>1, <1>2
    <2>3. /\ readAll \in Seq(Lines) /\ Len(readAll) = Len(lines) - 1
          /\ \A i \in 1..(Len(lines) - 1) : readAll[i] = lines[i]
      BY <1>1, <2>1, <2>2, FrontLines
    <2>4. ASSUME Readable PROVE readAll \in Seq(Entry)
      <3>1. \A i \in 1..Len(readAll) : readAll[i] \in Entry
        BY <1>1, <2>2, <2>3, <2>4 DEF Readable, Lines
      <3> QED
        BY <2>3, <3>1, SeqDef
    <2> QED
      BY <2>3, <2>4
  <1>3. CASE ~(lines # <<>> /\ Last(lines) = Garbage)
    <2>1. readAll = lines
      BY <1>3 DEF readAll
    <2>2. ASSUME Readable PROVE readAll \in Seq(Entry)
      <3>1. \A i \in 1..Len(lines) : lines[i] \in Entry
        BY <1>1, <1>3, <2>2 DEF Readable, Lines, Last
      <3> QED
        BY <1>1, <2>1, <3>1, SeqDef
    <2> QED
      BY <1>1, <2>1, <2>2
  <1> QED
    BY <1>2, <1>3

LEMMA LastSeqType ==
    ASSUME TypeOK, Readable
    PROVE  lastSeq \in Nat
  <1>1. readAll \in Seq(Entry)
    BY ReadAllType
  <1>2. readAll # <<>> => readAll[Len(readAll)] \in Entry
    BY <1>1
  <1>3. readAll # <<>> => Last(readAll).seq \in Nat
    BY <1>2 DEF Last, Entry
  <1> QED
    BY <1>3 DEF lastSeq

LEMMA BaseInit == Init => Base
  <1> SUFFICES ASSUME Init PROVE Base
    OBVIOUS
  <1>1. lines \in Seq(Entry \cup {Garbage})
    BY DEF Init
  <1>2. TypeOK
    <2>1. /\ pc \in [Writers -> {"idle", "open", "write", "done", "failed"}]
          /\ entry \in [Writers -> Entry \cup {None}]
          /\ fd \in [Writers -> {"none", "linked", "unlinked"}]
      BY DEF Init
    <2>2. /\ open \in BOOLEAN /\ overlapped \in BOOLEAN
          /\ pruned \subseteq Pruners /\ acked \subseteq Writers
      BY DEF Init
    <2>3. tears \in 0..MaxTears
      BY DEF Init
    <2> QED
      BY <1>1, <2>1, <2>2, <2>3 DEF TypeOK
  <1>3. EntryInv /\ TailInv
    BY DEF Init, EntryInv, TailInv, InProgress
  <1> QED
    BY <1>2, <1>3 DEF Base

LEMMA BaseStep == Base /\ [Next]_vars => Base'
  <1> SUFFICES ASSUME Base, [Next]_vars PROVE Base'
    OBVIOUS
  <1> USE DEF Base
  <1>1. ASSUME NEW w \in Writers, NEW k \in Keys, ReadSeq(w, k) PROVE Base'
    <2>1. CASE Readable
      <3>1. [seq |-> lastSeq + 1, key |-> k, by |-> w] \in Entry
        BY <2>1, LastSeqType DEF Entry
      <3>2. /\ pc[w] = "idle"
            /\ entry' = [entry EXCEPT ![w] = [seq |-> lastSeq + 1, key |-> k, by |-> w]]
            /\ pc' = [pc EXCEPT ![w] = "open"]
            /\ UNCHANGED <<lines, open, fd, pruned, acked, tears>>
            /\ overlapped' \in BOOLEAN
        BY <1>1, <2>1 DEF ReadSeq, Begin, TypeOK
      <3>3. TypeOK'
        BY <3>1, <3>2 DEF TypeOK
      <3>4. EntryInv'
        <4> SUFFICES ASSUME NEW v \in InProgress'
                     PROVE  entry'[v] \in Entry /\ entry'[v].by = v
          BY DEF EntryInv
        <4>1. CASE v = w
          BY <3>1, <3>2, <4>1 DEF TypeOK
        <4>2. CASE v # w
          BY <3>2, <4>2 DEF TypeOK, EntryInv, InProgress
        <4> QED
          BY <4>1, <4>2
      <3>5. TailInv'
        BY <3>2 DEF TypeOK, TailInv, Last
      <3> QED
        BY <3>3, <3>4, <3>5
    <2>2. CASE ~Readable
      <3>1. /\ pc' = [pc EXCEPT ![w] = "failed"]
            /\ UNCHANGED <<lines, open, entry, fd, pruned, acked, tears>>
            /\ overlapped' \in BOOLEAN
        BY <1>1, <2>2 DEF ReadSeq, Begin, TypeOK
      <3>2. pc[w] = "idle"
        BY <1>1 DEF ReadSeq
      <3>3. TypeOK' /\ EntryInv'
        BY <3>1 DEF TypeOK, EntryInv, InProgress
      <3>4. TailInv'
        BY <3>1, <3>2 DEF TypeOK, TailInv, Last
      <3> QED
        BY <3>3, <3>4
    <2> QED
      BY <2>1, <2>2
  <1>2. ASSUME NEW w \in Writers, Open(w) PROVE Base'
    BY <1>2 DEF Open, TypeOK, EntryInv, TailInv, InProgress, Last
  <1>3. ASSUME NEW w \in Writers, Write(w) PROVE Base'
    <2>1. /\ w \in InProgress /\ entry[w] \in Entry
          /\ pc' = [pc EXCEPT ![w] = "done"]
          /\ UNCHANGED <<entry, fd, pruned, tears, overlapped>>
      BY <1>3 DEF Write, InProgress, EntryInv
    <2>2. CASE fd[w] = "linked"
      <3>1. lines' = WithLine(entry[w]) /\ open' = FALSE /\ acked' = acked \cup {w}
        BY <1>3, <2>2 DEF Write
      <3>2. lines' \in Seq(Lines)
        BY <2>1, <3>1, LinePut DEF Lines
      <3>3. TypeOK'
        BY <2>1, <3>1, <3>2 DEF TypeOK, Lines
      <3>4. EntryInv'
        BY <2>1 DEF TypeOK, EntryInv, InProgress
      <3>5. TailInv'
        BY <2>1, <3>1 DEF TypeOK, TailInv
      <3> QED
        BY <3>3, <3>4, <3>5
    <2>3. CASE fd[w] # "linked"
      BY <1>3, <2>1, <2>3 DEF Write, TypeOK, EntryInv, TailInv, InProgress, Last
    <2> QED
      BY <2>2, <2>3
  <1>4. ASSUME NEW w \in Writers, Tear(w) PROVE Base'
    <2>1. /\ w \in InProgress /\ entry[w] \in Entry /\ entry[w].by = w
          /\ pc' = [pc EXCEPT ![w] = "failed"] /\ open' = TRUE
          /\ tears < MaxTears /\ tears' = tears + 1
          /\ UNCHANGED <<entry, fd, pruned, acked, overlapped>>
      BY <1>4 DEF Tear, InProgress, EntryInv
    <2>2. PICK x \in {Garbage, entry[w]} : lines' = WithLine(x)
      BY <1>4 DEF Tear
    <2>3. x \in Lines
      BY <2>1, <2>2 DEF Lines
    <2>4. lines' \in Seq(Lines) /\ lines' # <<>> /\ Last(lines') \in {x, Garbage}
      BY <2>2, <2>3, LinePut
    <2>5. tears' \in 0..MaxTears
      BY <2>1 DEF TypeOK
    <2>6. TypeOK'
      BY <2>1, <2>4, <2>5 DEF TypeOK, Lines
    <2>7. EntryInv'
      BY <2>1 DEF TypeOK, EntryInv, InProgress
    <2>8. TailInv'
      BY <2>1, <2>2, <2>4 DEF TypeOK, TailInv, InProgress, Last
    <2> QED
      BY <2>6, <2>7, <2>8
  <1>5. ASSUME NEW w \in Writers, GiveUp(w) PROVE Base'
    BY <1>5 DEF GiveUp, TypeOK, EntryInv, TailInv, InProgress, Last
  <1>6. ASSUME NEW p \in Pruners, Prune(p) PROVE Base'
    <2>1. lines' \in Seq(Entry \cup {Garbage}) /\ overlapped' \in BOOLEAN
      BY <1>6 DEF Prune, Begin, TypeOK
    <2>2. /\ fd' \in [Writers -> {"none", "linked", "unlinked"}]
          /\ pruned' \subseteq Pruners
      BY <1>6 DEF Prune, TypeOK
    <2> QED
      BY <1>6, <2>1, <2>2 DEF Prune, TypeOK, EntryInv, TailInv, InProgress
  <1>7. CASE UNCHANGED vars
    BY <1>7 DEF vars, TypeOK, EntryInv, TailInv, InProgress, Last
  <1> QED
    BY <1>1, <1>2, <1>3, <1>4, <1>5, <1>6, <1>7 DEF Next

(* The ledger's file, the frames of its appends and their entries keep     *)
(* their types, whatever overlaps, crashes or is pruned.                   *)
THEOREM TypeCorrect == Spec => []TypeOK
  <1>1. Spec => []Base
    BY BaseInit, BaseStep, PTL DEF Spec
  <1>2. Base => TypeOK
    BY DEF Base
  <1> QED
    BY <1>1, <1>2, PTL

-----------------------------------------------------------------------------
(* A torn line is spent on the append that follows it: until then it has   *)
(* cost nothing.                                                           *)
Lost == acked \ Stored
LossInv == Cardinality(Lost) + (IF open THEN 1 ELSE 0) <= tears

LEMMA LostFinite ==
    ASSUME TypeOK
    PROVE  IsFiniteSet(Lost) /\ Cardinality(Lost) \in Nat /\ tears \in Nat
  <1>1. Lost \in SUBSET Writers
    BY DEF TypeOK, Lost
  <1>2. tears \in Nat
    BY DEF TypeOK
  <1> QED
    BY <1>1, <1>2, FS_Subset, FS_CardinalityType

\* A subset of a finite set and one element more.
LEMMA OneMore ==
    ASSUME NEW S, IsFiniteSet(S), NEW w, NEW T, T \subseteq S \cup {w}
    PROVE  Cardinality(T) <= Cardinality(S) + 1
  <1>1. /\ IsFiniteSet(S \cup {w})
        /\ Cardinality(S \cup {w}) = IF w \in S THEN Cardinality(S) ELSE Cardinality(S) + 1
    BY FS_AddElement
  <1>2. /\ Cardinality(S) \in Nat /\ Cardinality(T) \in Nat
        /\ Cardinality(T) <= Cardinality(S \cup {w})
    BY <1>1, FS_Subset, FS_CardinalityType
  <1> QED
    BY <1>1, <1>2

(* Fewer or the same are lost, or at most w in addition.                   *)
LEMMA NoneLost ==
    ASSUME TypeOK, TypeOK', Lost' \subseteq Lost
    PROVE  Cardinality(Lost') <= Cardinality(Lost)
  BY LostFinite, FS_Subset

LEMMA OneLost ==
    ASSUME TypeOK, TypeOK', NEW w, Lost' \subseteq Lost \cup {w}
    PROVE  Cardinality(Lost') <= Cardinality(Lost) + 1
  BY LostFinite, OneMore

(* A line put into the file takes away no entry of an acknowledged append. *)
LEMMA PutKeepsStored ==
    ASSUME Base, NEW x \in Lines, lines' = WithLine(x),
           NEW v \in Stored
    PROVE  \E i \in DOMAIN lines' : lines'[i] # Garbage /\ lines'[i].by = v
  <1>1. PICK i \in DOMAIN lines : lines[i] # Garbage /\ lines[i].by = v
    BY DEF Stored
  <1>2. v \in acked /\ pc[v] = "done"
    BY DEF Stored, Base, TailInv
  <1>3. ~(open /\ lines[i] = Last(lines))
    BY <1>1, <1>2 DEF Base, TailInv
  <1> QED
    BY <1>1, <1>3, LinePut DEF Base

LEMMA LossStep == Base /\ LossInv /\ [Next]_vars => LossInv'
  <1> SUFFICES ASSUME Base, LossInv, [Next]_vars PROVE LossInv'
    OBVIOUS
  <1>1. TypeOK /\ TypeOK'
    BY BaseStep DEF Base
  <1>2. /\ Cardinality(Lost) \in Nat /\ Cardinality(Lost') \in Nat
        /\ tears \in Nat /\ tears' \in Nat
    <2>1. Lost' \in SUBSET Writers /\ tears' \in 0..MaxTears
      BY <1>1 DEF TypeOK, Lost
    <2>2. Cardinality(Lost') \in Nat
      BY <2>1, FS_Subset, FS_CardinalityType
    <2> QED
      BY <1>1, <2>1, <2>2, LostFinite
  <1>3. ASSUME Lost' \subseteq Lost, open' => open, tears' = tears PROVE LossInv'
    <2>1. Cardinality(Lost') <= Cardinality(Lost)
      BY <1>1, <1>3, NoneLost
    <2>2. (IF open' THEN 1 ELSE 0) <= (IF open THEN 1 ELSE 0)
      BY <1>3
    <2> QED
      BY <1>2, <1>3, <2>1, <2>2 DEF LossInv
  <1>4. ASSUME UNCHANGED <<lines, open, acked, tears>> PROVE LossInv'
    BY <1>3, <1>4 DEF Lost, Stored
  <1>5. ASSUME NEW w \in Writers, NEW k \in Keys, ReadSeq(w, k) PROVE LossInv'
    BY <1>4, <1>5 DEF ReadSeq
  <1>6. ASSUME NEW w \in Writers, Open(w) \/ GiveUp(w) PROVE LossInv'
    BY <1>4, <1>6 DEF Open, GiveUp
  <1>7. ASSUME NEW w \in Writers, Write(w) PROVE LossInv'
    <2>1. entry[w] \in Lines /\ entry[w] # Garbage /\ entry[w].by = w
      BY <1>7 DEF Write, Base, EntryInv, InProgress, Lines
    <2>2. CASE fd[w] # "linked"
      BY <1>4, <1>7, <2>2 DEF Write
    <2>3. CASE fd[w] = "linked"
      <3>1. /\ lines' = WithLine(entry[w]) /\ open' = FALSE
            /\ acked' = acked \cup {w} /\ tears' = tears
        BY <1>7, <2>3 DEF Write
      <3>2. Stored \subseteq Stored'
        BY <2>1, <3>1, PutKeepsStored DEF Stored
      <3>3. CASE open
        <4>1. Lost' \subseteq Lost \cup {w}
          BY <3>1, <3>2 DEF Lost
        <4>2. Cardinality(Lost') <= Cardinality(Lost) + 1
          BY <1>1, <4>1, OneLost
        <4> QED
          BY <1>2, <3>1, <3>3, <4>2 DEF LossInv
      <3>4. CASE ~open
        <4>1. w \in Stored'
          BY <2>1, <3>1, <3>4, LinePut DEF Stored, Base
        <4>2. Lost' \subseteq Lost
          BY <3>1, <3>2, <4>1 DEF Lost
        <4> QED
          BY <1>3, <3>1, <4>2
      <3> QED
        BY <3>3, <3>4
    <2> QED
      BY <2>2, <2>3
  <1>8. ASSUME NEW w \in Writers, Tear(w) PROVE LossInv'
    <2>1. acked' = acked /\ open' = TRUE /\ tears' = tears + 1
      BY <1>8 DEF Tear
    <2>2. PICK x \in Lines : lines' = WithLine(x)
      BY <1>8 DEF Tear, Base, EntryInv, InProgress, Lines
    <2>3. Stored \subseteq Stored'
      BY <2>1, <2>2, PutKeepsStored DEF Stored
    <2>4. Lost' \subseteq Lost
      BY <2>1, <2>3 DEF Lost
    <2>5. Cardinality(Lost') <= Cardinality(Lost)
      BY <1>1, <2>4, NoneLost
    <2> QED
      BY <1>2, <2>1, <2>5 DEF LossInv
  <1>9. ASSUME NEW p \in Pruners, Prune(p) PROVE LossInv'
    BY <1>3, <1>9 DEF Prune, Lost
  <1>10. CASE UNCHANGED vars
    BY <1>4, <1>10 DEF vars
  <1> QED
    BY <1>5, <1>6, <1>7, <1>8, <1>9, <1>10 DEF Next

LEMMA LossInit == Init => LossInv
  <1>1. ASSUME Init PROVE Lost = {} /\ open = FALSE /\ tears = 0
    BY <1>1 DEF Init, Lost
  <1> QED
    BY <1>1, FS_EmptySet DEF LossInv

(* However many appends and prunes overlap, each write that stopped half   *)
(* way costs at most one acknowledged append.                              *)
THEOREM LossIsBounded == Spec => []LossBounded
  <1>1. Spec => [](Base /\ LossInv)
    BY LossInit, BaseInit, BaseStep, LossStep, PTL DEF Spec
  <1>2. Base /\ LossInv => LossBounded
    BY LostFinite DEF LossInv, LossBounded, Lost, Base
  <1> QED
    BY <1>1, <1>2, PTL

-----------------------------------------------------------------------------
(* A write that stopped half way pays for the line it has damaged, or for  *)
(* the one that will be when another line is put behind what it has left.  *)
GarbageIn(s) == {i \in DOMAIN s : s[i] = Garbage}
Damaged == GarbageIn(lines)
Doomed == open /\ Last(lines) # Garbage
DamageInv == Cardinality(Damaged) + (IF Doomed THEN 1 ELSE 0) <= tears

LEMMA DamagedFinite ==
    ASSUME NEW s \in Seq(Lines)
    PROVE  IsFiniteSet(GarbageIn(s)) /\ Cardinality(GarbageIn(s)) \in Nat
  <1>1. Len(s) \in Nat /\ DOMAIN s = 1..Len(s)
    OBVIOUS
  <1>2. IsFiniteSet(1..Len(s))
    BY <1>1, FS_Interval
  <1>3. GarbageIn(s) \subseteq 1..Len(s)
    BY <1>1 DEF GarbageIn
  <1> QED
    BY <1>2, <1>3, FS_Subset, FS_CardinalityType

(* A line x put into the file damages one line more at most, and none if   *)
(* the file ended well and x is an entry, or if its end was garbage.       *)
LEMMA PutDamages ==
    ASSUME TypeOK, TypeOK', TailInv, NEW x \in Lines, lines' = WithLine(x)
    PROVE  /\ Cardinality(Damaged') <= Cardinality(Damaged) + 1
           /\ (IF open THEN Last(lines) = Garbage ELSE x # Garbage)
                 => Cardinality(Damaged') <= Cardinality(Damaged)
           /\ Last(lines') = IF open THEN Garbage ELSE x
  <1>1. lines \in Seq(Lines)
    BY DEF TypeOK, Lines
  <1>0. IsFiniteSet(Damaged) /\ Cardinality(Damaged) \in Nat
    BY <1>1, DamagedFinite DEF Damaged
  <1>2. CASE open
    <2>1. lines # <<>> /\ lines' = [lines EXCEPT ![Len(lines)] = Garbage]
      BY <1>2 DEF TailInv, WithLine
    <2>2. /\ Last(lines') = Garbage /\ DOMAIN lines' = DOMAIN lines
          /\ \A i \in DOMAIN lines : i # Len(lines) => lines'[i] = lines[i]
      BY <1>1, <2>1, MergedLine
    <2>3. Damaged' \subseteq Damaged \cup {Len(lines)}
      BY <2>2 DEF Damaged, GarbageIn
    <2>4. Last(lines) = Garbage => Damaged' \subseteq Damaged
      BY <2>2 DEF Damaged, GarbageIn, Last
    <2> QED
      BY <1>0, <1>2, <2>2, <2>3, <2>4, OneMore, FS_Subset
  <1>3. CASE ~open
    <2>1. lines' = Append(lines, x)
      BY <1>3 DEF WithLine
    <2>2. /\ Last(lines') = x /\ lines'[Len(lines) + 1] = x
          /\ \A i \in DOMAIN lines : lines'[i] = lines[i]
          /\ \A i \in DOMAIN lines' : i \in DOMAIN lines \/ i = Len(lines) + 1
      BY <1>1, <2>1, AppendedLine
    <2>3. Damaged' \subseteq Damaged \cup {Len(lines) + 1}
      BY <2>2 DEF Damaged, GarbageIn
    <2>4. x # Garbage => Damaged' \subseteq Damaged
      BY <2>2 DEF Damaged, GarbageIn
    <2> QED
      BY <1>0, <1>3, <2>2, <2>3, <2>4, OneMore, FS_Subset
  <1> QED
    BY <1>2, <1>3 DEF TypeOK

LEMMA DamageStep == Base /\ DamageInv /\ [Next]_vars => DamageInv'
  <1> SUFFICES ASSUME Base, DamageInv, [Next]_vars PROVE DamageInv'
    OBVIOUS
  <1>1. TypeOK /\ TypeOK' /\ TailInv
    BY BaseStep DEF Base
  <1>2. /\ Cardinality(Damaged) \in Nat /\ Cardinality(Damaged') \in Nat
        /\ tears \in Nat /\ tears' \in Nat
    <2>1. lines \in Seq(Lines) /\ lines' \in Seq(Lines)
      BY <1>1 DEF TypeOK, Lines
    <2> QED
      BY <1>1, <2>1, DamagedFinite DEF Damaged, TypeOK
  <1>3. ASSUME UNCHANGED <<lines, open, tears>> PROVE DamageInv'
    BY <1>3 DEF DamageInv, Damaged, Doomed
  <1>4. ASSUME NEW w \in Writers, NEW k \in Keys, ReadSeq(w, k) PROVE DamageInv'
    BY <1>3, <1>4 DEF ReadSeq
  <1>5. ASSUME NEW w \in Writers, Open(w) \/ GiveUp(w) PROVE DamageInv'
    BY <1>3, <1>5 DEF Open, GiveUp
  <1>6. ASSUME NEW w \in Writers, Write(w) PROVE DamageInv'
    <2>1. entry[w] \in Lines /\ entry[w] # Garbage
      BY <1>6 DEF Write, Base, EntryInv, InProgress, Lines
    <2>2. CASE fd[w] # "linked"
      BY <1>3, <1>6, <2>2 DEF Write
    <2>3. CASE fd[w] = "linked"
      <3>1. lines' = WithLine(entry[w]) /\ open' = FALSE /\ tears' = tears
        BY <1>6, <2>3 DEF Write
      <3>2. ~Doomed'
        BY <3>1 DEF Doomed
      <3>3. CASE Doomed
        BY <1>1, <1>2, <2>1, <3>1, <3>2, <3>3, PutDamages DEF DamageInv
      <3>4. CASE ~Doomed
        <4>1. IF open THEN Last(lines) = Garbage ELSE entry[w] # Garbage
          BY <2>1, <3>4 DEF Doomed
        <4> QED
          BY <1>1, <1>2, <2>1, <3>1, <3>2, <3>4, <4>1, PutDamages DEF DamageInv
      <3> QED
        BY <3>3, <3>4
    <2> QED
      BY <2>2, <2>3
  <1>7. ASSUME NEW w \in Writers, Tear(w) PROVE DamageInv'
    <2>1. open' = TRUE /\ tears' = tears + 1
      BY <1>7 DEF Tear
    <2>2. PICK x \in Lines : lines' = WithLine(x)
      BY <1>7 DEF Tear, Base, EntryInv, InProgress, Lines
    <2>3. Last(lines') = IF open THEN Garbage ELSE x
      BY <1>1, <2>2, PutDamages
    <2>4. CASE Doomed'
      <3>1. ~open /\ x # Garbage
        BY <1>1, <2>3, <2>4 DEF Doomed, TypeOK
      <3>2. Cardinality(Damaged') <= Cardinality(Damaged)
        BY <1>1, <2>2, <3>1, PutDamages
      <3> QED
        BY <1>2, <2>1, <2>4, <3>1, <3>2 DEF DamageInv, Doomed
    <2>5. CASE ~Doomed'
      <3>1. Cardinality(Damaged') <= Cardinality(Damaged) + 1
        BY <1>1, <2>2, PutDamages
      <3> QED
        BY <1>2, <2>1, <2>5, <3>1 DEF DamageInv
    <2> QED
      BY <2>4, <2>5
  <1>8. ASSUME NEW p \in Pruners, Prune(p) PROVE DamageInv'
    <2>1. lines' = <<>> /\ open' = FALSE /\ tears' = tears
      BY <1>8 DEF Prune
    <2>2. Damaged' = {} /\ ~Doomed'
      BY <2>1 DEF Damaged, GarbageIn, Doomed
    <2> QED
      BY <1>2, <2>2, FS_EmptySet DEF DamageInv
  <1>9. CASE UNCHANGED vars
    BY <1>3, <1>9 DEF vars
  <1> QED
    BY <1>4, <1>5, <1>6, <1>7, <1>8, <1>9 DEF Next

(* However many appends and prunes overlap, a write that stopped half way  *)
(* makes one line unreadable at most.                                      *)
THEOREM DamageIsBounded == Spec => []DamageBounded
  <1>1. Init => DamageInv
    <2>1. ASSUME Init PROVE Damaged = {} /\ ~Doomed /\ tears = 0
      BY <2>1 DEF Init, Damaged, GarbageIn, Doomed
    <2> QED
      BY <2>1, FS_EmptySet DEF DamageInv
  <1>2. Spec => [](Base /\ DamageInv)
    BY <1>1, BaseInit, BaseStep, DamageStep, PTL DEF Spec
  <1>3. Base /\ DamageInv => DamageBounded
    <2> SUFFICES ASSUME Base, DamageInv PROVE DamageBounded
      OBVIOUS
    <2>1. lines \in Seq(Lines) /\ tears \in Nat
      BY DEF Base, TypeOK, Lines
    <2>2. Cardinality(Damaged) \in Nat
      BY <2>1, DamagedFinite DEF Damaged
    <2>3. DamageBounded <=> Cardinality(Damaged) <= tears
      BY DEF DamageBounded, Damaged, GarbageIn
    <2> QED
      BY <2>1, <2>2, <2>3 DEF DamageInv
  <1> QED
    BY <1>2, <1>3, PTL

-----------------------------------------------------------------------------
(* As long as the ledger is calm: the file is the                          *)
(* log, and the entry about to be written is its next one.                 *)
SerialInv ==
    /\ open = FALSE
    /\ \A i \in DOMAIN lines : lines[i] \in Entry /\ lines[i].seq = i
    /\ \A v, w \in InProgress : v = w
    /\ \A w \in InProgress : entry[w].seq = Len(lines) + 1
    /\ \A w \in InProgress : pc[w] = "write" => fd[w] = "linked"
    /\ \A i \in DOMAIN lines : \E j \in DOMAIN lines : IsLast(lines, j, lines[i].key)

LEMMA SerialRead ==
    ASSUME TypeOK, SerialInv
    PROVE  /\ lines \in Seq(Entry)
           /\ Readable
           /\ readAll = lines
           /\ lastSeq = Len(lines)
  <1>1. lines \in Seq(Entry)
    <2>1. lines \in Seq(Lines) /\ \A i \in 1..Len(lines) : lines[i] \in Entry
      BY DEF TypeOK, SerialInv, Lines
    <2> QED
      BY <2>1, SeqDef
  <1>2. Readable
    BY <1>1 DEF Readable, SerialInv
  <1>3. lines # <<>> => Last(lines) \in Entry /\ Last(lines).seq = Len(lines)
    BY <1>1 DEF SerialInv, Last
  <1>4. readAll = lines
    BY <1>3 DEF readAll
  <1> QED
    BY <1>1, <1>2, <1>3, <1>4 DEF lastSeq

(* Nobody is in progress when a call begins that overlaps no other.        *)
LEMMA NobodyInProgress ==
    ASSUME Begin, calm'
    PROVE  InProgress = {}
  BY DEF Begin, calm

\* A ledger that is calm has always been.
LEMMA CalmBefore ==
    ASSUME TypeOK, [Next]_vars, calm'
    PROVE  calm
  <1>1. UNCHANGED <<overlapped, tears>> => calm
    BY DEF calm
  <1>2. ASSUME NEW w \in Writers, NEW k \in Keys, ReadSeq(w, k) PROVE calm
    BY <1>2 DEF ReadSeq, Begin, calm, TypeOK
  <1>3. ASSUME NEW w \in Writers, Tear(w) PROVE calm
    BY <1>3 DEF Tear, calm, TypeOK
  <1>4. ASSUME NEW w \in Writers, Open(w) \/ Write(w) \/ GiveUp(w) PROVE calm
    BY <1>1, <1>4 DEF Open, Write, GiveUp
  <1>5. ASSUME NEW p \in Pruners, Prune(p) PROVE calm
    BY <1>5 DEF Prune, Begin, calm, TypeOK
  <1>6. CASE UNCHANGED vars
    BY <1>1, <1>6 DEF vars
  <1> QED
    BY <1>2, <1>3, <1>4, <1>5, <1>6 DEF Next

(* The latest entry of each key, before and after one is added.            *)
LEMMA LatestAfterAppend ==
    ASSUME NEW s \in Seq(Entry), NEW x \in Entry, NEW k \in Keys, NEW i \in DOMAIN Append(s, x)
    PROVE  IsLast(Append(s, x), i, k) <=>
              IF k = x.key THEN i = Len(s) + 1 ELSE i \in DOMAIN s /\ IsLast(s, i, k)
  <1>1. /\ \A j \in DOMAIN s : j \in DOMAIN Append(s, x) /\ Append(s, x)[j] = s[j] /\ j < Len(s) + 1
        /\ Len(s) + 1 \in DOMAIN Append(s, x) /\ Append(s, x)[Len(s) + 1] = x
        /\ \A j \in DOMAIN Append(s, x) : j \in DOMAIN s \/ j = Len(s) + 1
        /\ Len(s) + 1 \notin DOMAIN s
    OBVIOUS
  <1>2. \A a, b \in Nat : a < b => ~(b < a)
    OBVIOUS
  <1> QED
    BY <1>1, <1>2 DEF IsLast

LastOf(s, k) ==
    IF \E i \in DOMAIN s : IsLast(s, i, k)
    THEN s[CHOOSE i \in DOMAIN s : IsLast(s, i, k)].by
    ELSE None

LEMMA LastIsUnique ==
    ASSUME NEW s \in Seq(Entry), NEW k \in Keys,
           NEW i \in DOMAIN s, NEW j \in DOMAIN s, IsLast(s, i, k), IsLast(s, j, k)
    PROVE  i = j
  BY DEF IsLast

LEMMA LastOfIs ==
    ASSUME NEW s \in Seq(Entry), NEW k \in Keys, NEW i \in DOMAIN s, IsLast(s, i, k)
    PROVE  LastOf(s, k) = s[i].by
  <1> DEFINE c == CHOOSE j \in DOMAIN s : IsLast(s, j, k)
  <1>1. c \in DOMAIN s /\ IsLast(s, c, k)
    OBVIOUS
  <1>2. c = i
    BY <1>1, LastIsUnique
  <1> QED
    BY <1>2 DEF LastOf

LEMMA LastOfAppend ==
    ASSUME NEW s \in Seq(Entry), NEW x \in Entry, NEW k \in Keys
    PROVE  LastOf(Append(s, x), k) = IF k = x.key THEN x.by ELSE LastOf(s, k)
  <1>1. /\ Append(s, x) \in Seq(Entry)
        /\ Len(s) + 1 \in DOMAIN Append(s, x) /\ Append(s, x)[Len(s) + 1] = x
        /\ \A j \in DOMAIN s : j \in DOMAIN Append(s, x) /\ Append(s, x)[j] = s[j]
    OBVIOUS
  <1>2. CASE k = x.key
    <2>1. IsLast(Append(s, x), Len(s) + 1, k)
      BY <1>1, <1>2, LatestAfterAppend
    <2>2. LastOf(Append(s, x), k) = Append(s, x)[Len(s) + 1].by
      BY <1>1, <2>1, LastOfIs
    <2> QED
      BY <1>1, <1>2, <2>2
  <1>3. CASE k # x.key
    <2>1. CASE \E i \in DOMAIN s : IsLast(s, i, k)
      <3>1. PICK i \in DOMAIN s : IsLast(s, i, k)
        BY <2>1
      <3>2. IsLast(Append(s, x), i, k)
        BY <1>1, <1>3, <3>1, LatestAfterAppend
      <3>3. i \in DOMAIN Append(s, x) /\ Append(s, x)[i] = s[i]
        BY <1>1, <3>1
      <3>4. LastOf(Append(s, x), k) = Append(s, x)[i].by
        BY <1>1, <3>2, <3>3, LastOfIs
      <3>5. LastOf(s, k) = s[i].by
        BY <3>1, LastOfIs
      <3> QED
        BY <1>3, <3>3, <3>4, <3>5
    <2>2. CASE ~\E i \in DOMAIN s : IsLast(s, i, k)
      <3>1. ASSUME NEW i \in DOMAIN Append(s, x), IsLast(Append(s, x), i, k) PROVE FALSE
        <4>1. i \in DOMAIN s /\ IsLast(s, i, k)
          BY <1>3, <3>1, LatestAfterAppend
        <4> QED
          BY <2>2, <4>1
      <3> QED
        BY <1>3, <2>2, <3>1 DEF LastOf
    <2> QED
      BY <2>1, <2>2
  <1> QED
    BY <1>2, <1>3

LEMMA SerialInit == Init => SerialInv /\ Contract!Init
  <1> SUFFICES ASSUME Init PROVE SerialInv /\ Contract!Init
    OBVIOUS
  <1>1. SerialInv
    BY DEF Init, SerialInv, InProgress
  <1>2. readAll = <<>>
    BY DEF Init, readAll
  <1>3. Get = [k \in Keys |-> None]
    BY <1>2 DEF Get
  <1> QED
    BY <1>1, <1>2, <1>3 DEF Contract!Init

\* Get is the fold of what readAll returns.
LEMMA GetIs == Get = [k \in Keys |-> LastOf(readAll, k)]
  BY DEF Get, LastOf

LEMMA SerialStep ==
    ASSUME Base, SerialInv, [Next]_vars, calm'
    PROVE  SerialInv' /\ [Contract!Next]_(Contract!vars)
  <1>1. TypeOK
    BY DEF Base
  <1>2. lines \in Seq(Entry) /\ Readable /\ readAll = lines /\ lastSeq = Len(lines)
    BY <1>1, SerialRead
  <1>3. ASSUME lines' = lines PROVE UNCHANGED Contract!vars
    <2>1. readAll' = readAll
      BY <1>3 DEF readAll
    <2>2. Get' = Get
      BY <2>1 DEF Get
    <2> QED
      BY <2>1, <2>2 DEF Contract!vars
  <1>4. ASSUME NEW w \in Writers, NEW k \in Keys, ReadSeq(w, k)
        PROVE  SerialInv' /\ UNCHANGED Contract!vars
    <2>1. InProgress = {}
      BY <1>4, NobodyInProgress DEF ReadSeq
    <2>2. /\ entry' = [entry EXCEPT ![w] = [seq |-> Len(lines) + 1, key |-> k, by |-> w]]
          /\ pc' = [pc EXCEPT ![w] = "open"]
          /\ UNCHANGED <<lines, open, fd, pruned, acked, tears>>
      BY <1>2, <1>4 DEF ReadSeq
    <2>3. InProgress' = {w}
      BY <1>1, <2>1, <2>2 DEF InProgress, TypeOK
    <2>4. entry'[w].seq = Len(lines') + 1 /\ pc'[w] = "open"
      BY <1>1, <2>2 DEF TypeOK
    <2>5. SerialInv'
      BY <2>2, <2>3, <2>4 DEF SerialInv, IsLast
    <2> QED
      BY <1>3, <2>2, <2>5
  <1>5. ASSUME NEW w \in Writers, Open(w)
        PROVE  SerialInv' /\ UNCHANGED Contract!vars
    <2>1. InProgress' = InProgress /\ fd'[w] = "linked" /\ lines' = lines
      BY <1>1, <1>5 DEF Open, InProgress, TypeOK
    <2>2. InProgress = {w}
      BY <1>5 DEF Open, SerialInv, InProgress
    <2>3. SerialInv'
      BY <1>5, <2>1, <2>2 DEF Open, SerialInv, IsLast
    <2> QED
      BY <1>3, <2>1, <2>3
  <1>6. ASSUME NEW w \in Writers, Write(w)
        PROVE  SerialInv' /\ Contract!AppendEntry(w, entry[w].key)
    <2>1. /\ w \in InProgress /\ InProgress = {w} /\ fd[w] = "linked"
          /\ entry[w] \in Entry /\ entry[w].by = w /\ entry[w].seq = Len(lines) + 1
      BY <1>6 DEF Write, SerialInv, InProgress, Base, EntryInv
    <2>2. /\ lines' = Append(lines, entry[w]) /\ open' = FALSE
          /\ pc' = [pc EXCEPT ![w] = "done"] /\ entry' = entry /\ fd' = fd
      BY <1>6, <2>1 DEF Write, WithLine, SerialInv
    <2>3. InProgress' = {}
      BY <1>1, <2>1, <2>2 DEF InProgress, TypeOK
    <2>4. /\ lines' \in Seq(Entry)
          /\ \A i \in DOMAIN lines' : lines'[i].seq = i
      BY <1>2, <2>1, <2>2 DEF SerialInv
    <2>5. ASSUME NEW i \in DOMAIN lines'
          PROVE  \E j \in DOMAIN lines' : IsLast(lines', j, lines'[i].key)
      <3>1. /\ Len(lines) + 1 \in DOMAIN lines' /\ lines'[Len(lines) + 1] = entry[w]
            /\ \A j \in DOMAIN lines : j \in DOMAIN lines' /\ lines'[j] = lines[j]
            /\ i \in DOMAIN lines \/ i = Len(lines) + 1
        BY <1>2, <2>1, <2>2
      <3>2. lines'[i].key \in Keys
        <4>1. lines'[i] \in Entry
          BY <2>4
        <4> QED
          BY <4>1 DEF Entry
      <3>3. CASE lines'[i].key = entry[w].key
        <4>1. IsLast(lines', Len(lines) + 1, lines'[i].key)
          BY <1>2, <2>1, <2>2, <3>1, <3>2, <3>3, LatestAfterAppend
        <4> QED
          BY <3>1, <4>1
      <3>4. CASE lines'[i].key # entry[w].key
        <4>1. i \in DOMAIN lines /\ lines'[i] = lines[i]
          BY <3>1, <3>4
        <4>2. PICK j \in DOMAIN lines : IsLast(lines, j, lines[i].key)
          BY <4>1 DEF SerialInv
        <4>3. j \in DOMAIN lines' /\ IsLast(lines', j, lines'[i].key)
          BY <1>2, <2>1, <2>2, <3>1, <3>2, <3>4, <4>1, <4>2, LatestAfterAppend
        <4> QED
          BY <4>3
      <3> QED
        BY <3>3, <3>4
    <2>6. SerialInv'
      BY <2>2, <2>3, <2>4, <2>5 DEF SerialInv
    <2>7. readAll' = lines'
      BY <2>4 DEF readAll, Last
    <2>8. Get' = [Get EXCEPT ![entry[w].key] = w]
      <3>1. entry[w].key \in Keys
        BY <2>1 DEF Entry
      <3>2. Get = [k \in Keys |-> LastOf(lines, k)]
        BY <1>2, GetIs
      <3>3. Get' = [k \in Keys |-> LastOf(lines', k)]
        BY <2>7 DEF Get, LastOf
      <3>4. \A k \in Keys : LastOf(lines', k) = IF k = entry[w].key THEN w ELSE LastOf(lines, k)
        BY <1>2, <2>1, <2>2, LastOfAppend
      <3> QED
        BY <3>1, <3>2, <3>3, <3>4
    <2>9. entry[w] = [seq |-> Len(lines) + 1, key |-> entry[w].key, by |-> w]
      BY <2>1 DEF Entry
    <2> QED
      BY <1>2, <2>2, <2>6, <2>7, <2>8, <2>9 DEF Contract!AppendEntry
  <1>7. ASSUME NEW w \in Writers, Tear(w)
        PROVE  FALSE
    BY <1>1, <1>7 DEF Tear, TypeOK, calm
  <1>8. ASSUME NEW w \in Writers, GiveUp(w)
        PROVE  SerialInv' /\ UNCHANGED Contract!vars
    <2>1. InProgress' \subseteq InProgress /\ \A v \in InProgress' : pc'[v] = pc[v]
      BY <1>1, <1>8 DEF GiveUp, InProgress, TypeOK
    <2>2. SerialInv'
      BY <1>8, <2>1 DEF GiveUp, SerialInv, IsLast
    <2> QED
      BY <1>3, <1>8, <2>2 DEF GiveUp
  <1>9. ASSUME NEW p \in Pruners, Prune(p)
        PROVE  SerialInv' /\ Contract!Prune
    <2>1. InProgress = {}
      BY <1>9, NobodyInProgress DEF Prune
    <2>2. InProgress' = {}
      BY <1>9, <2>1 DEF Prune, InProgress
    <2>3. lines' = <<>> /\ open' = FALSE
      BY <1>9 DEF Prune
    <2>4. SerialInv'
      BY <2>2, <2>3 DEF SerialInv
    <2>5. readAll' = <<>>
      BY <2>3 DEF readAll
    <2>6. Get' = [k \in Keys |-> None]
      BY <2>5 DEF Get
    <2> QED
      BY <2>4, <2>5, <2>6 DEF Contract!Prune
  <1>10. CASE UNCHANGED vars
    <2>1. SerialInv'
      BY <1>10 DEF vars, SerialInv, InProgress, IsLast
    <2> QED
      BY <1>3, <1>10, <2>1 DEF vars
  <1>11. ASSUME NEW w \in Writers, Write(w)
         PROVE  entry[w].key \in Keys
    BY <1>11 DEF Write, Base, EntryInv, InProgress, Entry
  <1> QED
    BY <1>4, <1>5, <1>6, <1>7, <1>8, <1>9, <1>10, <1>11 DEF Next, Contract!Next

CalmInv == Base /\ LossInv /\ (calm => SerialInv)

LEMMA CalmStep ==
    ASSUME CalmInv, [Next]_vars
    PROVE  CalmInv' /\ (calm' => [Contract!Next]_(Contract!vars))
  <1>1. Base' /\ LossInv'
    BY BaseStep, LossStep DEF CalmInv
  <1>2. ASSUME calm' PROVE SerialInv' /\ [Contract!Next]_(Contract!vars)
    <2>1. SerialInv
      BY <1>2, CalmBefore DEF Base, CalmInv
    <2> QED
      BY <1>2, <2>1, SerialStep DEF CalmInv
  <1> QED
    BY <1>1, <1>2 DEF CalmInv

LEMMA CalmInit == Init => CalmInv /\ Contract!Init
  BY BaseInit, LossInit, SerialInit DEF CalmInv

(* For any number of calls and keys: as long as no two calls have          *)
(* overlapped and no write has stopped half way, a ledger is a log         *)
(* numbered from 1 of which history returns everything and get the latest  *)
(* value of each key.                                                      *)
THEOREM SerialLedgerIsLog == Spec => ImplementsLedgerLog
  <1>1. CalmInv /\ [Next]_vars => CalmInv' /\ [calm' => [Contract!Next]_(Contract!vars)]_vars
    BY CalmStep
  <1> QED
    BY CalmInit, <1>1, PTL DEF Spec, ImplementsLedgerLog

\* What a ledger can be read for.
ReadsBack ==
    /\ Readable
    /\ \A n \in DOMAIN readAll : readAll[n].seq = n
    /\ \A w \in acked : \E n \in DOMAIN readAll : readAll[n].by = w
    /\ \A k \in Keys :
        \/ Get[k] = None /\ \A n \in DOMAIN readAll : readAll[n].key # k
        \/ \E n \in DOMAIN readAll : IsLast(readAll, n, k) /\ Get[k] = readAll[n].by

(* What history and get return of a ledger whose calls did not overlap and *)
(* whose writes were whole: it can be read, its entries have the numbers   *)
(* 1, 2, 3, ..., each append that was acknowledged since the last prune is *)
(* among them, and a key has the value of its last entry, or none when it  *)
(* has no entry (ledger.go, readAll, Get).                                 *)
THEOREM CalmLedgerReadsBack == Spec => [](calm => ReadsBack)
  <1>1. Spec => []CalmInv
    BY CalmInit, CalmStep, PTL DEF Spec
  <1>2. ASSUME CalmInv, calm PROVE ReadsBack
    <2>1. TypeOK /\ SerialInv
      BY <1>2 DEF CalmInv, Base
    <2>2. lines \in Seq(Entry) /\ Readable /\ readAll = lines
      BY <2>1, SerialRead
    <2>3. \A n \in DOMAIN readAll : readAll[n].seq = n
      BY <2>1, <2>2 DEF SerialInv
    <2>4. ASSUME NEW w \in acked PROVE \E n \in DOMAIN readAll : readAll[n].by = w
      <3>1. IsFiniteSet(Lost) /\ Cardinality(Lost) \in Nat
        BY <2>1, LostFinite
      <3>2. Cardinality(Lost) = 0
        BY <1>2, <2>1, <3>1 DEF CalmInv, LossInv, SerialInv, calm
      <3>3. Lost = {}
        BY <3>1, <3>2, FS_EmptySet
      <3> QED
        BY <2>2, <2>4, <3>3 DEF Lost, Stored
    <2>5. ASSUME NEW k \in Keys
          PROVE  \/ Get[k] = None /\ \A n \in DOMAIN readAll : readAll[n].key # k
                 \/ \E n \in DOMAIN readAll : IsLast(readAll, n, k) /\ Get[k] = readAll[n].by
      <3>1. Get[k] = LastOf(readAll, k)
        BY GetIs
      <3>2. CASE \E n \in DOMAIN readAll : IsLast(readAll, n, k)
        <4>1. PICK n \in DOMAIN readAll : IsLast(readAll, n, k)
          BY <3>2
        <4> QED
          BY <2>2, <3>1, <4>1, LastOfIs
      <3>3. CASE ~\E n \in DOMAIN readAll : IsLast(readAll, n, k)
        <4>1. \A n \in DOMAIN readAll : readAll[n].key # k
          BY <2>1, <2>2, <3>3 DEF SerialInv
        <4> QED
          BY <3>1, <3>3, <4>1 DEF LastOf
      <3> QED
        BY <3>2, <3>3
    <2> QED
      BY <2>2, <2>3, <2>4, <2>5 DEF ReadsBack
  <1> QED
    BY <1>1, <1>2, PTL
=============================================================================
