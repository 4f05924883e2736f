----------------------------- MODULE NotesProofs -----------------------------
(***************************************************************************)
(* Proofs about Notes: its types; that no note is found under the text of  *)
(* another one; that a queue used by one call at a time loses no note and  *)
(* takes none back; that an approved note is found.                        *)
(***************************************************************************)
EXTENDS Notes, FiniteSetTheorems, SequenceTheorems, TLAPS

(* Whoever names a note names one that has been given a project: the calls *)
(* that review it, and its file.                                           *)
RefInv ==
    /\ \A n \in Ids : save[n] # "idle" => home[n] \in Projects
    /\ \A v \in Reviews : pc[v] \in Busy => about[v] \in Ids /\ save[about[v]] # "idle"
    /\ \A n \in files : save[n] # "idle"

(* There is a largest rowid.                                               *)
LastInv == \E i \in {0} \cup {rows[n] : n \in Ids} : \A n \in Ids : rows[n] <= i

(* A rebuild has read each note once, and none of a directory it has yet   *)
(* to walk.                                                                *)
ListInv ==
    \A x \in Rebuilds :
        /\ step[x] \in {"idle", "dropnotes", "create"} => entries[x] = <<>>
        /\ \A i, j \in DOMAIN entries[x] : entries[x][i] = entries[x][j] => i = j
        /\ \A i \in DOMAIN entries[x] :
              save[entries[x][i]] # "idle" /\ home[entries[x][i]] \notin left[x]

Base == TypeOK /\ RefInv /\ LastInv /\ ListInv

\* LastRow is that rowid.
LEMMA LastRowIs ==
    ASSUME TypeOK, LastInv
    PROVE  LastRow \in Nat /\ \A n \in Ids : rows[n] <= LastRow
  <1>1. \E i \in {0} \cup {rows[n] : n \in Ids} : \A n \in Ids : rows[n] <= i
    BY DEF LastInv
  <1>2. /\ LastRow \in {0} \cup {rows[n] : n \in Ids}
        /\ \A n \in Ids : rows[n] <= LastRow
    BY <1>1 DEF LastRow
  <1>3. {0} \cup {rows[n] : n \in Ids} \subseteq Nat
    BY DEF TypeOK
  <1> QED
    BY <1>2, <1>3

\* Before any call.
LEMMA BaseInit == Init => Base
  <1> SUFFICES ASSUME Init PROVE Base
    OBVIOUS
  <1>1. TypeOK
    BY DEF Init, TypeOK, Verdicts
  <1>2. RefInv
    BY DEF Init, RefInv, Busy
  <1>3. LastInv
    <2>1. 0 \in {0} \cup {rows[n] : n \in Ids} /\ \A n \in Ids : rows[n] <= 0
      BY DEF Init
    <2> QED
      BY <2>1 DEF LastInv
  <1>4. ListInv
    BY DEF Init, ListInv
  <1> QED
    BY <1>1, <1>2, <1>3, <1>4 DEF Base

\* One step for each action.
LEMMA BaseStep == Base /\ [Next]_vars => Base'
  <1> SUFFICES ASSUME Base, [Next]_vars PROVE Base'
    OBVIOUS
  <1> USE DEF Base
  <1>1. ASSUME NEW n \in Ids, NEW p \in Projects, SaveOpens(n, p) PROVE Base'
    <2>1. TypeOK'
      BY <1>1 DEF TypeOK, SaveOpens, Enters, reviewVars, indexVars, rebuildVars
    <2>2. RefInv'
      BY <1>1 DEF TypeOK, RefInv, SaveOpens, reviewVars
    <2>3. LastInv'
      BY <1>1 DEF LastInv, SaveOpens, indexVars
    <2>4. ListInv'
      BY <1>1 DEF TypeOK, ListInv, SaveOpens, rebuildVars
    <2> QED
      BY <2>1, <2>2, <2>3, <2>4
  <1>2. ASSUME NEW n \in Ids, SaveAppends(n) PROVE Base'
    <2>1. TypeOK'
      BY <1>2 DEF TypeOK, SaveAppends, reviewVars, indexVars, rebuildVars
    <2>2. RefInv'
      BY <1>2 DEF TypeOK, RefInv, SaveAppends, reviewVars
    <2>3. LastInv'
      BY <1>2 DEF LastInv, SaveAppends, indexVars
    <2>4. ListInv'
      <3>1. \A m \in Ids : save[m] # "idle" => save'[m] # "idle"
        BY <1>2 DEF TypeOK, SaveAppends
      <3>2. \A x \in Rebuilds : \A i \in DOMAIN entries[x] : entries[x][i] \in Ids
        BY DEF TypeOK
      <3> QED
        BY <1>2, <3>1, <3>2 DEF ListInv, SaveAppends, rebuildVars
    <2> QED
      BY <2>1, <2>2, <2>3, <2>4
  <1>3. ASSUME NEW n \in Ids, SaveFails(n) PROVE Base'
    <2>1. TypeOK'
      BY <1>3 DEF TypeOK, SaveFails, reviewVars, indexVars, rebuildVars
    <2>2. RefInv'
      BY <1>3 DEF TypeOK, RefInv, SaveFails, reviewVars
    <2>3. LastInv' /\ ListInv'
      BY <1>3 DEF TypeOK, LastInv, ListInv, SaveFails, indexVars, rebuildVars
    <2> QED
      BY <2>1, <2>2, <2>3
  <1>4. ASSUME NEW v \in Reviews, NEW n \in Ids, NEW d \in Verdicts, Find(v, n, d) PROVE Base'
    <2>0. mixed' \subseteq Projects
      BY <1>4 DEF TypeOK, RefInv, Find, Enters
    <2>1. /\ UNCHANGED <<home, save, files, queue, tmp, written, fd, decided, tables, rows, fts, owed, sole>>
          /\ UNCHANGED rebuildVars
          /\ pc[v] = "idle" /\ save[n] # "idle"
      BY <1>4 DEF Find, indexVars
    <2>2. ASSUME Returns(v) PROVE TypeOK' /\ RefInv'
      <3>1. TypeOK'
        BY <2>0, <2>1, <2>2 DEF TypeOK, Returns, Busy, Verdicts, rebuildVars
      <3>2. RefInv'
        BY <2>1, <2>2 DEF TypeOK, RefInv, Returns, Busy
      <3> QED
        BY <3>1, <3>2
    <2>3. ASSUME pc' = [pc EXCEPT ![v] = IF d = "approve" THEN "file" ELSE "read"],
                 about' = [about EXCEPT ![v] = n],
                 verdict' = [verdict EXCEPT ![v] = d],
                 UNCHANGED kept
          PROVE  TypeOK' /\ RefInv'
      <3>1. TypeOK'
        <4>1. pc' \in [Reviews -> Busy \cup {"idle", "over"}]
          BY <2>3 DEF TypeOK, Busy
        <4>2. about' \in [Reviews -> Ids \cup {None}] /\ verdict' \in [Reviews -> Verdicts]
          BY <2>3 DEF TypeOK
        <4> QED
          BY <2>0, <2>1, <2>3, <4>1, <4>2 DEF TypeOK, rebuildVars
      <3>2. RefInv'
        BY <2>1, <2>3 DEF TypeOK, RefInv, Busy
      <3> QED
        BY <3>1, <3>2
    <2>4. TypeOK' /\ RefInv'
      BY <1>4, <2>2, <2>3 DEF Find, Goes
    <2>5. LastInv' /\ ListInv'
      BY <1>4 DEF LastInv, ListInv, Find, indexVars, rebuildVars
    <2> QED
      BY <2>4, <2>5
  <1>5. ASSUME NEW v \in Reviews, WriteNote(v) PROVE Base'
    <2>1. TypeOK'
      BY <1>5 DEF TypeOK, RefInv, WriteNote, Goes, Busy, queueVars, indexVars, rebuildVars
    <2>2. RefInv'
      BY <1>5 DEF TypeOK, RefInv, WriteNote, Goes, Busy
    <2>3. LastInv' /\ ListInv'
      BY <1>5 DEF LastInv, ListInv, WriteNote, indexVars, rebuildVars
    <2> QED
      BY <2>1, <2>2, <2>3
  <1>6. ASSUME NEW v \in Reviews, Index(v) PROVE Base'
    <2> DEFINE m == about[v]
    <2>0. m \in Ids /\ LastRow \in Nat /\ \A n \in Ids : rows[n] <= LastRow
      BY <1>6, LastRowIs DEF RefInv, Index, Busy
    <2>1. rows' = [rows EXCEPT ![m] = LastRow + 1] /\ rows' \in [Ids -> Nat]
      BY <1>6, <2>0 DEF Index, TypeOK
    <2>2. DOMAIN fts' \subseteq Nat /\ \A i \in DOMAIN fts' : fts'[i] \in Ids
      BY <1>6, <2>0 DEF Index, TypeOK, WithEntry
    <2>3. TypeOK'
      BY <1>6, <2>1, <2>2 DEF TypeOK, Index, Goes, Busy, queueVars, rebuildVars
    <2>4. RefInv'
      BY <1>6 DEF TypeOK, RefInv, Index, Goes, Busy
    <2>5. LastInv'
      <3>1. rows'[m] = LastRow + 1 /\ \A n \in Ids : rows'[n] <= LastRow + 1
        BY <2>0, <2>1 DEF TypeOK
      <3> QED
        BY <2>0, <3>1 DEF LastInv
    <2>6. ListInv'
      BY <1>6 DEF ListInv, Index, rebuildVars
    <2> QED
      BY <2>3, <2>4, <2>5, <2>6
  <1>7. ASSUME NEW v \in Reviews, ReadQueue(v) PROVE Base'
    <2>1. TypeOK'
      BY <1>7 DEF TypeOK, RefInv, ReadQueue, File, Goes, Busy, queueVars, indexVars, rebuildVars
    <2>2. RefInv'
      BY <1>7 DEF TypeOK, RefInv, ReadQueue, Goes, Busy
    <2>3. LastInv' /\ ListInv'
      BY <1>7 DEF LastInv, ListInv, ReadQueue, indexVars, rebuildVars
    <2> QED
      BY <2>1, <2>2, <2>3
  <1>8. ASSUME NEW v \in Reviews, Truncate(v) PROVE Base'
    <2>1. TypeOK'
      BY <1>8 DEF TypeOK, RefInv, Truncate, File, Goes, Busy, indexVars, rebuildVars
    <2>2. RefInv'
      BY <1>8 DEF TypeOK, RefInv, Truncate, Goes, Busy
    <2>3. LastInv' /\ ListInv'
      BY <1>8 DEF LastInv, ListInv, Truncate, indexVars, rebuildVars
    <2> QED
      BY <2>1, <2>2, <2>3
  <1>9. ASSUME NEW v \in Reviews, Write(v) PROVE Base'
    <2>0. File(v) \in Projects
      BY <1>9 DEF RefInv, Write, File, Busy
    <2>1. queue' \in [Projects -> SUBSET Ids] /\ tmp' \in [Projects -> SUBSET Ids]
      <3>1. kept[v] \in SUBSET Ids /\ tmp[File(v)] \in SUBSET Ids /\ queue[File(v)] \in SUBSET Ids
        BY <2>0 DEF TypeOK
      <3>2. CASE UNCHANGED queue /\ \E tail \in SUBSET tmp[File(v)] :
                    tmp' = [tmp EXCEPT ![File(v)] = kept[v] \cup tail]
        BY <2>0, <3>1, <3>2 DEF TypeOK
      <3>3. CASE UNCHANGED tmp /\ \E tail \in SUBSET queue[File(v)] :
                    queue' = [queue EXCEPT ![File(v)] = kept[v] \cup tail]
        BY <2>0, <3>1, <3>3 DEF TypeOK
      <3>4. CASE UNCHANGED <<queue, tmp>>
        BY <3>4 DEF TypeOK
      <3> QED
        BY <1>9, <3>2, <3>3, <3>4 DEF Write
    <2>2. TypeOK'
      BY <1>9, <2>1 DEF TypeOK, Write, Goes, Busy, indexVars, rebuildVars
    <2>3. RefInv'
      BY <1>9 DEF TypeOK, RefInv, Write, Goes, Busy
    <2>4. LastInv' /\ ListInv'
      BY <1>9 DEF LastInv, ListInv, Write, indexVars, rebuildVars
    <2> QED
      BY <2>2, <2>3, <2>4
  <1>10. ASSUME NEW v \in Reviews, Rename(v) PROVE Base'
    <2>0. File(v) \in Projects /\ about[v] \in Ids
      BY <1>10 DEF RefInv, Rename, File, Busy
    <2>1. fd' \in [Ids \cup Reviews -> {"none", "tmp", "queue", "gone"}]
      BY <1>10 DEF TypeOK, Rename, AfterRename
    <2>2. queue' \in [Projects -> SUBSET Ids] /\ tmp' \in [Projects -> SUBSET Ids]
      BY <1>10, <2>0 DEF TypeOK, Rename
    <2>3. decided' \in [Verdicts -> SUBSET Ids]
      BY <1>10, <2>0 DEF TypeOK, Rename
    <2>4. TypeOK'
      BY <1>10, <2>1, <2>2, <2>3 DEF TypeOK, Rename, Returns, Busy, Verdicts, indexVars, rebuildVars
    <2>5. RefInv'
      BY <1>10 DEF TypeOK, RefInv, Rename, Returns, Busy
    <2>6. LastInv' /\ ListInv'
      BY <1>10 DEF LastInv, ListInv, Rename, indexVars, rebuildVars
    <2> QED
      BY <2>4, <2>5, <2>6
  <1>11. ASSUME NEW v \in Reviews, ReviewFails(v) PROVE Base'
    <2>1. TypeOK'
      BY <1>11 DEF TypeOK, ReviewFails, Returns, Busy, Verdicts, indexVars, rebuildVars
    <2>2. RefInv'
      BY <1>11 DEF TypeOK, RefInv, ReviewFails, Returns, Busy
    <2>3. LastInv' /\ ListInv'
      BY <1>11 DEF LastInv, ListInv, ReviewFails, indexVars, rebuildVars
    <2> QED
      BY <2>1, <2>2, <2>3
  <1>12. ASSUME NEW x \in Rebuilds, NEW s \in SUBSET Projects, DropFts(x, s) PROVE Base'
    <2>1. TypeOK'
      BY <1>12 DEF TypeOK, DropFts, Then, Rebuilding, queueVars, reviewVars
    <2>2. RefInv' /\ LastInv'
      BY <1>12 DEF RefInv, LastInv, DropFts, reviewVars
    <2>3. ListInv'
      BY <1>12 DEF TypeOK, ListInv, DropFts, Then
    <2> QED
      BY <2>1, <2>2, <2>3
  <1>13. ASSUME NEW x \in Rebuilds, DropNotes(x) PROVE Base'
    <2>1. TypeOK'
      BY <1>13 DEF TypeOK, DropNotes, Then, Rebuilding, queueVars, reviewVars
    <2>2. RefInv'
      BY <1>13 DEF RefInv, DropNotes, reviewVars
    <2>3. LastInv'
      BY <1>13 DEF LastInv, DropNotes
    <2>4. ListInv'
      BY <1>13 DEF TypeOK, ListInv, DropNotes, Then
    <2> QED
      BY <2>1, <2>2, <2>3, <2>4
  <1>14. ASSUME NEW x \in Rebuilds, CreateTables(x) PROVE Base'
    <2>1. TypeOK'
      BY <1>14 DEF TypeOK, CreateTables, Then, Rebuilding, queueVars, reviewVars
    <2>2. RefInv' /\ LastInv'
      BY <1>14 DEF RefInv, LastInv, CreateTables, reviewVars
    <2>3. ListInv'
      BY <1>14 DEF TypeOK, ListInv, CreateTables, Then
    <2> QED
      BY <2>1, <2>2, <2>3
  <1>15. ASSUME NEW x \in Rebuilds, NEW p \in Projects, Walk(x, p) PROVE Base'
    <2> DEFINE S == {n \in files : home[n] = p /\ p \in scope[x]}
    <2>1. PICK s \in Listings(S) : entries' = [entries EXCEPT ![x] = @ \o s]
      BY <1>15 DEF Walk
    <2>2. Cardinality(S) \in Nat
      BY FS_Subset, FS_CardinalityType, NotesAssumption DEF TypeOK
    <2>3. /\ s \in Seq(S) /\ Len(s) = Cardinality(S) /\ DOMAIN s = 1..Len(s)
          /\ \A i, j \in DOMAIN s : s[i] = s[j] => i = j
      <3>1. /\ s \in [1..Cardinality(S) -> S]
            /\ \A i, j \in 1..Cardinality(S) : s[i] = s[j] => i = j
        BY DEF Listings
      <3>2. s \in Seq(S)
        BY <2>2, <3>1, SeqDef
      <3> HIDE DEF S
      <3> QED
        BY <2>2, <3>1, <3>2
    <2>4. entries[x] \in Seq(Ids) /\ s \in Seq(Ids)
      BY <2>3 DEF TypeOK
    <2>5. TypeOK'
      <3>1. entries' \in [Rebuilds -> Seq(Ids)]
        BY <2>1, <2>4 DEF TypeOK
      <3> QED
        BY <1>15, <3>1 DEF TypeOK, Walk, Then, Rebuilding, queueVars, reviewVars, indexVars
    <2>6. RefInv' /\ LastInv'
      BY <1>15 DEF RefInv, LastInv, Walk, reviewVars, indexVars
    <2>7. ListInv'
      <3> DEFINE t == entries[x]
      <3>1. /\ DOMAIN (t \o s) = 1..(Len(t) + Len(s))
            /\ \A i \in 1..Len(t) : (t \o s)[i] = t[i]
            /\ \A i \in Len(t)+1..Len(t)+Len(s) : (t \o s)[i] = s[i - Len(t)]
            /\ Len(t) \in Nat /\ Len(s) \in Nat
        BY <2>4
      <3>2. \A i \in DOMAIN t : save[t[i]] # "idle" /\ home[t[i]] # p /\ home[t[i]] \notin left[x]
        BY <1>15 DEF ListInv, Walk
      <3>3. \A i \in DOMAIN s : save[s[i]] # "idle" /\ home[s[i]] = p
        BY <2>3 DEF RefInv
      <3>4. \A i, j \in DOMAIN t : t[i] = t[j] => i = j
        BY DEF ListInv
      <3>5. \A i \in DOMAIN (t \o s) :
               \/ i \in DOMAIN t /\ (t \o s)[i] = t[i]
               \/ i > Len(t) /\ i - Len(t) \in DOMAIN s /\ (t \o s)[i] = s[i - Len(t)]
        BY <2>3, <2>4, <3>1
      <3>6. \A i, j \in DOMAIN (t \o s) : (t \o s)[i] = (t \o s)[j] => i = j
        <4> SUFFICES ASSUME NEW i \in DOMAIN (t \o s), NEW j \in DOMAIN (t \o s),
                            (t \o s)[i] = (t \o s)[j]
                     PROVE  i = j
          OBVIOUS
        <4>0. i \in Nat /\ j \in Nat
          BY <3>1
        <4>1. CASE i \in DOMAIN t /\ (t \o s)[i] = t[i]
          <5>1. home[(t \o s)[j]] # p
            BY <3>2, <4>1
          <5>2. j \in DOMAIN t /\ (t \o s)[j] = t[j]
            BY <3>3, <3>5, <5>1
          <5> QED
            BY <3>4, <4>1, <5>2
        <4>2. CASE i > Len(t) /\ i - Len(t) \in DOMAIN s /\ (t \o s)[i] = s[i - Len(t)]
          <5>1. home[(t \o s)[j]] = p
            BY <3>3, <4>2
          <5>2. j > Len(t) /\ j - Len(t) \in DOMAIN s /\ (t \o s)[j] = s[j - Len(t)]
            BY <3>2, <3>5, <5>1
          <5>3. i - Len(t) = j - Len(t)
            BY <2>3, <4>2, <5>2
          <5> QED
            BY <3>1, <4>0, <5>3
        <4> QED
          BY <3>5, <4>1, <4>2
      <3>7. \A i \in DOMAIN (t \o s) :
               save[(t \o s)[i]] # "idle" /\ home[(t \o s)[i]] \notin left[x] \ {p}
        BY <3>2, <3>3, <3>5
      <3>8. /\ entries'[x] = t \o s /\ left'[x] = left[x] \ {p}
            /\ step'[x] \in {"walk", "fill"}
            /\ \A y \in Rebuilds \ {x} :
                  entries'[y] = entries[y] /\ left'[y] = left[y] /\ step'[y] = step[y]
            /\ home' = home /\ save' = save
        BY <1>15, <2>1 DEF TypeOK, Walk, Then
      <3>9. ASSUME NEW y \in Rebuilds PROVE
              /\ step'[y] \in {"idle", "dropnotes", "create"} => entries'[y] = <<>>
              /\ \A i, j \in DOMAIN entries'[y] : entries'[y][i] = entries'[y][j] => i = j
              /\ \A i \in DOMAIN entries'[y] :
                    save'[entries'[y][i]] # "idle" /\ home'[entries'[y][i]] \notin left'[y]
        <4>1. CASE y = x
          <5> HIDE DEF t
          <5>1. entries'[y] = t \o s /\ left'[y] = left[x] \ {p} /\ step'[y] \in {"walk", "fill"}
            BY <3>8, <4>1
          <5>2. step'[y] \notin {"idle", "dropnotes", "create"}
            BY <5>1
          <5>3. \A i, j \in DOMAIN entries'[y] : entries'[y][i] = entries'[y][j] => i = j
            BY <3>6, <5>1, Zenon
          <5>4. \A i \in DOMAIN entries'[y] :
                   save'[entries'[y][i]] # "idle" /\ home'[entries'[y][i]] \notin left'[y]
            BY <3>7, <3>8, <5>1, Zenon
          <5> QED
            BY <5>2, <5>3, <5>4
        <4>2. CASE y # x
          BY <3>8, <4>2 DEF ListInv
        <4> QED
          BY <4>1, <4>2
      <3> QED
        BY <3>9 DEF ListInv
    <2> QED
      BY <2>5, <2>6, <2>7
  <1>16. ASSUME NEW x \in Rebuilds, Fill(x) PROVE Base'
    <2> DEFINE t == entries[x]
    <2> DEFINE Among(n) == \E i \in DOMAIN t : t[i] = n
    <2>0. LastRow \in Nat /\ \A n \in Ids : rows[n] <= LastRow
      BY LastRowIs
    <2>1. t \in Seq(Ids) /\ DOMAIN t = 1..Len(t) /\ Len(t) \in Nat
      BY DEF TypeOK
    <2>2. \A n \in Ids : Among(n) => \E i \in DOMAIN t : t[i] = n /\ RowOf(x, n) = LastRow + i
      BY DEF RowOf
    <2>3. rows' = [n \in Ids |-> IF Among(n) THEN RowOf(x, n) ELSE rows[n]]
      BY <1>16 DEF Fill
    <2>4. rows' \in [Ids -> Nat]
      BY <2>0, <2>1, <2>2, <2>3 DEF TypeOK
    <2>5. DOMAIN fts' \subseteq Nat /\ \A i \in DOMAIN fts' : fts'[i] \in Ids
      <3>1. NewRows(x) \subseteq Nat /\ \A i \in NewRows(x) : i - LastRow \in DOMAIN t
        BY <2>0, <2>1 DEF NewRows
      <3>2. DOMAIN fts' = DOMAIN fts \cup NewRows(x)
        BY <1>16 DEF Fill
      <3>3. \A i \in DOMAIN fts' : fts'[i] = IF i \in DOMAIN fts THEN fts[i] ELSE t[i - LastRow]
        BY <1>16 DEF Fill
      <3> QED
        BY <2>1, <3>1, <3>2, <3>3 DEF TypeOK
    <2>6. TypeOK'
      <3>1. owed' \subseteq Projects
        BY <1>16 DEF TypeOK, Fill
      <3>2. entries' \in [Rebuilds -> Seq(Ids)]
        BY <1>16 DEF TypeOK, Fill, Ends
      <3> QED
        BY <1>16, <2>4, <2>5, <3>1, <3>2 DEF TypeOK, Fill, Ends, Rebuilding, queueVars, reviewVars
    <2>7. RefInv'
      BY <1>16 DEF RefInv, Fill, reviewVars
    <2>8. LastInv'
      <3>1. CASE t = <<>>
        <4>1. rows' = rows
          BY <2>3, <3>1 DEF TypeOK
        <4> QED
          BY <4>1 DEF LastInv
      <3>2. CASE t # <<>>
        <4> DEFINE l == Len(t)
        <4>1. l \in DOMAIN t /\ t[l] \in Ids
          BY <2>1, <3>2
        <4>2. RowOf(x, t[l]) = LastRow + l
          BY <2>2, <4>1 DEF ListInv
        <4>3. rows'[t[l]] = LastRow + l
          BY <2>3, <4>1, <4>2
        <4>4. \A n \in Ids : rows'[n] <= LastRow + l
          BY <2>0, <2>1, <2>2, <2>3 DEF TypeOK
        <4> QED
          BY <4>1, <4>3, <4>4 DEF LastInv
      <3> QED
        BY <3>1, <3>2
    <2>9. ListInv'
      BY <1>16 DEF TypeOK, ListInv, Fill, Ends
    <2> QED
      BY <2>6, <2>7, <2>8, <2>9
  <1>17. ASSUME NEW x \in Rebuilds, RebuildFails(x) PROVE Base'
    <2>1. TypeOK'
      BY <1>17 DEF TypeOK, RebuildFails, Ends, Rebuilding, queueVars, reviewVars, indexVars
    <2>2. RefInv' /\ LastInv'
      BY <1>17 DEF RefInv, LastInv, RebuildFails, reviewVars, indexVars
    <2>3. ListInv'
      BY <1>17 DEF TypeOK, ListInv, RebuildFails, Ends
    <2> QED
      BY <2>1, <2>2, <2>3
  <1>18. CASE UNCHANGED vars
    BY <1>18 DEF vars, queueVars, reviewVars, indexVars, rebuildVars, TypeOK, RefInv, LastInv, ListInv
  <1> QED
    <2>1. \A x \in Rebuilds, p \in Projects : {p} \in SUBSET Projects /\ Projects \in SUBSET Projects
      OBVIOUS
    <2> QED
      BY <1>1, <1>2, <1>3, <1>4, <1>5, <1>6, <1>7, <1>8, <1>9, <1>10, <1>11, <1>12, <1>13,
         <1>14, <1>15, <1>16, <1>17, <1>18, <2>1 DEF Next, Review, Reindex

-----------------------------------------------------------------------------
(* Queues, files, tables and frames keep their types, for any number of    *)
(* notes, reviews and rebuilds, whatever overlaps, fails or is killed.     *)
THEOREM TypeCorrect == Spec => []TypeOK
  <1>1. Init => Base
    BY BaseInit
  <1>2. Base /\ [Next]_vars => Base'
    BY BaseStep
  <1>3. Base => TypeOK
    BY DEF Base
  <1> QED
    BY <1>1, <1>2, <1>3, PTL DEF Spec

(* Search never shows a note under the text of another one, however many   *)
(* rebuilds overlap (Reindex, indexNote): a new row is numbered beyond all *)
(* rows, and a text that is there already is replaced or refused.          *)
THEOREM TextsMatch == Spec => []RowsMatchTexts
  <1>1. Init => RowsMatchTexts
    BY DEF Init, RowsMatchTexts
  <1>2. Base /\ RowsMatchTexts /\ [Next]_vars => RowsMatchTexts'
    <2> SUFFICES ASSUME Base, RowsMatchTexts, [Next]_vars PROVE RowsMatchTexts'
      OBVIOUS
    <2>0. LastRow \in Nat /\ rows \in [Ids -> Nat] /\ \A n \in Ids : rows[n] <= LastRow
      BY LastRowIs DEF Base, TypeOK
    <2>1. ASSUME NEW v \in Reviews, Index(v) PROVE RowsMatchTexts'
      <3>1. /\ rows' = [rows EXCEPT ![about[v]] = LastRow + 1]
            /\ fts' = [j \in DOMAIN fts \cup {LastRow + 1} |-> IF j = LastRow + 1 THEN about[v] ELSE fts[j]]
        BY <2>1 DEF Index, WithEntry
      <3> QED
        BY <2>0, <3>1 DEF RowsMatchTexts
    <2>2. ASSUME NEW x \in Rebuilds, Fill(x) PROVE RowsMatchTexts'
      <3> DEFINE t == entries[x]
      <3> DEFINE Among(n) == \E i \in DOMAIN t : t[i] = n
      <3>1. t \in Seq(Ids) /\ DOMAIN t = 1..Len(t)
        BY DEF Base, TypeOK
      <3>2. /\ NewRows(x) = {LastRow + i : i \in DOMAIN t}
            /\ NewRows(x) \cap DOMAIN fts = {}
            /\ DOMAIN fts' = DOMAIN fts \cup NewRows(x)
            /\ \A i \in DOMAIN fts' : fts'[i] = IF i \in DOMAIN fts THEN fts[i] ELSE t[i - LastRow]
            /\ rows' = [n \in Ids |-> IF Among(n) THEN RowOf(x, n) ELSE rows[n]]
        BY <2>2 DEF Fill, NewRows
      <3>3. ASSUME NEW n \in Ids, rows'[n] # 0, rows'[n] \in DOMAIN fts' PROVE fts'[rows'[n]] = n
        <4>1. CASE Among(n)
          <5>1. PICK i \in DOMAIN t : t[i] = n /\ RowOf(x, n) = LastRow + i
            BY <4>1 DEF RowOf
          <5>2. rows'[n] = LastRow + i /\ rows'[n] \in NewRows(x) /\ rows'[n] - LastRow = i
            BY <2>0, <3>1, <3>2, <4>1, <5>1
          <5> QED
            BY <3>2, <5>1, <5>2
        <4>2. CASE ~Among(n)
          <5>1. rows'[n] = rows[n]
            BY <3>2, <4>2
          <5>2. rows[n] \notin NewRows(x)
            BY <2>0, <3>1, <3>2
          <5> QED
            BY <3>2, <3>3, <5>1, <5>2 DEF RowsMatchTexts
        <4> QED
          BY <4>1, <4>2
      <3> QED
        BY <3>3 DEF RowsMatchTexts
    <2>3. ASSUME NEW x \in Rebuilds, NEW s \in SUBSET Projects, DropFts(x, s) PROVE RowsMatchTexts'
      BY <2>3 DEF DropFts, RowsMatchTexts
    <2>4. ASSUME NEW x \in Rebuilds, DropNotes(x) PROVE RowsMatchTexts'
      BY <2>4 DEF DropNotes, RowsMatchTexts
    <2>5. ASSUME UNCHANGED <<rows, fts>> PROVE RowsMatchTexts'
      BY <2>5 DEF RowsMatchTexts
    <2>6. ASSUME NEW n \in Ids,
                 (\E p \in Projects : SaveOpens(n, p)) \/ SaveAppends(n) \/ SaveFails(n)
          PROVE  UNCHANGED <<rows, fts>>
      BY <2>6 DEF SaveOpens, SaveAppends, SaveFails, indexVars
    <2>7. ASSUME NEW v \in Reviews, Review(v) PROVE RowsMatchTexts'
      BY <2>1, <2>5, <2>7
         DEF Review, Find, WriteNote, ReadQueue, Truncate, Write, Rename, ReviewFails, indexVars
    <2>8. ASSUME NEW x \in Rebuilds, Reindex(x) PROVE RowsMatchTexts'
      <3>1. \A p \in Projects : {p} \in SUBSET Projects /\ Projects \in SUBSET Projects
        OBVIOUS
      <3> QED
        BY <2>2, <2>3, <2>4, <2>5, <2>8, <3>1 DEF Reindex, CreateTables, Walk, RebuildFails, indexVars
    <2>9. CASE UNCHANGED vars
      BY <2>5, <2>9 DEF vars, indexVars
    <2> QED
      BY <2>5, <2>6, <2>7, <2>8, <2>9 DEF Next
  <1> QED
    BY <1>1, <1>2, BaseInit, BaseStep, PTL DEF Spec
-----------------------------------------------------------------------------
(* A queue one call uses at a time: it has one frame at most.              *)
Alone ==
    /\ \A n, m \in Ids :
          save[n] = "write" /\ save[m] = "write" /\ home[n] = home[m] /\ home[n] \notin mixed => n = m
    /\ \A n \in Ids, v \in Reviews :
          save[n] = "write" /\ pc[v] \in Busy /\ home[n] \notin mixed => home[n] # File(v)
    /\ \A v, w \in Reviews :
          pc[v] \in Busy /\ pc[w] \in Busy /\ File(v) = File(w) /\ File(v) \notin mixed => v = w

(* A note is in a file, a frame or a decision only once it was captured.   *)
Captured == {n \in Ids : save[n] = "done"}
DoneInv ==
    /\ \A p \in Projects : queue[p] \subseteq Captured /\ tmp[p] \subseteq Captured
    /\ \A v \in Reviews : kept[v] \subseteq Captured
    /\ \A v \in Reviews : pc[v] \in Busy => about[v] \in Captured
    /\ \A d \in Verdicts : decided[d] \subseteq Captured

(* What the one frame of a queue holds is still what is in the queue.      *)
Rest(v) == queue[File(v)] \ {about[v]}
FrameInv ==
    /\ \A n \in Ids : save[n] = "write" /\ home[n] \notin mixed => fd[n] = "queue"
    /\ \A v \in Reviews : pc[v] \in Busy /\ File(v) \notin mixed =>
          /\ pc[v] \in {"trunc", "write"} => kept[v] = Rest(v)
          /\ pc[v] = "write" => fd[v] = "tmp" /\ tmp[File(v)] = {}
          /\ pc[v] = "rename" => tmp[File(v)] = Rest(v)
    /\ \A v \in Reviews : pc[v] \in Busy \ {"file"} /\ verdict[v] = "approve" => about[v] \in files

QueueInv == Alone /\ DoneInv /\ FrameInv /\ NoNoteLost /\ DecidedIsGone

\* Who enters a queue that stays unmixed finds nobody in it.
LEMMA NobodyElse ==
    ASSUME Base, NEW p \in Projects, Enters(p)
    PROVE  /\ mixed \subseteq mixed'
           /\ p \notin mixed' =>
                 /\ \A n \in Ids : save[n] = "write" => home[n] # p
                 /\ \A v \in Reviews : pc[v] \in Busy => File(v) # p
  <1>1. mixed \subseteq mixed'
    BY DEF Enters
  <1>2. ASSUME p \notin mixed' PROVE \A f \in InQueues : ProjectOf(f) # p
    BY <1>2 DEF Enters
  <1>3. \A n \in Ids : save[n] = "write" => n \in InQueues /\ ProjectOf(n) = home[n]
    BY DEF InQueues, ProjectOf
  <1>4. \A v \in Reviews : pc[v] \in Busy => v \in InQueues /\ ProjectOf(v) = File(v)
    BY NotesAssumption DEF Base, RefInv, InQueues, ProjectOf, File
  <1> QED
    BY <1>1, <1>2, <1>3, <1>4

\* Another frame that is alone in its queue is in another queue.
LEMMA ElsewhereAlone ==
    ASSUME Base, Alone, NEW v \in Reviews, pc[v] \in Busy
    PROVE  /\ \A n \in Ids : save[n] = "write" /\ home[n] \notin mixed => home[n] # File(v)
           /\ \A w \in Reviews : w # v /\ pc[w] \in Busy /\ File(w) \notin mixed => File(w) # File(v)
  BY DEF Alone

\* Before any call, every queue is empty.
LEMMA QueueInit == Init => QueueInv
  <1> SUFFICES ASSUME Init PROVE QueueInv
    OBVIOUS
  <1>1. \A v \in Reviews : pc[v] \notin Busy
    BY DEF Init, Busy
  <1>2. Alone /\ DoneInv /\ FrameInv
    BY <1>1 DEF Init, Alone, DoneInv, FrameInv, Verdicts
  <1>3. NoNoteLost /\ DecidedIsGone
    BY DEF Init, NoNoteLost, DecidedIsGone, Verdicts
  <1> QED
    BY <1>2, <1>3 DEF QueueInv

\* A capture adds to the queue it is alone in.
LEMMA SaveKeeps ==
    ASSUME Base, QueueInv, NEW n \in Ids,
           (\E p \in Projects : SaveOpens(n, p)) \/ SaveAppends(n) \/ SaveFails(n)
    PROVE  QueueInv'
  <1> USE DEF QueueInv, Base
  <1>0. /\ UNCHANGED <<pc, verdict, about, kept, decided, files, tmp>>
        /\ save[n] \in {"idle", "write"}
        /\ \A m \in Ids \ {n} : save'[m] = save[m] /\ home'[m] = home[m] /\ fd'[m] = fd[m]
        /\ \A v \in Reviews : fd'[v] = fd[v]
        /\ mixed \subseteq mixed'
    <2>1. CASE \E p \in Projects : SaveOpens(n, p)
      BY <2>1, NobodyElse, NotesAssumption DEF SaveOpens, reviewVars, TypeOK
    <2>2. CASE SaveAppends(n) \/ SaveFails(n)
      BY <2>2, NotesAssumption DEF SaveAppends, SaveFails, reviewVars, TypeOK
    <2> QED
      BY <2>1, <2>2
  <1>1. \A v \in Reviews : pc[v] \in Busy =>
           about[v] \in Ids \ {n} /\ about'[v] = about[v] /\ File(v)' = File(v)
    BY <1>0 DEF DoneInv, Captured, File
  <1>2. ASSUME NEW p \in Projects, SaveOpens(n, p) PROVE QueueInv'
    <2>1. /\ save'[n] = "write" /\ home'[n] = p /\ fd'[n] = "queue" /\ save[n] = "idle" /\ queue' = queue
          /\ Captured' = Captured
      BY <1>0, <1>2 DEF SaveOpens, TypeOK, Captured
    <2>2. p \notin mixed' =>
             /\ \A m \in Ids : save[m] = "write" => home[m] # p
             /\ \A v \in Reviews : pc[v] \in Busy => File(v) # p
      BY <1>2, NobodyElse DEF SaveOpens
    <2>3. Alone'
      BY <1>0, <1>1, <2>1, <2>2 DEF Alone
    <2>4. DoneInv'
      BY <1>0, <2>1 DEF DoneInv
    <2>5. \A v \in Reviews : pc[v] \in Busy => Rest(v)' = Rest(v)
      BY <1>0, <1>1, <2>1 DEF Rest
    <2>6. FrameInv'
      BY <1>0, <1>1, <2>1, <2>5 DEF FrameInv
    <2>7. NoNoteLost' /\ DecidedIsGone'
      BY <1>0, <2>1 DEF NoNoteLost, DecidedIsGone, Pending, DoneInv, Captured
    <2> QED
      BY <2>3, <2>4, <2>6, <2>7
  <1>3. ASSUME SaveAppends(n) PROVE QueueInv'
    <2>1. /\ save'[n] = "done" /\ save[n] = "write" /\ home' = home /\ mixed' = mixed
          /\ Captured' = Captured \cup {n}
          /\ home[n] \in Projects
      BY <1>0, <1>3 DEF SaveAppends, TypeOK, RefInv, Captured
    <2>2. /\ \A p \in Projects : queue'[p] = queue[p] \/ (p = home[n] /\ queue'[p] = queue[p] \cup {n})
          /\ fd[n] = "queue" => n \in queue'[home[n]]
      <3>1. CASE fd[n] = "queue"
        <4>1. queue' = [queue EXCEPT ![home[n]] = queue[home[n]] \cup {n}]
          BY <1>3, <3>1 DEF SaveAppends
        <4> QED
          BY <2>1, <4>1 DEF TypeOK
      <3>2. CASE fd[n] # "queue"
        <4>1. queue' = queue
          BY <1>3, <3>2 DEF SaveAppends
        <4> QED
          BY <3>2, <4>1
      <3> QED
        BY <3>1, <3>2
    <2>3. Alone'
      BY <1>0, <1>1, <2>1 DEF Alone
    <2>4. DoneInv'
      BY <1>0, <2>1, <2>2 DEF DoneInv
    <2>5. \A v \in Reviews : pc[v] \in Busy /\ File(v) \notin mixed => Rest(v)' = Rest(v)
      <3>1. \A v \in Reviews : pc[v] \in Busy /\ File(v) \notin mixed =>
               File(v) # home[n] /\ File(v) \in Projects
        BY <2>1 DEF Alone, RefInv, File
      <3> QED
        BY <1>0, <1>1, <2>2, <3>1 DEF Rest
    <2>6. FrameInv'
      BY <1>0, <1>1, <2>1, <2>5 DEF FrameInv
    <2>7. NoNoteLost'
      <3>1. \A m \in Ids : save[m] = "done" => home[m] \in Projects
        BY DEF RefInv
      <3>2. home[n] # None /\ (home[n] \notin mixed => n \in queue'[home[n]])
        BY <2>1, <2>2, NotesAssumption DEF FrameInv
      <3>3. \A m \in Ids \ {n} : save[m] = "done" => queue[home[m]] \subseteq queue'[home[m]]
        BY <2>2, <3>1
      <3> QED
        BY <1>0, <2>1, <3>2, <3>3 DEF NoNoteLost, Pending
    <2>8. DecidedIsGone'
      <3>1. \A d \in Verdicts : \A m \in decided[d] : m \in Ids \ {n} /\ home[m] \in Projects
        BY <2>1 DEF DoneInv, Captured, RefInv
      <3> QED
        BY <1>0, <2>1, <2>2, <3>1 DEF DecidedIsGone, Pending
    <2> QED
      BY <2>3, <2>4, <2>6, <2>7, <2>8
  <1>4. ASSUME SaveFails(n) PROVE QueueInv'
    <2>1. /\ save'[n] = "failed" /\ save[n] = "write" /\ home' = home /\ mixed' = mixed /\ queue' = queue
          /\ Captured' = Captured
      BY <1>0, <1>4 DEF SaveFails, TypeOK, Captured
    <2>2. \A v \in Reviews : pc[v] \in Busy => Rest(v)' = Rest(v)
      BY <1>0, <1>1, <2>1 DEF Rest
    <2>3. Alone' /\ DoneInv'
      BY <1>0, <1>1, <2>1 DEF Alone, DoneInv
    <2>4. FrameInv'
      BY <1>0, <1>1, <2>1, <2>2 DEF FrameInv
    <2>5. NoNoteLost' /\ DecidedIsGone'
      BY <1>0, <2>1 DEF NoNoteLost, DecidedIsGone, Pending
    <2> QED
      BY <2>3, <2>4, <2>5
  <1> QED
    BY <1>2, <1>3, <1>4

\* The steps of a review that leave the queues and the captures alone.
LEMMA ReviewKeeps ==
    ASSUME Base, QueueInv, NEW v \in Reviews,
           \/ \E n \in Ids, d \in Verdicts : Find(v, n, d)
           \/ WriteNote(v) \/ Index(v) \/ ReadQueue(v) \/ Truncate(v) \/ ReviewFails(v)
    PROVE  QueueInv'
  <1> USE DEF QueueInv, Base
  <1>0. /\ UNCHANGED <<home, save, queue, decided>>
        /\ files \subseteq files' /\ mixed \subseteq mixed'
        /\ \A w \in Reviews \ {v} :
              /\ pc'[w] = pc[w] /\ about'[w] = about[w] /\ verdict'[w] = verdict[w]
              /\ kept'[w] = kept[w] /\ fd'[w] = fd[w]
              /\ File(w)' = File(w) /\ Rest(w)' = Rest(w)
        /\ \A n \in Ids : fd'[n] = fd[n]
        /\ Captured' = Captured
    <2>1. CASE \E n \in Ids, d \in Verdicts : Find(v, n, d)
      <3>1. PICK n \in Ids, d \in Verdicts : Find(v, n, d)
        BY <2>1
      <3>2. mixed \subseteq mixed'
        BY <3>1 DEF Find, Enters
      <3> QED
        BY <3>1, <3>2 DEF Find, Goes, Returns, TypeOK, Captured, File, Rest
    <2>2. CASE WriteNote(v)
      BY <2>2, NotesAssumption DEF WriteNote, Goes, TypeOK, Captured, File, Rest, queueVars
    <2>3. CASE Index(v)
      BY <2>3, NotesAssumption DEF Index, Goes, TypeOK, Captured, File, Rest, queueVars
    <2>4. CASE ReadQueue(v)
      BY <2>4, NotesAssumption DEF ReadQueue, Goes, TypeOK, Captured, File, Rest, queueVars
    <2>5. CASE Truncate(v)
      BY <2>5, NotesAssumption DEF Truncate, Goes, TypeOK, Captured, File, Rest
    <2>6. CASE ReviewFails(v)
      BY <2>6, NotesAssumption DEF ReviewFails, Returns, TypeOK, Captured, File, Rest
    <2> QED
      BY <2>1, <2>2, <2>3, <2>4, <2>5, <2>6
  <1>1. NoNoteLost' /\ DecidedIsGone'
    BY <1>0 DEF NoNoteLost, DecidedIsGone, Pending
  <1>2. \A n \in Ids : save'[n] = "write" /\ home'[n] \notin mixed' => fd'[n] = "queue"
    BY <1>0 DEF FrameInv
  <1>3. ASSUME NEW n \in Ids, NEW d \in Verdicts, Find(v, n, d) PROVE QueueInv'
    <2>1. tmp' = tmp /\ files' = files /\ n \in Ids /\ home[n] \in Projects
      BY <1>3 DEF Find, RefInv
    <2>2. \/ /\ pc'[v] \in {"file", "read"} /\ about'[v] = n /\ n \in queue[home[n]] /\ kept'[v] = kept[v]
             /\ verdict'[v] = "approve" => pc'[v] = "file"
          \/ pc'[v] = "over" /\ kept'[v] = {}
      BY <1>3 DEF Find, Goes, Returns, TypeOK
    <2>3. pc'[v] \in Busy => about'[v] = n /\ n \in Captured /\ File(v)' = home[n]
      BY <1>0, <2>1, <2>2 DEF Busy, DoneInv, File
    <2>4. home[n] \notin mixed' =>
             /\ \A m \in Ids : save[m] = "write" => home[m] # home[n]
             /\ \A w \in Reviews : pc[w] \in Busy => File(w) # home[n]
      BY <1>3, <2>1, NobodyElse DEF Find
    <2>5. Alone'
      BY <1>0, <2>3, <2>4 DEF Alone
    <2>6. DoneInv'
      BY <1>0, <2>1, <2>2, <2>3 DEF DoneInv
    <2>7. FrameInv'
      <3>1. pc'[v] \in Busy => pc'[v] \notin {"trunc", "write", "rename"}
        BY <2>2 DEF Busy
      <3>2. pc'[v] \in Busy \ {"file"} => verdict'[v] # "approve"
        BY <2>2 DEF Busy
      <3> QED
        BY <1>0, <1>2, <2>1, <3>1, <3>2 DEF FrameInv
    <2> QED
      BY <1>1, <2>5, <2>6, <2>7
  <1>4. ASSUME WriteNote(v) \/ Index(v) \/ ReadQueue(v) \/ Truncate(v) PROVE QueueInv'
    <2>1. /\ pc[v] \in Busy /\ pc'[v] \in Busy \ {"file"} /\ mixed' = mixed
          /\ about'[v] = about[v] /\ verdict'[v] = verdict[v]
          /\ File(v)' = File(v) /\ Rest(v)' = Rest(v)
          /\ about[v] \in Captured /\ File(v) \in Projects
      <3>1. mixed' = mixed /\ about' = about /\ verdict' = verdict /\ home' = home /\ queue' = queue
        BY <1>4 DEF WriteNote, Index, ReadQueue, Truncate, queueVars
      <3>2. pc[v] \in Busy /\ pc'[v] \in Busy \ {"file"}
        BY <1>4 DEF WriteNote, Index, ReadQueue, Truncate, Goes, TypeOK, Busy
      <3> QED
        BY <3>1, <3>2 DEF File, Rest, DoneInv, RefInv
    <2>2. Alone'
      BY <1>0, <2>1 DEF Alone
    <2>3. kept'[v] \subseteq Captured /\ \A p \in Projects : tmp'[p] = tmp[p] \/ (p = File(v) /\ tmp'[p] = {})
      <3>1. CASE WriteNote(v) \/ Index(v)
        BY <3>1 DEF WriteNote, Index, queueVars, DoneInv
      <3>2. CASE ReadQueue(v)
        BY <2>1, <3>2 DEF ReadQueue, queueVars, DoneInv, TypeOK
      <3>3. CASE Truncate(v)
        BY <2>1, <3>3 DEF Truncate, DoneInv, TypeOK
      <3> QED
        BY <1>4, <3>1, <3>2, <3>3
    <2>4. DoneInv'
      BY <1>0, <2>1, <2>3 DEF DoneInv
    <2>5. verdict'[v] = "approve" => about'[v] \in files'
      <3>1. CASE WriteNote(v)
        BY <2>1, <3>1 DEF WriteNote
      <3>2. CASE Index(v) \/ ReadQueue(v) \/ Truncate(v)
        <4>1. pc[v] \in Busy \ {"file"} /\ files' = files
          BY <3>2 DEF Index, ReadQueue, Truncate, Busy
        <4> QED
          BY <2>1, <4>1 DEF FrameInv
      <3> QED
        BY <1>4, <3>1, <3>2
    <2>6. File(v) \notin mixed =>
             /\ pc'[v] \in {"trunc", "write"} => kept'[v] = Rest(v)
             /\ pc'[v] = "write" => fd'[v] = "tmp" /\ tmp'[File(v)] = {}
             /\ pc'[v] # "rename"
      <3>1. CASE WriteNote(v) \/ Index(v)
        BY <3>1 DEF WriteNote, Index, Goes, TypeOK
      <3>2. CASE ReadQueue(v)
        BY <3>2 DEF ReadQueue, Goes, TypeOK, Rest
      <3>3. CASE Truncate(v)
        BY <2>1, <3>3 DEF Truncate, Goes, TypeOK, FrameInv
      <3> QED
        BY <1>4, <3>1, <3>2, <3>3
    <2>7. \A w \in Reviews \ {v} : pc[w] \in Busy /\ File(w) \notin mixed => tmp'[File(w)] = tmp[File(w)]
      BY <2>1, <2>3, ElsewhereAlone DEF RefInv, File
    <2>8. FrameInv'
      BY <1>0, <1>2, <2>1, <2>5, <2>6, <2>7 DEF FrameInv
    <2> QED
      BY <1>1, <2>2, <2>4, <2>8
  <1>5. ASSUME ReviewFails(v) PROVE QueueInv'
    <2>1. pc'[v] \notin Busy /\ kept'[v] = {} /\ tmp' = tmp /\ files' = files /\ mixed' = mixed
      BY <1>5 DEF ReviewFails, Returns, TypeOK, Busy
    <2> QED
      BY <1>0, <1>1, <1>2, <2>1 DEF Alone, DoneInv, FrameInv
  <1> QED
    BY <1>3, <1>4, <1>5

\* Alone, a review writes what it kept to an empty .tmp.
LEMMA WriteKeeps == ASSUME Base, QueueInv, NEW v \in Reviews, Write(v) PROVE QueueInv'
  <1> USE DEF QueueInv, Base
  <1> DEFINE q == File(v)
  <1>0. /\ UNCHANGED <<home, save, files, written, mixed, verdict, about, decided>>
        /\ pc[v] = "write" /\ pc[v] \in Busy /\ pc'[v] = "rename" /\ pc'[v] \in Busy
        /\ q \in Projects /\ about[v] \in Captured /\ Captured' = Captured
        /\ kept'[v] = {}
        /\ \A w \in Reviews \ {v} : pc'[w] = pc[w] /\ kept'[w] = kept[w] /\ fd'[w] = fd[w]
        /\ \A n \in Ids : fd'[n] = fd[n]
        /\ \A w \in Reviews : File(w)' = File(w)
    BY NotesAssumption DEF Write, Goes, TypeOK, Busy, RefInv, File, DoneInv, Captured
  <1>1. \/ /\ fd[v] = "tmp" /\ UNCHANGED queue
           /\ \E tail \in SUBSET tmp[q] : tmp' = [tmp EXCEPT ![q] = kept[v] \cup tail]
        \/ /\ fd[v] # "tmp" /\ UNCHANGED tmp
           /\ \/ \E tail \in SUBSET queue[q] : queue' = [queue EXCEPT ![q] = kept[v] \cup tail]
              \/ UNCHANGED queue
    BY DEF Write
  <1>2. /\ \A p \in Projects \ {q} : queue'[p] = queue[p] /\ tmp'[p] = tmp[p]
        /\ queue'[q] \subseteq kept[v] \cup queue[q] /\ tmp'[q] \subseteq kept[v] \cup tmp[q]
    <2>1. CASE /\ UNCHANGED queue
               /\ \E tail \in SUBSET tmp[q] : tmp' = [tmp EXCEPT ![q] = kept[v] \cup tail]
      BY <1>0, <2>1 DEF TypeOK
    <2>2. CASE /\ UNCHANGED tmp
               /\ \E tail \in SUBSET queue[q] : queue' = [queue EXCEPT ![q] = kept[v] \cup tail]
      BY <1>0, <2>2 DEF TypeOK
    <2>3. CASE UNCHANGED <<queue, tmp>>
      BY <2>3
    <2> QED
      BY <1>1, <2>1, <2>2, <2>3
  <1>3. q \notin mixed => queue'[q] = queue[q] /\ tmp'[q] = kept[v] /\ kept[v] = Rest(v)
    <2> SUFFICES ASSUME q \notin mixed PROVE queue'[q] = queue[q] /\ tmp'[q] = kept[v] /\ kept[v] = Rest(v)
      OBVIOUS
    <2>1. kept[v] = Rest(v) /\ fd[v] = "tmp" /\ tmp[q] = {}
      BY <1>0 DEF FrameInv
    <2>2. queue' = queue /\ \E tail \in SUBSET tmp[q] : tmp' = [tmp EXCEPT ![q] = kept[v] \cup tail]
      BY <1>1, <2>1
    <2>3. tmp' = [tmp EXCEPT ![q] = kept[v]]
      BY <2>1, <2>2
    <2> QED
      BY <1>0, <2>1, <2>2, <2>3 DEF TypeOK
  <1>4. \A w \in Reviews \ {v} : pc[w] \in Busy /\ File(w) \notin mixed =>
           File(w) # q /\ File(w) \in Projects /\ about'[w] = about[w]
    BY <1>0, ElsewhereAlone DEF RefInv, File
  <1>5. Alone'
    BY <1>0 DEF Alone
  <1>6. DoneInv'
    BY <1>0, <1>2 DEF DoneInv
  <1>7. FrameInv'
    <2>1. \A w \in Reviews \ {v} : pc[w] \in Busy /\ File(w) \notin mixed =>
             Rest(w)' = Rest(w) /\ tmp'[File(w)] = tmp[File(w)]
      BY <1>0, <1>2, <1>4 DEF Rest
    <2>2. q \notin mixed => tmp'[q] = Rest(v)'
      BY <1>0, <1>3 DEF Rest
    <2>3. verdict[v] = "approve" => about[v] \in files
      BY <1>0 DEF FrameInv, Busy
    <2> QED
      BY <1>0, <2>1, <2>2, <2>3 DEF FrameInv
  <1>8. \A p \in Projects \ mixed : queue'[p] = queue[p]
    BY <1>2, <1>3
  <1>9. NoNoteLost' /\ DecidedIsGone'
    BY <1>0, <1>8 DEF NoNoteLost, DecidedIsGone, Pending, RefInv, DoneInv, Captured
  <1> QED
    BY <1>5, <1>6, <1>7, <1>9

\* Alone, a review takes from the queue the note it has decided, and no other.
LEMMA RenameKeeps == ASSUME Base, QueueInv, NEW v \in Reviews, Rename(v) PROVE QueueInv'
  <1> USE DEF QueueInv, Base
  <1> DEFINE q == File(v)
  <1>0. /\ UNCHANGED <<home, save, files, mixed>>
        /\ pc[v] = "rename" /\ pc[v] \in Busy /\ pc'[v] \notin Busy
        /\ q \in Projects /\ about[v] \in Captured /\ Captured' = Captured
        /\ kept'[v] = {}
        /\ \A w \in Reviews \ {v} :
              pc'[w] = pc[w] /\ about'[w] = about[w] /\ verdict'[w] = verdict[w] /\ kept'[w] = kept[w]
        /\ \A w \in Reviews \ {v} : File(w)' = File(w)
    BY DEF Rename, Returns, TypeOK, Busy, RefInv, File, DoneInv, Captured
  <1>1. /\ queue'[q] = tmp[q] /\ tmp'[q] = {}
        /\ \A p \in Projects \ {q} : queue'[p] = queue[p] /\ tmp'[p] = tmp[p]
    BY <1>0 DEF Rename, TypeOK
  <1>2. /\ decided'[verdict[v]] = decided[verdict[v]] \cup {about[v]}
        /\ \A d \in Verdicts \ {verdict[v]} : decided'[d] = decided[d]
        /\ verdict[v] \in Verdicts
    BY DEF Rename, TypeOK
  <1>3. q \notin mixed => queue'[q] = Rest(v)
    BY <1>0, <1>1 DEF FrameInv
  <1>4. /\ \A w \in Reviews \ {v} : pc[w] \in Busy /\ File(w) \notin mixed =>
              File(w) # q /\ File(w) \in Projects /\ fd'[w] = fd[w]
        /\ \A n \in Ids : save[n] = "write" /\ home[n] \notin mixed => fd'[n] = fd[n]
    <2>1. \A f \in Ids \cup Reviews : ProjectOf(f) # q => fd'[f] = fd[f]
      BY DEF Rename, AfterRename
    <2>2. \A n \in Ids : ProjectOf(n) = home[n]
      BY DEF ProjectOf
    <2>3. \A w \in Reviews : pc[w] \in Busy => ProjectOf(w) = File(w) /\ File(w) \in Projects
      BY NotesAssumption DEF ProjectOf, File, RefInv
    <2> QED
      BY <1>0, <2>1, <2>2, <2>3, ElsewhereAlone
  <1>5. Alone'
    BY <1>0 DEF Alone
  <1>6. DoneInv'
    BY <1>0, <1>1, <1>2 DEF DoneInv
  <1>7. FrameInv'
    <2>1. \A w \in Reviews \ {v} : pc[w] \in Busy /\ File(w) \notin mixed =>
             Rest(w)' = Rest(w) /\ tmp'[File(w)] = tmp[File(w)]
      BY <1>0, <1>1, <1>4 DEF Rest
    <2> QED
      BY <1>0, <1>4, <2>1 DEF FrameInv
  <1>8. NoNoteLost'
    <2> SUFFICES ASSUME NEW n \in Ids, save[n] = "done", home[n] \notin mixed
                 PROVE  Pending(n)' \/ n \in files' \cup decided'["reject"]
      BY <1>0 DEF NoNoteLost
    <2>1. decided["reject"] \subseteq decided'["reject"] /\ home[n] \in Projects
      BY <1>2 DEF Verdicts, RefInv
    <2>2. Pending(n) \/ n \in files \cup decided["reject"]
      BY DEF NoNoteLost
    <2>3. CASE Pending(n) /\ n # about[v]
      BY <1>0, <1>1, <1>3, <2>1, <2>3 DEF Pending, Rest
    <2>4. CASE n = about[v]
      <3>1. CASE verdict[v] = "reject"
        BY <1>2, <2>4, <3>1
      <3>2. CASE verdict[v] = "approve"
        BY <1>0, <2>4, <3>2 DEF FrameInv
      <3> QED
        BY <1>2, <3>1, <3>2 DEF Verdicts
    <2>5. CASE n \in files \cup decided["reject"]
      BY <1>0, <2>1, <2>5
    <2> QED
      BY <2>2, <2>3, <2>4, <2>5
  <1>9. DecidedIsGone'
    <2> SUFFICES ASSUME NEW d \in Verdicts, NEW n \in decided'[d], home[n] \notin mixed
                 PROVE  ~Pending(n)'
      BY <1>0 DEF DecidedIsGone
    <2>1. n \in decided[d] \/ n = about[v]
      BY <1>2
    <2>2. home[n] \in Projects
      BY <1>0, <2>1 DEF RefInv, DoneInv, Captured
    <2>3. n = about[v] => home[n] = q
      BY DEF File
    <2>4. n \in decided[d] => n \notin queue[home[n]]
      BY <2>2, NotesAssumption DEF DecidedIsGone, Pending
    <2>5. n \notin queue'[home[n]]
      BY <1>1, <1>3, <2>1, <2>2, <2>3, <2>4 DEF Rest
    <2> QED
      BY <1>0, <2>5 DEF Pending
  <1> QED
    BY <1>5, <1>6, <1>7, <1>8, <1>9

\* A rebuild touches neither queues nor reviews.
LEMMA QueueStep == Base /\ QueueInv /\ [Next]_vars => QueueInv'
  <1> SUFFICES ASSUME Base, QueueInv, [Next]_vars PROVE QueueInv'
    OBVIOUS
  <1>1. ASSUME UNCHANGED <<home, save, files, queueVars, reviewVars>> PROVE QueueInv'
    BY <1>1 DEF QueueInv, queueVars, reviewVars, Alone, DoneInv, FrameInv, NoNoteLost, DecidedIsGone,
                Captured, Rest, File, Pending
  <1>2. ASSUME NEW x \in Rebuilds, Reindex(x) PROVE QueueInv'
    BY <1>1, <1>2 DEF Reindex, DropFts, DropNotes, CreateTables, Walk, Fill, RebuildFails
  <1>3. ASSUME NEW v \in Reviews, Review(v) PROVE QueueInv'
    BY <1>3, ReviewKeeps, WriteKeeps, RenameKeeps DEF Review
  <1> QED
    BY <1>1, <1>2, <1>3, SaveKeeps DEF Next, vars

(* A captured note is lost by no failure and no kill: it is pending, or a  *)
(* file, or its rejection got to its last step, for any number of notes    *)
(* and reviews (SaveToReview, Approve, Reject, dropLine), as long as one   *)
(* call uses its queue at a time.                                          *)
THEOREM NotesAreKept == Spec => []NoNoteLost
  <1>1. Init => Base /\ QueueInv
    BY BaseInit, QueueInit
  <1>2. Base /\ QueueInv /\ [Next]_vars => (Base /\ QueueInv)'
    BY BaseStep, QueueStep
  <1>3. QueueInv => NoNoteLost
    BY DEF QueueInv
  <1> QED
    BY <1>1, <1>2, <1>3, PTL DEF Spec

(* A note that was approved or rejected is not pending again, whatever     *)
(* later reviews of its project do, fail at or leave behind (dropLine).    *)
THEOREM DecisionsStand == Spec => []DecidedIsGone
  <1>1. Init => Base /\ QueueInv
    BY BaseInit, QueueInit
  <1>2. Base /\ QueueInv /\ [Next]_vars => (Base /\ QueueInv)'
    BY BaseStep, QueueStep
  <1>3. QueueInv => DecidedIsGone
    BY DEF QueueInv
  <1> QED
    BY <1>1, <1>2, <1>3, PTL DEF Spec

-----------------------------------------------------------------------------
(* The notes whose approval has put a row into the index.                  *)
Indexed ==
    decided["approve"] \cup
        {n \in Ids : \E v \in Reviews :
            n = about[v] /\ pc[v] \in Busy \ {"file", "index"} /\ verdict[v] = "approve"}

\* What x has read.
Read(x) == {n \in Ids : \E i \in DOMAIN entries[x] : entries[x][i] = n}

(* Every note with a row that is not owed is found; and the rebuild that   *)
(* will settle a debt has read every such note, or has it before itself.   *)
IndexInv ==
    /\ Indexed \subseteq files
    /\ \A n \in Indexed : home[n] \notin owed => Found(n)
    /\ \A x \in Rebuilds : step[x] = "fill" => left[x] = {}
    /\ \A x \in Rebuilds : sole = x /\ step[x] \in {"walk", "fill"} =>
          \A n \in Indexed : home[n] \in scope[x] => Found(n) \/ n \in Read(x) \/ home[n] \in left[x]

\* No note has been indexed.
LEMMA IndexInit == Init => IndexInv
  BY DEF Init, IndexInv, Indexed, Busy, Verdicts

\* Steps that neither index a note nor touch the index.
LEMMA IndexUntouched ==
    ASSUME Base, DoneInv, IndexInv, UNCHANGED <<indexVars, rebuildVars>>,
           files \subseteq files', Indexed' \subseteq Indexed, \A n \in Captured : home'[n] = home[n]
    PROVE  IndexInv'
  <1>1. Indexed \subseteq Captured
    BY DEF DoneInv, Indexed, Verdicts, Captured
  <1>2. \A n \in Ids : Found(n)' = Found(n)
    BY DEF Found, indexVars
  <1>3. \A x \in Rebuilds : Read(x)' = Read(x)
    BY DEF Read, rebuildVars
  <1>4. UNCHANGED <<owed, sole, step, scope, left>>
    BY DEF indexVars, rebuildVars
  <1>5. Indexed \subseteq Ids
    BY <1>1 DEF Captured
  <1> QED
    BY <1>1, <1>2, <1>3, <1>4, <1>5 DEF IndexInv

\* An approval indexes its own note beyond all rows; other reviews index nothing.
LEMMA IndexedByReview ==
    ASSUME Base, QueueInv, IndexInv, NEW v \in Reviews, Review(v)
    PROVE  IndexInv'
  <1> USE DEF Base, QueueInv
  <1> DEFINE m == about[v]
  <1>1. CASE Index(v)
    <2>1. /\ m \in Ids /\ pc[v] = "index" /\ LastRow \in Nat /\ rows \in [Ids -> Nat]
          /\ \A n \in Ids : rows[n] <= LastRow
          /\ UNCHANGED <<home, files, verdict, about, decided, owed, sole>> /\ UNCHANGED rebuildVars
      BY <1>1, LastRowIs DEF Index, TypeOK, RefInv, Busy
    <2>2. /\ rows' = [rows EXCEPT ![m] = LastRow + 1]
          /\ fts' = [j \in DOMAIN fts \cup {LastRow + 1} |-> IF j = LastRow + 1 THEN m ELSE fts[j]]
      BY <1>1 DEF Index, WithEntry
    <2>3. Found(m)' /\ \A n \in Ids : Found(n) => Found(n)'
      BY <2>1, <2>2 DEF Found
    <2>4. Indexed' \subseteq Indexed \cup {m}
      BY <1>1 DEF Index, Goes, Indexed, TypeOK
    <2>5. verdict[v] = "approve" => m \in files
      BY <2>1 DEF FrameInv, Busy
    <2>6. Indexed' \subseteq files'
      <3>1. verdict[v] # "approve" => Indexed' \subseteq Indexed
        BY <1>1 DEF Index, Goes, Indexed, TypeOK
      <3> QED
        BY <2>1, <2>4, <2>5, <3>1 DEF IndexInv
    <2>7. Indexed \subseteq Ids /\ \A x \in Rebuilds : Read(x)' = Read(x)
      BY <2>1 DEF DoneInv, Captured, Verdicts, Indexed, Read, rebuildVars
    <2> QED
      BY <2>1, <2>3, <2>4, <2>6, <2>7 DEF IndexInv, rebuildVars
  <1>2. CASE Rename(v)
    <2>1. /\ decided'["approve"] \subseteq
                decided["approve"] \cup {n \in Ids : n = m /\ verdict[v] = "approve"}
          /\ pc[v] = "rename" /\ pc'[v] = "over" /\ m \in Ids
          /\ \A w \in Reviews \ {v} : pc'[w] = pc[w] /\ about'[w] = about[w] /\ verdict'[w] = verdict[w]
      BY <1>2 DEF Rename, Returns, TypeOK, Verdicts, RefInv, Busy
    <2>2. Indexed' \subseteq Indexed
      BY <2>1 DEF Indexed, Busy
    <2> QED
      BY <1>2, <2>2, IndexUntouched DEF Rename
  <1>3. CASE \/ \E n \in Ids, d \in Verdicts : Find(v, n, d)
             \/ WriteNote(v) \/ ReadQueue(v) \/ Truncate(v) \/ Write(v) \/ ReviewFails(v)
    <2>1. UNCHANGED <<decided, home, indexVars, rebuildVars>> /\ files \subseteq files'
      BY <1>3 DEF Find, WriteNote, ReadQueue, Truncate, Write, ReviewFails
    <2>2. /\ \A w \in Reviews \ {v} : pc'[w] = pc[w] /\ about'[w] = about[w] /\ verdict'[w] = verdict[w]
          /\ pc'[v] \in Busy \ {"file", "index"} /\ verdict'[v] = "approve" =>
                pc[v] \in Busy \ {"file", "index"} /\ verdict[v] = "approve" /\ about'[v] = about[v]
      BY <1>3 DEF Find, WriteNote, ReadQueue, Truncate, Write, ReviewFails, Goes, Returns, TypeOK, Busy
    <2>3. Indexed' \subseteq Indexed
      BY <2>1, <2>2 DEF Indexed
    <2> QED
      BY <2>1, <2>3, IndexUntouched
  <1> QED
    BY <1>1, <1>2, <1>3 DEF Review

\* A capture gives a project to a note that was never indexed.
LEMMA IndexedBySave ==
    ASSUME Base, QueueInv, IndexInv, NEW n \in Ids,
           (\E p \in Projects : SaveOpens(n, p)) \/ SaveAppends(n) \/ SaveFails(n)
    PROVE  IndexInv'
  <1>1. /\ UNCHANGED <<files, reviewVars, indexVars, rebuildVars>>
        /\ \A m \in Captured : home'[m] = home[m]
    BY DEF SaveOpens, SaveAppends, SaveFails, Captured, Base, TypeOK
  <1>2. Indexed' = Indexed
    BY <1>1 DEF Indexed, reviewVars
  <1> QED
    BY <1>1, <1>2, IndexUntouched DEF QueueInv

\* A rebuild that drops a table owes every project, and pays what it has read.
LEMMA IndexedByRebuild ==
    ASSUME Base, QueueInv, IndexInv, NEW x \in Rebuilds, Reindex(x)
    PROVE  IndexInv'
  <1> USE DEF Base, QueueInv
  <1>0. /\ UNCHANGED <<home, save, files>> /\ UNCHANGED reviewVars
        /\ Indexed' = Indexed
        /\ Indexed \subseteq Ids /\ \A n \in Indexed : home[n] \in Projects
        /\ \A y \in Rebuilds \ {x} :
              step'[y] = step[y] /\ scope'[y] = scope[y] /\ left'[y] = left[y] /\ Read(y)' = Read(y)
    <2>1. UNCHANGED <<home, save, files>> /\ UNCHANGED reviewVars
      BY DEF Reindex, DropFts, DropNotes, CreateTables, Walk, Fill, RebuildFails
    <2>2. \A y \in Rebuilds \ {x} :
             step'[y] = step[y] /\ scope'[y] = scope[y] /\ left'[y] = left[y] /\ entries'[y] = entries[y]
      <3>1. CASE \E s \in {{p} : p \in Projects} \cup {Projects} : DropFts(x, s)
        BY <3>1 DEF DropFts, Then, TypeOK
      <3>2. CASE DropNotes(x) \/ CreateTables(x)
        BY <3>2 DEF DropNotes, CreateTables, Then, TypeOK
      <3>3. CASE \E p \in Projects : Walk(x, p)
        <4>1. PICK p \in Projects : Walk(x, p)
          BY <3>3
        <4>2. PICK s : entries' = [entries EXCEPT ![x] = @ \o s]
          BY <4>1 DEF Walk
        <4>3. \A y \in Rebuilds \ {x} : step'[y] = step[y] /\ scope'[y] = scope[y] /\ left'[y] = left[y]
          BY <4>1 DEF Walk, Then, TypeOK
        <4>4. \A y \in Rebuilds \ {x} : entries'[y] = entries[y]
          BY <4>2 DEF TypeOK
        <4> QED
          BY <4>3, <4>4
      <3>4. CASE Fill(x) \/ RebuildFails(x)
        <4>1. Ends(x)
          BY <3>4 DEF Fill, RebuildFails
        <4> QED
          BY <4>1 DEF Ends, TypeOK
      <3> QED
        BY <3>1, <3>2, <3>3, <3>4 DEF Reindex
    <2>3. Indexed \subseteq Captured
      BY DEF DoneInv, Indexed, Verdicts, Captured
    <2> QED
      BY <2>1, <2>2, <2>3 DEF Indexed, Read, reviewVars, Captured, RefInv
  <1>1. CASE (\E s \in {{p} : p \in Projects} \cup {Projects} : DropFts(x, s)) \/ DropNotes(x)
    <2>1. /\ owed' = Projects /\ step'[x] \in {"dropnotes", "create"}
          /\ sole' = x \/ sole' = None
      BY <1>1 DEF DropFts, DropNotes, Then, TypeOK
    <2>2. \A y \in Rebuilds : ~(sole' = y /\ step'[y] \in {"walk", "fill"})
      BY <2>1, NotesAssumption
    <2> QED
      BY <1>0, <2>1, <2>2 DEF IndexInv
  <1>2. CASE CreateTables(x)
    <2>1. /\ step'[x] = "walk" /\ left'[x] = Projects
          /\ UNCHANGED <<owed, sole, rows, fts>>
      BY <1>2 DEF CreateTables, Then, TypeOK
    <2>2. \A n \in Ids : Found(n)' = Found(n)
      BY <2>1 DEF Found
    <2> QED
      BY <1>0, <2>1, <2>2 DEF IndexInv
  <1>3. ASSUME NEW p \in Projects, Walk(x, p) PROVE IndexInv'
    <2> DEFINE S == {n \in files : home[n] = p /\ p \in scope[x]}
    <2>1. /\ UNCHANGED indexVars /\ scope'[x] = scope[x] /\ left'[x] = left[x] \ {p}
          /\ step[x] = "walk" /\ step'[x] \in {"walk", "fill"}
          /\ step'[x] = "fill" => left'[x] = {}
      BY <1>3 DEF Walk, Then, TypeOK
    <2>2. PICK s \in Listings(S) : entries' = [entries EXCEPT ![x] = @ \o s]
      BY <1>3 DEF Walk
    <2>3. IsFiniteSet(S) /\ Cardinality(S) \in Nat
      BY FS_Subset, FS_CardinalityType, NotesAssumption DEF TypeOK
    <2>4. /\ s \in [1..Cardinality(S) -> S]
          /\ \A i, j \in 1..Cardinality(S) : s[i] = s[j] => i = j
      BY DEF Listings
    <2>5. s \in Injection(1..Cardinality(S), S)
      BY <2>4 DEF Injection, IsInjective
    <2>6. Cardinality(1..Cardinality(S)) = Cardinality(S)
      BY <2>3, FS_Interval
    <2>7. s \in Surjection(1..Cardinality(S), S)
      BY <2>3, <2>5, <2>6, FS_Injection
    <2>8. S \subseteq Ids /\ s \in Seq(S) /\ DOMAIN s = 1..Cardinality(S) /\ Len(s) = Cardinality(S)
      <3>1. S \subseteq Ids
        BY DEF TypeOK
      <3> HIDE DEF S
      <3>2. s \in Seq(S)
        BY <2>3, <2>4, SeqDef
      <3> QED
        BY <2>3, <2>4, <3>1, <3>2
    <2>9. S \subseteq Read(x)' /\ Read(x) \subseteq Read(x)'
      <3> DEFINE t == entries[x]
      <3>1. t \in Seq(Ids) /\ s \in Seq(Ids) /\ entries'[x] = t \o s
        BY <2>2, <2>8 DEF TypeOK
      <3> HIDE DEF S, t
      <3>2. /\ \A i \in DOMAIN t : i \in DOMAIN (t \o s) /\ (t \o s)[i] = t[i]
            /\ \A i \in DOMAIN s : Len(t) + i \in DOMAIN (t \o s) /\ (t \o s)[Len(t) + i] = s[i]
        BY <3>1
      <3>3. \A n \in S : \E i \in DOMAIN s : s[i] = n
        BY <2>7, <2>8 DEF Surjection
      <3>4. S \subseteq Read(x)'
        BY <2>8, <3>1, <3>2, <3>3 DEF Read
      <3>5. Read(x) \subseteq Read(x)'
        BY <3>1, <3>2 DEF Read, t
      <3> QED
        BY <3>4, <3>5
    <2>10. \A n \in Ids : Found(n)' = Found(n)
      BY <2>1 DEF Found, indexVars
    <2>11. \A n \in Indexed : home[n] = p /\ p \in scope[x] => n \in S
      BY DEF IndexInv
    <2> HIDE DEF S
    <2>12. /\ UNCHANGED <<owed, sole>>
           /\ \A n \in Indexed : home[n] \in scope[x] /\ home[n] \in left[x] =>
                 n \in Read(x)' \/ home[n] \in left'[x]
      BY <2>1, <2>9, <2>11 DEF indexVars
    <2> QED
      BY <1>0, <2>1, <2>9, <2>10, <2>12 DEF IndexInv
  <1>4. CASE Fill(x)
    <2> DEFINE t == entries[x]
    <2>1. /\ LastRow \in Nat /\ rows \in [Ids -> Nat] /\ t \in Seq(Ids) /\ DOMAIN t = 1..Len(t)
          /\ step[x] = "fill" /\ left[x] = {} /\ step'[x] = "over" /\ sole' = sole
          /\ owed' = IF sole = x THEN owed \ scope[x] ELSE owed
      BY <1>4, LastRowIs DEF Fill, Ends, TypeOK, IndexInv
    <2>2. /\ DOMAIN fts' = DOMAIN fts \cup NewRows(x)
          /\ NewRows(x) \cap DOMAIN fts = {}
          /\ \A i \in DOMAIN fts' : fts'[i] = IF i \in DOMAIN fts THEN fts[i] ELSE t[i - LastRow]
          /\ rows' = [n \in Ids |-> IF \E i \in DOMAIN t : t[i] = n THEN RowOf(x, n) ELSE rows[n]]
      BY <1>4 DEF Fill
    <2>3. \A n \in Read(x) : Found(n)'
      <3> SUFFICES ASSUME NEW n \in Read(x) PROVE rows'[n] \in DOMAIN fts' /\ fts'[rows'[n]] = n
        BY DEF Found
      <3>1. PICK i \in DOMAIN t : t[i] = n /\ RowOf(x, n) = LastRow + i
        BY DEF Read, RowOf
      <3>2. rows'[n] = LastRow + i /\ rows'[n] \in NewRows(x) /\ rows'[n] - LastRow = i
        BY <2>1, <2>2, <3>1 DEF Read, NewRows
      <3> QED
        BY <2>2, <3>1, <3>2
    <2>4. \A n \in Ids \ Read(x) : Found(n) => Found(n)'
      BY <2>2 DEF Found, Read
    <2>5. \A n \in Ids : Found(n) => Found(n)'
      BY <2>3, <2>4
    <2>6. \A n \in Indexed : home[n] \notin owed' => Found(n)'
      BY <1>0, <2>1, <2>3, <2>5 DEF IndexInv
    <2> QED
      BY <1>0, <2>1, <2>5, <2>6 DEF IndexInv
  <1>5. CASE RebuildFails(x)
    <2>1. step'[x] = "over" /\ UNCHANGED indexVars
      BY <1>5 DEF RebuildFails, Ends, TypeOK
    <2>2. \A n \in Ids : Found(n)' = Found(n)
      BY <2>1 DEF Found, indexVars
    <2> QED
      BY <1>0, <2>1, <2>2 DEF IndexInv, indexVars
  <1> QED
    BY <1>1, <1>2, <1>3, <1>4, <1>5 DEF Reindex

\* All steps together.
LEMMA IndexStep == Base /\ QueueInv /\ IndexInv /\ [Next]_vars => IndexInv'
  <1> SUFFICES ASSUME Base, QueueInv, IndexInv, [Next]_vars PROVE IndexInv'
    OBVIOUS
  <1>1. ASSUME UNCHANGED vars PROVE IndexInv'
    <2>1. Indexed' = Indexed /\ home' = home /\ files' = files /\ UNCHANGED <<indexVars, rebuildVars>>
      BY <1>1 DEF Indexed, vars, reviewVars
    <2> QED
      BY <2>1, IndexUntouched DEF QueueInv
  <1> QED
    BY <1>1, IndexedByReview, IndexedBySave, IndexedByRebuild DEF Next

(* An approval that was reported is not lost to the index: the note is     *)
(* found, whatever rebuilds run beside it or die, unless a rebuild has     *)
(* dropped its project's rows and not put them back (Approve, Reindex).    *)
THEOREM ApprovalsAreFound == Spec => []ApprovedIsFound
  <1>1. Init => Base /\ QueueInv /\ IndexInv
    BY BaseInit, QueueInit, IndexInit
  <1>2. Base /\ QueueInv /\ IndexInv /\ [Next]_vars => (Base /\ QueueInv /\ IndexInv)'
    BY BaseStep, QueueStep, IndexStep
  <1>3. IndexInv => ApprovedIsFound
    BY DEF IndexInv, ApprovedIsFound, Indexed
  <1> QED
    BY <1>1, <1>2, <1>3, PTL DEF Spec
=============================================================================
