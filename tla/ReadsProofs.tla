----------------------------- MODULE ReadsProofs -----------------------------
(***************************************************************************)
(* Proofs about Reads and Replies: what one reader may conclude, whatever  *)
(* it asks for, whoever answers, and whatever changes around it; and what  *)
(* a budget takes from the payload of a reply.                             *)
(***************************************************************************)
EXTENDS Replies, FiniteSetTheorems, SequenceTheorems, TLAPS

-----------------------------------------------------------------------------
(* Paths.                                                                  *)

Paths == Seq(Steps)

LEMMA StepTypes ==
    /\ \A k \in Range(KeyOrder) : Key(k) \in Steps
    /\ \A i \in Nat : Idx(i) \in Steps /\ Idx(i).idx = i
  <1>1. \A k \in Range(KeyOrder) : Key(k) \in Steps
    BY Zenon DEF Steps
  <1>2. \A i \in Nat : Idx(i) \in Steps
    BY Zenon DEF Steps
  <1>3. \A i \in Nat : Idx(i).idx = i
    BY DEF Idx
  <1> QED
    BY <1>1, <1>2, <1>3

LEMMA IdxInjective == \A i, j \in Nat : Idx(i) = Idx(j) => i = j
  BY StepTypes

(* A strict prefix is shorter and agrees where it is.                      *)
LEMMA StrictPrefix ==
    ASSUME NEW l \in Paths, NEW p \in Paths
    PROVE  IsStrictPrefix(l, p) <=> Len(l) < Len(p) /\ \A i \in 1 .. Len(l) : l[i] = p[i]
  <1>1. Len(l) \in Nat /\ Len(p) \in Nat
    BY DEF Paths
  <1>2. SubSeq(l, 1, Len(l)) = l
    BY DEF Paths
  <1>3. ASSUME Len(l) <= Len(p)
        PROVE  SubSeq(p, 1, Len(l)) = l <=> \A i \in 1 .. Len(l) : l[i] = p[i]
    <2>1. SubSeq(p, 1, Len(l)) \in Paths /\ Len(SubSeq(p, 1, Len(l))) = Len(l)
      BY <1>1, <1>3 DEF Paths
    <2>2. \A i \in 1 .. Len(l) : SubSeq(p, 1, Len(l))[i] = p[i]
      BY <1>1, <1>3 DEF Paths
    <2>3. SubSeq(p, 1, Len(l)) = l <=> \A i \in 1 .. Len(l) : SubSeq(p, 1, Len(l))[i] = l[i]
      BY <2>1, SeqEqual DEF Paths
    <2> QED
      BY <2>2, <2>3
  <1>4. ASSUME Len(l) = Len(p), \A i \in 1 .. Len(l) : l[i] = p[i]
        PROVE  l = p
    BY <1>4, SeqEqual DEF Paths
  <1> QED
    BY <1>1, <1>2, <1>3, <1>4 DEF IsStrictPrefix, IsPrefix

(* A path but the root is a node's followed by one step.                   *)
LEMMA Fronts ==
    ASSUME NEW p \in Paths, p # <<>>
    PROVE  /\ Front(p) \in Paths /\ Last(p) \in Steps
           /\ Len(p) \in Nat \ {0} /\ Len(Front(p)) = Len(p) - 1
           /\ \A i \in 1 .. Len(p) - 1 : Front(p)[i] = p[i]
           /\ p = Append(Front(p), Last(p))
  <1>1. Len(p) \in Nat \ {0}
    BY EmptySeq DEF Paths
  <1>2. Front(p) \in Paths /\ Len(Front(p)) = Len(p) - 1
    <2>1. Len(p) - 1 \in Int /\ 1 \in Int
      BY <1>1
    <2>2. \A i \in 1 .. Len(p) - 1 : p[i] \in Steps
      <3>1. \A i \in 1 .. Len(p) - 1 : i \in 1 .. Len(p)
        BY <1>1
      <3>2. \A i \in 1 .. Len(p) : p[i] \in Steps
        BY DEF Paths
      <3> QED
        BY <3>1, <3>2
    <2>3. /\ SubSeq(p, 1, Len(p) - 1) \in Seq(Steps)
          /\ Len(SubSeq(p, 1, Len(p) - 1)) = IF 1 <= Len(p) - 1 THEN Len(p) - 1 - 1 + 1 ELSE 0
      BY <2>1, <2>2, SubSeqProperties
    <2>4. Front(p) = SubSeq(p, 1, Len(p) - 1)
      BY DEF Front
    <2>5. \A n \in Nat \ {0} : (IF 1 <= n - 1 THEN n - 1 - 1 + 1 ELSE 0) = n - 1
      OBVIOUS
    <2> QED
      BY <1>1, <2>3, <2>4, <2>5, Zenon DEF Paths
  <1>3. \A i \in 1 .. Len(p) - 1 : Front(p)[i] = p[i]
    BY <1>1 DEF Paths, Front
  <1>4. Last(p) \in Steps
    BY <1>1 DEF Paths, Last
  <1>5. Append(Front(p), Last(p)) \in Paths /\ Len(Append(Front(p), Last(p))) = Len(p)
    BY <1>1, <1>2, <1>4 DEF Paths
  <1>6. \A i \in 1 .. Len(p) : Append(Front(p), Last(p))[i] = p[i]
    <2> TAKE i \in 1 .. Len(p)
    <2>1. CASE i <= Len(p) - 1
      BY <1>1, <1>2, <1>3, <1>4, <2>1 DEF Paths
    <2>2. CASE i = Len(p)
      BY <1>1, <1>2, <1>4, <2>2 DEF Paths, Last
    <2>3. i <= Len(p) - 1 \/ i = Len(p)
      BY <1>1
    <2> QED
      BY <2>1, <2>2, <2>3
  <1>7. p = Append(Front(p), Last(p))
    BY <1>5, <1>6, SeqEqual DEF Paths
  <1> QED
    BY <1>1, <1>2, <1>3, <1>4, <1>7

LEMMA Appended ==
    ASSUME NEW q \in Paths, NEW s \in Steps
    PROVE  /\ Append(q, s) \in Paths /\ Append(q, s) # <<>>
           /\ Len(Append(q, s)) = Len(q) + 1
           /\ Append(q, s)[Len(q) + 1] = s
           /\ \A i \in 1 .. Len(q) : Append(q, s)[i] = q[i]
           /\ Front(Append(q, s)) = q /\ Last(Append(q, s)) = s
  <1>1. /\ Append(q, s) \in Paths /\ Len(Append(q, s)) = Len(q) + 1
        /\ Append(q, s)[Len(q) + 1] = s /\ Len(q) \in Nat
        /\ \A i \in 1 .. Len(q) : Append(q, s)[i] = q[i]
    BY DEF Paths
  <1>2. Append(q, s) # <<>>
    BY <1>1, EmptySeq DEF Paths
  <1>3. Front(Append(q, s)) = q
    <2>1. PICK a \in Paths : a = Append(q, s)
      BY <1>1, Zenon
    <2>a. /\ a # <<>> /\ Len(a) = Len(q) + 1 /\ Len(q) \in Nat
          /\ \A i \in 1 .. Len(q) : a[i] = q[i]
      BY <1>1, <1>2, <2>1, Zenon
    <2>b. /\ Front(a) \in Paths /\ Len(Front(a)) = Len(a) - 1
          /\ \A i \in 1 .. Len(a) - 1 : Front(a)[i] = a[i]
      BY <2>a, Fronts, Zenon
    <2>2. Front(a) \in Paths /\ Len(Front(a)) = Len(q)
      BY <2>a, <2>b
    <2>3. \A i \in 1 .. Len(q) : Front(a)[i] = q[i]
      BY <2>a, <2>b
    <2>4. Front(a) = q
      BY <2>2, <2>3, SeqEqual DEF Paths
    <2> QED
      BY <2>1, <2>4
  <1>4. Last(Append(q, s)) = s
    BY <1>1 DEF Last
  <1> QED
    BY <1>1, <1>2, <1>3, <1>4

(* So many elements as there are indices.                                  *)
LEMMA Elements ==
    ASSUME NEW q \in Paths, NEW a \in Nat, NEW b \in Nat
    PROVE  LET E == {Append(q, Idx(i)) : i \in a + 1 .. b}
           IN  /\ IsFiniteSet(E)
               /\ Cardinality(E) = IF a < b THEN b - a ELSE 0
  <1> DEFINE D == a + 1 .. b
             E == {Append(q, Idx(i)) : i \in D}
             f == [i \in D |-> Append(q, Idx(i))]
  <1>1. \A i \in D : i \in Nat
    OBVIOUS
  <1>2. \A i, j \in D : Append(q, Idx(i)) = Append(q, Idx(j)) => i = j
    BY <1>1, Appended, StepTypes, IdxInjective
  <1>3. f \in Bijection(D, E)
    BY <1>2 DEF Bijection, Injection, Surjection, IsInjective
  <1>4. ExistsBijection(D, E)
    BY <1>3 DEF ExistsBijection
  <1>5. IsFiniteSet(D) /\ Cardinality(D) = IF a + 1 > b THEN 0 ELSE b - (a + 1) + 1
    BY FS_Interval
  <1>6. IsFiniteSet(E) /\ Cardinality(E) = Cardinality(D)
    <2> HIDE DEF D, E
    <2> QED
      BY <1>4, <1>5, FS_Bijection
  <1> QED
    BY <1>5, <1>6

(* The beginnings of a path.                                               *)
LEMMA Beginnings ==
    ASSUME NEW p \in Paths, NEW i \in 0 .. Len(p)
    PROVE  /\ SubSeq(p, 1, i) \in Paths /\ Len(SubSeq(p, 1, i)) = i
           /\ \A j \in 1 .. i : SubSeq(p, 1, i)[j] = p[j]
           /\ i < Len(p) => IsStrictPrefix(SubSeq(p, 1, i), p)
           /\ i = 0 => SubSeq(p, 1, i) = <<>>
           /\ i # 0 => SubSeq(p, 1, i) # <<>> /\ Front(SubSeq(p, 1, i)) = SubSeq(p, 1, i - 1)
  <1>0. Len(p) \in Nat
    BY DEF Paths
  <1>1. \A k \in 0 .. Len(p) : /\ SubSeq(p, 1, k) \in Paths /\ Len(SubSeq(p, 1, k)) = k
                             /\ \A j \in 1 .. k : SubSeq(p, 1, k)[j] = p[j]
    <2> TAKE k \in 0 .. Len(p)
    <2>1. k \in Int /\ 1 \in Int
      BY <1>0
    <2>2. \A j \in 1 .. k : p[j] \in Steps
      <3>1. \A j \in 1 .. k : j \in 1 .. Len(p)
        BY <1>0
      <3>2. \A j \in 1 .. Len(p) : p[j] \in Steps
        BY DEF Paths
      <3> QED
        BY <3>1, <3>2
    <2>3. /\ SubSeq(p, 1, k) \in Seq(Steps)
          /\ Len(SubSeq(p, 1, k)) = IF 1 <= k THEN k - 1 + 1 ELSE 0
          /\ \A j \in 1 .. k - 1 + 1 : SubSeq(p, 1, k)[j] = p[1 + j - 1]
      BY <2>1, <2>2, SubSeqProperties
    <2>4. \A n \in Int : \A j \in 1 .. n : j \in 1 .. n - 1 + 1 /\ 1 + j - 1 = j
      OBVIOUS
    <2>5. SubSeq(p, 1, k) \in Paths /\ Len(SubSeq(p, 1, k)) = k
      <3>1. \A m \in Int : m >= 0 => (IF 1 <= m THEN m - 1 + 1 ELSE 0) = m
        OBVIOUS
      <3>2. k >= 0
        BY <1>0
      <3> QED
        BY <2>1, <2>3, <3>1, <3>2 DEF Paths
    <2>6. ASSUME NEW j \in 1 .. k PROVE SubSeq(p, 1, k)[j] = p[j]
      <3>1. j \in 1 .. k - 1 + 1 /\ 1 + j - 1 = j
        BY <2>1, <2>4, Zenon
      <3>2. SubSeq(p, 1, k)[j] = p[1 + j - 1]
        BY <2>3, <3>1, Zenon
      <3> QED
        BY <3>1, <3>2, Zenon
    <2> QED
      BY <2>5, <2>6, Zenon
  <1>2. /\ SubSeq(p, 1, i) \in Paths /\ Len(SubSeq(p, 1, i)) = i
        /\ \A j \in 1 .. i : SubSeq(p, 1, i)[j] = p[j]
    BY <1>1, Zenon
  <1>3. i < Len(p) => IsStrictPrefix(SubSeq(p, 1, i), p)
    BY <1>2, StrictPrefix, Zenon
  <1>4. i = 0 <=> SubSeq(p, 1, i) = <<>>
    BY <1>2, EmptySeq DEF Paths
  <1>5. ASSUME i # 0 PROVE Front(SubSeq(p, 1, i)) = SubSeq(p, 1, i - 1)
    <2>1. i - 1 \in 0 .. Len(p) /\ i \in Nat
      BY <1>0, <1>5
    <2>2. PICK a \in Paths : a = SubSeq(p, 1, i)
      BY <1>2, Zenon
    <2>3. PICK b \in Paths : b = SubSeq(p, 1, i - 1)
      BY <1>1, <2>1, Zenon
    <2>4. a # <<>> /\ Len(a) = i /\ \A j \in 1 .. i : a[j] = p[j]
      BY <1>2, <1>4, <1>5, <2>2, Zenon
    <2>5. Len(b) = i - 1 /\ \A j \in 1 .. i - 1 : b[j] = p[j]
      BY <1>1, <2>1, <2>3, Zenon
    <2>6. /\ Front(a) \in Paths /\ Len(Front(a)) = Len(a) - 1
          /\ \A j \in 1 .. Len(a) - 1 : Front(a)[j] = a[j]
      BY <2>4, Fronts, Zenon
    <2>7. Len(Front(a)) = Len(b) /\ \A j \in 1 .. Len(b) : Front(a)[j] = b[j]
      BY <2>1, <2>4, <2>5, <2>6
    <2> QED
      BY <2>2, <2>3, <2>6, <2>7, SeqEqual, Zenon DEF Paths
  <1> QED
    BY <1>2, <1>3, <1>4, <1>5, Zenon

(* Beneath a node, and not just under it, its children are between.        *)
LEMMA Between ==
    ASSUME NEW l \in Paths, NEW e \in Paths, e # <<>>
    PROVE  /\ IsStrictPrefix(l, e) <=> l = Front(e) \/ IsStrictPrefix(l, Front(e))
           /\ l = Front(e) => e[Len(l) + 1] = Last(e)
           /\ IsStrictPrefix(l, Front(e)) => e[Len(l) + 1] = Front(e)[Len(l) + 1]
  <1>1. /\ Front(e) \in Paths /\ Len(e) \in Nat \ {0} /\ Len(Front(e)) = Len(e) - 1
        /\ \A i \in 1 .. Len(e) - 1 : Front(e)[i] = e[i]
    BY Fronts
  <1>2. Len(l) \in Nat
    BY DEF Paths
  <1>3. PICK f \in Paths : f = Front(e)
    BY <1>1
  <1>4. Len(f) = Len(e) - 1 /\ \A i \in 1 .. Len(f) : f[i] = e[i]
    BY <1>1, <1>3
  <1>5. IsStrictPrefix(l, e) <=> Len(l) < Len(e) /\ \A i \in 1 .. Len(l) : l[i] = e[i]
    BY StrictPrefix
  <1>6. IsStrictPrefix(l, f) <=> Len(l) < Len(f) /\ \A i \in 1 .. Len(l) : l[i] = f[i]
    BY StrictPrefix
  <1>7. ASSUME Len(l) = Len(f), \A i \in 1 .. Len(l) : l[i] = f[i] PROVE l = f
    BY <1>7, SeqEqual DEF Paths
  <1>8. ASSUME IsStrictPrefix(l, e) PROVE l = f \/ IsStrictPrefix(l, f)
    <2>1. \A i \in 1 .. Len(l) : l[i] = f[i]
      BY <1>1, <1>2, <1>4, <1>5, <1>8
    <2>2. Len(l) = Len(f) \/ Len(l) < Len(f)
      BY <1>1, <1>2, <1>4, <1>5, <1>8
    <2> QED
      BY <1>6, <1>7, <2>1, <2>2
  <1>9. ASSUME l = f \/ IsStrictPrefix(l, f) PROVE IsStrictPrefix(l, e)
    <2>1. Len(l) < Len(e)
      BY <1>1, <1>2, <1>4, <1>6, <1>9
    <2>2. \A i \in 1 .. Len(l) : l[i] = e[i]
      BY <1>1, <1>2, <1>4, <1>6, <1>9
    <2> QED
      BY <1>5, <2>1, <2>2
  <1>10. l = f => e[Len(l) + 1] = Last(e)
    BY <1>1, <1>4 DEF Last
  <1>11. IsStrictPrefix(l, f) => e[Len(l) + 1] = f[Len(l) + 1]
    BY <1>1, <1>2, <1>4, <1>6
  <1> QED
    BY <1>3, <1>8, <1>9, <1>10, <1>11

-----------------------------------------------------------------------------
(* Payloads.                                                               *)

(* A decoded payload is a tree, its arrays without holes.                  *)
IsTree(v) ==
    /\ IsFiniteSet(DOMAIN v) /\ DOMAIN v \subseteq Paths /\ <<>> \in DOMAIN v
    /\ \A p \in DOMAIN v : \A i \in 0 .. Len(p) : SubSeq(p, 1, i) \in DOMAIN v
    /\ \A q \in DOMAIN v : v[q].t = "arr" =>
        \E n \in Nat : Children(v, q) = {Append(q, Idx(i)) : i \in 1 .. n}

(* What is left of a payload that has lost elements of its lists: nodes as *)
(* they were, all of those that are in no list, and all the children of a  *)
(* node that is not a list.                                                *)
Pruned(r, v) ==
    /\ IsTree(r)
    /\ DOMAIN r \subseteq DOMAIN v /\ \A p \in DOMAIN r : r[p] = v[p]
    /\ \A q \in DOMAIN v : (\A l \in rowContainers(v) : ~IsStrictPrefix(l, q)) => q \in DOMAIN r
    /\ \A e \in DOMAIN v : e # <<>> /\ Front(e) \in DOMAIN r /\ Front(e) \notin rowContainers(v)
                            => e \in DOMAIN r

LEMMA TreeIsPruned ==
    ASSUME NEW v, IsTree(v)
    PROVE  Pruned(v, v)
  BY DEF Pruned

LEMMA FrontInTree ==
    ASSUME NEW v, IsTree(v), NEW e \in DOMAIN v, e # <<>>
    PROVE  e \in Paths /\ Front(e) \in DOMAIN v /\ Front(e) \in Paths
  <1>1. e \in Paths
    BY DEF IsTree
  <1>2. Len(e) \in Nat \ {0}
    BY <1>1, Fronts
  <1>3. Len(e) - 1 \in 0 .. Len(e)
    BY <1>2
  <1>4. SubSeq(e, 1, Len(e) - 1) \in DOMAIN v
    BY <1>3 DEF IsTree
  <1>5. Front(e) \in DOMAIN v
    BY <1>4, Zenon DEF Front
  <1> QED
    BY <1>1, <1>5, Fronts

(* The first element that an array is judged by is the same.               *)
LEMMA JudgedAlike ==
    ASSUME NEW v, NEW r, IsTree(v), Pruned(r, v), NEW q \in DOMAIN r, NEW t
    PROVE  /\ ArrayOf(v, q, t) => ArrayOf(r, q, t)
           /\ ArrayOf(r, q, t) /\ (q \notin rowContainers(v) \/ Children(r, q) # {}) => ArrayOf(v, q, t)
  <1> DEFINE first == Append(q, Idx(1))
  <1>1. r[q] = v[q] /\ q \in DOMAIN v /\ q \in Paths
    BY DEF Pruned, IsTree
  <1>2. first \in DOMAIN r => first \in DOMAIN v /\ r[first] = v[first]
    BY DEF Pruned
  <1>3. first \in Paths /\ first # <<>> /\ Front(first) = q
    BY <1>1, Appended, StepTypes
  <1>4. ASSUME q \notin rowContainers(v), first \in DOMAIN v PROVE first \in DOMAIN r
    BY <1>3, <1>4 DEF Pruned
  <1>5. ASSUME r[q].t = "arr", Children(r, q) # {} PROVE first \in DOMAIN r
    <2>1. PICK n \in Nat : Children(r, q) = {Append(q, Idx(i)) : i \in 1 .. n}
      BY <1>5 DEF Pruned, IsTree
    <2>2. 1 \in 1 .. n
      BY <1>5, <2>1
    <2>3. first \in Children(r, q)
      BY <2>1, <2>2
    <2> QED
      BY <2>3 DEF Children
  <1> HIDE DEF first
  <1>6. ArrayOf(v, q, t) <=> v[q].t = "arr" /\ (first \in DOMAIN v => v[first].t = t)
    BY DEF ArrayOf, first
  <1>7. ArrayOf(r, q, t) <=> r[q].t = "arr" /\ (first \in DOMAIN r => r[first].t = t)
    BY DEF ArrayOf, first
  <1> QED
    BY <1>1, <1>2, <1>4, <1>5, <1>6, <1>7

LEMMA RowContainer ==
    ASSUME NEW v, NEW q
    PROVE  q \in rowContainers(v) <=>
            /\ q \in DOMAIN v
            /\ ArrayOf(v, q, "arr") \/ ArrayOf(v, q, "obj")
            /\ \A i \in 0 .. Len(q) - 1 : ~ArrayOf(v, SubSeq(q, 1, i), "arr")
  BY DEF rowContainers, isRowArray, isObjectArray

(* The lists of what is left are those of the payload that are still there. *)
LEMMA ListsOfPruned ==
    ASSUME NEW v, NEW r, IsTree(v), Pruned(r, v), NEW q \in DOMAIN r
    PROVE  q \in rowContainers(r) <=> q \in rowContainers(v)
  <1>1. q \in DOMAIN v /\ q \in Paths /\ Len(q) \in Nat
    BY DEF Pruned, IsTree, Paths
  <1>2. \A i \in 0 .. Len(q) - 1 :
            ArrayOf(r, SubSeq(q, 1, i), "arr") <=> ArrayOf(v, SubSeq(q, 1, i), "arr")
    <2> TAKE i \in 0 .. Len(q) - 1
    <2>1. PICK j \in 0 .. Len(q) : j # 0 /\ i = j - 1 /\ i \in 0 .. Len(q)
      <3>1. i + 1 \in 0 .. Len(q) /\ i + 1 # 0 /\ i = i + 1 - 1 /\ i \in 0 .. Len(q)
        BY <1>1
      <3> QED
        BY <3>1
    <2>2. PICK p : p = SubSeq(q, 1, i)
      OBVIOUS
    <2>3. p \in DOMAIN r /\ SubSeq(q, 1, j) \in DOMAIN r
      BY <2>1, <2>2 DEF Pruned, IsTree
    <2>4. SubSeq(q, 1, j) # <<>> /\ Front(SubSeq(q, 1, j)) = SubSeq(q, 1, j - 1)
      BY <1>1, <2>1, Beginnings, Zenon
    <2>5. SubSeq(q, 1, j) \in Children(r, p)
      BY <2>1, <2>2, <2>3, <2>4, Zenon DEF Children
    <2>6. Children(r, p) # {}
      BY <2>5
    <2> QED
      BY <2>2, <2>3, <2>6, JudgedAlike
  <1>3. ASSUME q \notin rowContainers(v) \/ Children(r, q) # {}, NEW t
        PROVE  ArrayOf(r, q, t) <=> ArrayOf(v, q, t)
    BY <1>3, JudgedAlike
  <1>4. ASSUME NEW t PROVE ArrayOf(v, q, t) => ArrayOf(r, q, t)
    BY JudgedAlike
  <1>5. ASSUME q \in rowContainers(v) PROVE q \in rowContainers(r)
    BY <1>2, <1>4, <1>5, RowContainer
  <1>6. ASSUME q \notin rowContainers(v), q \in rowContainers(r) PROVE FALSE
    BY <1>1, <1>2, <1>3, <1>6, RowContainer
  <1> QED
    BY <1>5, <1>6

-----------------------------------------------------------------------------
(* Dropping the end of a list.                                             *)

(* A list of n elements, with nothing left in the lists beneath it, loses  *)
(* its last b.                                                             *)
Shortens(v, r, l, n, b) ==
    /\ IsTree(v) /\ Pruned(r, v)
    /\ l \in rowContainers(v) /\ l # <<>>
    /\ n \in Nat /\ b \in 1 .. n
    /\ Children(r, l) = {Append(l, Idx(i)) : i \in 1 .. n}
    /\ \A m \in rowContainers(v) : IsStrictPrefix(l, m) => Children(r, m) = {}

LEMMA Dropped ==
    ASSUME NEW v, NEW r, NEW l, NEW n, NEW b, Shortens(v, r, l, n, b)
    PROVE  /\ l \in Paths /\ DOMAIN drop(r, l, b) \subseteq DOMAIN r
           /\ \A p \in DOMAIN r : p \in DOMAIN drop(r, l, b)
                <=> (IsStrictPrefix(l, p) => p[Len(l) + 1].idx <= n - b)
           /\ \A p \in DOMAIN drop(r, l, b) : drop(r, l, b)[p] = r[p]
  <1> USE DEF Shortens
  <1>1. l \in Paths
    BY DEF rowContainers, IsTree
  <1>2. Cardinality(Children(r, l)) = n
    <2>1. 0 \in Nat /\ n \in Nat
      OBVIOUS
    <2>2. Cardinality({Append(l, Idx(i)) : i \in 0 + 1 .. n}) = IF 0 < n THEN n - 0 ELSE 0
      BY <1>1, <2>1, Elements
    <2>3. 0 + 1 = 1 /\ (IF 0 < n THEN n - 0 ELSE 0) = n
      OBVIOUS
    <2> QED
      BY <2>2, <2>3
  <1> DEFINE K == {p \in DOMAIN r : IsStrictPrefix(l, p) => p[Len(l) + 1].idx <= n - b}
  <1>3. drop(r, l, b) = Restrict(r, K)
    BY <1>2 DEF drop
  <1>4. DOMAIN Restrict(r, K) = K /\ Restrict(r, K) = [p \in K |-> r[p]]
    BY DEF Restrict
  <1> QED
    BY <1>1, <1>3, <1>4

(* What is in the list goes with the element it is in; every other node    *)
(* keeps its children.                                                     *)
LEMMA DropKeeps ==
    ASSUME NEW v, NEW r, NEW l, NEW n, NEW b, Shortens(v, r, l, n, b),
           NEW e \in DOMAIN r, e # <<>>, Front(e) \in DOMAIN drop(r, l, b), Front(e) # l
    PROVE  e \in DOMAIN drop(r, l, b)
  <1> DEFINE d == drop(r, l, b)
  <1>1. /\ l \in Paths /\ DOMAIN d \subseteq DOMAIN r
        /\ \A p \in DOMAIN r : p \in DOMAIN d <=> (IsStrictPrefix(l, p) => p[Len(l) + 1].idx <= n - b)
    BY Dropped, Zenon
  <1>2. e \in Paths
    BY DEF Shortens, Pruned, IsTree
  <1> HIDE DEF d
  <1>3. Front(e) \in DOMAIN d
    BY DEF d
  <1>4. IsStrictPrefix(l, e) => IsStrictPrefix(l, Front(e)) /\ e[Len(l) + 1] = Front(e)[Len(l) + 1]
    BY <1>1, <1>2, Between
  <1>5. IsStrictPrefix(l, Front(e)) => Front(e)[Len(l) + 1].idx <= n - b
    BY <1>1, <1>3
  <1>6. e \in DOMAIN d
    BY <1>1, <1>4, <1>5
  <1> QED
    BY <1>6 DEF d

LEMMA DropElements ==
    ASSUME NEW v, NEW r, NEW l, NEW n, NEW b, Shortens(v, r, l, n, b)
    PROVE  /\ l \in DOMAIN drop(r, l, b)
           /\ Children(drop(r, l, b), l) = {Append(l, Idx(i)) : i \in 1 .. n - b}
  <1> DEFINE d == drop(r, l, b)
  <1>1. /\ l \in Paths /\ DOMAIN d \subseteq DOMAIN r
        /\ \A p \in DOMAIN r : p \in DOMAIN d <=> (IsStrictPrefix(l, p) => p[Len(l) + 1].idx <= n - b)
    BY Dropped, Zenon
  <1>2. n \in Nat /\ b \in 1 .. n /\ Children(r, l) = {Append(l, Idx(i)) : i \in 1 .. n}
    BY DEF Shortens
  <1> HIDE DEF d
  <1>3. l \in DOMAIN r
    <2>1. 1 \in 1 .. n
      BY <1>2
    <2>2. Append(l, Idx(1)) \in Children(r, l)
      BY <1>2, <2>1
    <2>3. Append(l, Idx(1)) \in DOMAIN r /\ Append(l, Idx(1)) # <<>> /\ Front(Append(l, Idx(1))) = l
      BY <2>2 DEF Children
    <2> QED
      BY <2>3, FrontInTree DEF Shortens, Pruned
  <1>4. l \in DOMAIN d
    <2>1. ~IsStrictPrefix(l, l)
      BY DEF IsStrictPrefix
    <2> QED
      BY <1>1, <1>3, <2>1
  <1>5. ASSUME NEW i \in 1 .. n
        PROVE  Append(l, Idx(i)) \in DOMAIN d <=> i \in 1 .. n - b
    <2>1. i \in Nat
      OBVIOUS
    <2>2. PICK a \in Paths : a = Append(l, Idx(i)) /\ a # <<>> /\ Front(a) = l /\ Last(a) = Idx(i)
      BY <1>1, <2>1, Appended, StepTypes
    <2>3. a \in DOMAIN r
      BY <1>2, <2>2 DEF Children
    <2>4. IsStrictPrefix(l, a) /\ a[Len(l) + 1] = Idx(i)
      BY <1>1, <2>2, Between
    <2>5. a[Len(l) + 1].idx = i
      BY <2>1, <2>4, StepTypes
    <2>6. a \in DOMAIN d <=> i <= n - b
      BY <1>1, <2>3, <2>4, <2>5
    <2> QED
      BY <1>2, <2>2, <2>6
  <1>6. Children(d, l) = {e \in Children(r, l) : e \in DOMAIN d}
    BY <1>1 DEF Children
  <1>7. \A i \in 1 .. n - b : i \in 1 .. n
    BY <1>2
  <1>8. Children(d, l) = {Append(l, Idx(i)) : i \in 1 .. n - b}
    BY <1>2, <1>5, <1>6, <1>7
  <1> QED
    BY <1>4, <1>8 DEF d

LEMMA DropPrunes ==
    ASSUME NEW v, NEW r, NEW l, NEW n, NEW b, Shortens(v, r, l, n, b)
    PROVE  Pruned(drop(r, l, b), v)
  <1> DEFINE d == drop(r, l, b)
  <1>1. /\ l \in Paths /\ DOMAIN d \subseteq DOMAIN r
        /\ \A p \in DOMAIN d : d[p] = r[p]
        /\ \A p \in DOMAIN r : p \in DOMAIN d <=> (IsStrictPrefix(l, p) => p[Len(l) + 1].idx <= n - b)
    BY Dropped
  <1>2. /\ n \in Nat /\ b \in 1 .. n /\ IsTree(v) /\ Pruned(r, v) /\ IsTree(r)
        /\ l \in rowContainers(v)
    BY DEF Shortens, Pruned
  <1>3. ASSUME NEW e \in DOMAIN r, e # <<>>, Front(e) \in DOMAIN d, Front(e) # l
        PROVE  e \in DOMAIN d
    BY <1>3, DropKeeps
  <1>4. l \in DOMAIN d /\ Children(d, l) = {Append(l, Idx(i)) : i \in 1 .. n - b}
    BY DropElements
  <1> HIDE DEF d
  <1>5. DOMAIN d \subseteq DOMAIN v /\ \A p \in DOMAIN d : d[p] = v[p]
    BY <1>1, <1>2 DEF Pruned
  <1>6. IsTree(d)
    <2>2. IsFiniteSet(DOMAIN d)
      BY <1>1, <1>2, FS_Subset DEF IsTree
    <2>3. DOMAIN d \subseteq Paths
      BY <1>1, <1>2 DEF IsTree
    <2>4. ASSUME NEW p \in DOMAIN d, NEW i \in 0 .. Len(p) PROVE SubSeq(p, 1, i) \in DOMAIN d
      <3>1. p \in Paths /\ SubSeq(p, 1, i) \in DOMAIN r
        BY <1>1, <1>2, <2>3 DEF IsTree
      <3>2. PICK a \in Paths : a = SubSeq(p, 1, i)
        BY <3>1, Beginnings
      <3>3. Len(a) = i /\ \A j \in 1 .. i : a[j] = p[j]
        BY <3>1, <3>2, Beginnings
      <3>4. ASSUME IsStrictPrefix(l, a) PROVE a[Len(l) + 1].idx <= n - b
        <4>1. Len(l) \in Nat /\ Len(p) \in Nat
          BY <1>1, <3>1 DEF Paths
        <4>2. Len(l) < Len(a) /\ \A j \in 1 .. Len(l) : l[j] = a[j]
          BY <1>1, <3>4, StrictPrefix
        <4>3. Len(l) < Len(p) /\ \A j \in 1 .. Len(l) : l[j] = p[j]
          BY <3>3, <4>1, <4>2
        <4>4. IsStrictPrefix(l, p)
          BY <1>1, <3>1, <4>3, StrictPrefix
        <4>5. p[Len(l) + 1].idx <= n - b
          BY <1>1, <4>4
        <4>6. Len(l) + 1 \in 1 .. i
          BY <3>3, <4>1, <4>2
        <4> QED
          BY <3>3, <4>5, <4>6
      <3> QED
        BY <1>1, <3>1, <3>2, <3>4
    <2>5. <<>> \in DOMAIN d
      <3>1. 0 \in 0 .. Len(l)
        BY <1>1 DEF Paths
      <3>2. SubSeq(l, 1, 0) = <<>>
        BY <1>1, <3>1, Beginnings
      <3> QED
        BY <1>4, <2>4, <3>1, <3>2
    <2>6. ASSUME NEW q \in DOMAIN d, d[q].t = "arr"
          PROVE  \E m \in Nat : Children(d, q) = {Append(q, Idx(i)) : i \in 1 .. m}
      <3>1. CASE q = l
        <4>1. n - b \in Nat
          BY <1>2
        <4> QED
          BY <1>4, <3>1, <4>1
      <3>2. CASE q # l
        <4>1. Children(d, q) = Children(r, q)
          BY <1>1, <1>3, <2>6, <3>2 DEF Children
        <4>2. r[q].t = "arr" /\ q \in DOMAIN r
          BY <1>1, <2>6
        <4> QED
          BY <1>2, <4>1, <4>2 DEF IsTree
      <3> QED
        BY <3>1, <3>2
    <2> QED
      BY <2>2, <2>3, <2>4, <2>5, <2>6 DEF IsTree
  <1>7. ASSUME NEW q \in DOMAIN v, \A m \in rowContainers(v) : ~IsStrictPrefix(m, q)
        PROVE  q \in DOMAIN d
    BY <1>1, <1>2, <1>7 DEF Pruned
  <1>8. ASSUME NEW e \in DOMAIN v, e # <<>>, Front(e) \in DOMAIN d, Front(e) \notin rowContainers(v)
        PROVE  e \in DOMAIN d
    <2>1. e \in DOMAIN r
      BY <1>1, <1>2, <1>8 DEF Pruned
    <2> QED
      BY <1>2, <1>3, <1>8, <2>1
  <1>9. Pruned(d, v)
    BY <1>5, <1>6, <1>7, <1>8 DEF Pruned
  <1> QED
    BY <1>9 DEF d

(* A batch costs as many rows as it has elements, no matter what is in     *)
(* them: the rows they had went before.                                    *)
LEMMA DropCounts ==
    ASSUME NEW v, NEW r, NEW l, NEW n, NEW b, Shortens(v, r, l, n, b)
    PROVE  Droppable(r) \in Nat /\ Droppable(drop(r, l, b)) = Droppable(r) - b
  <1> DEFINE d == drop(r, l, b)
             C == {Append(l, Idx(i)) : i \in (n - b) + 1 .. n}
  <1>1. /\ l \in Paths /\ DOMAIN d \subseteq DOMAIN r
        /\ \A p \in DOMAIN r : p \in DOMAIN d <=> (IsStrictPrefix(l, p) => p[Len(l) + 1].idx <= n - b)
    BY Dropped, Zenon
  <1>2. /\ n \in Nat /\ b \in 1 .. n /\ n - b \in Nat /\ IsTree(v) /\ Pruned(r, v) /\ IsTree(r)
        /\ l \in rowContainers(v)
        /\ Children(r, l) = {Append(l, Idx(i)) : i \in 1 .. n}
        /\ \A m \in rowContainers(v) : IsStrictPrefix(l, m) => Children(r, m) = {}
    BY DEF Shortens, Pruned
  <1>3. l \in DOMAIN d /\ Children(d, l) = {Append(l, Idx(i)) : i \in 1 .. n - b} /\ Pruned(d, v) /\ IsTree(d)
    BY DropElements, DropPrunes DEF Pruned
  <1>4. ASSUME NEW e \in DOMAIN r, e # <<>>, Front(e) \in DOMAIN d, Front(e) # l
        PROVE  e \in DOMAIN d
    BY <1>4, DropKeeps
  <1> HIDE DEF d
  <1>5. \A e : e \in RowsOf(r) <=> e \in DOMAIN r /\ e # <<>> /\ Front(e) \in rowContainers(v)
    BY <1>2, ListsOfPruned, FrontInTree DEF RowsOf
  <1>6. \A e : e \in RowsOf(d) <=> e \in DOMAIN d /\ e # <<>> /\ Front(e) \in rowContainers(v)
    BY <1>2, <1>3, ListsOfPruned, FrontInTree DEF RowsOf
  <1>7. \A i \in 1 .. n : Append(l, Idx(i)) \in DOMAIN d <=> i \in 1 .. n - b
    <2> TAKE i \in 1 .. n
    <2>1. Append(l, Idx(i)) \in DOMAIN r /\ Append(l, Idx(i)) # <<>> /\ Front(Append(l, Idx(i))) = l
      BY <1>2 DEF Children
    <2>2. Append(l, Idx(i)) \in DOMAIN d <=> Append(l, Idx(i)) \in Children(d, l)
      BY <2>1 DEF Children
    <2>3. \A j \in 1 .. n - b : Append(l, Idx(i)) = Append(l, Idx(j)) => i = j
      BY <1>1, <1>2, Appended, StepTypes, IdxInjective
    <2> QED
      BY <1>3, <2>2, <2>3
  <1>8. C \subseteq RowsOf(r) /\ C \cap RowsOf(d) = {}
    <2> SUFFICES ASSUME NEW i \in (n - b) + 1 .. n
                 PROVE  Append(l, Idx(i)) \in RowsOf(r) /\ Append(l, Idx(i)) \notin RowsOf(d)
      OBVIOUS
    <2>1. i \in 1 .. n /\ i \notin 1 .. n - b
      BY <1>2
    <2>2. Append(l, Idx(i)) \in DOMAIN r /\ Append(l, Idx(i)) # <<>> /\ Front(Append(l, Idx(i))) = l
      BY <1>2, <2>1 DEF Children
    <2> QED
      BY <1>2, <1>5, <1>6, <1>7, <2>1, <2>2
  <1>9. RowsOf(d) \subseteq RowsOf(r)
    BY <1>1, <1>5, <1>6
  <1>10. ASSUME NEW e \in RowsOf(r), e \notin RowsOf(d) PROVE e \in C
    <2>1. e \in DOMAIN r /\ e # <<>> /\ Front(e) \in rowContainers(v) /\ e \notin DOMAIN d
      BY <1>5, <1>6, <1>10
    <2>2. e \in Paths
      BY <1>2, <2>1 DEF IsTree
    <2>3. IsStrictPrefix(l, e)
      BY <1>1, <2>1
    <2>4. CASE l = Front(e)
      <3>1. PICK i \in 1 .. n : e = Append(l, Idx(i))
        BY <1>2, <2>1, <2>4 DEF Children
      <3>2. i \notin 1 .. n - b
        BY <1>7, <2>1, <3>1
      <3>3. i \in (n - b) + 1 .. n
        BY <1>2, <3>2
      <3> QED
        BY <3>1, <3>3
    <2>5. CASE IsStrictPrefix(l, Front(e))
      <3>1. Children(r, Front(e)) = {}
        BY <1>2, <2>1, <2>5
      <3>2. e \in Children(r, Front(e))
        BY <2>1 DEF Children
      <3> QED
        BY <3>1, <3>2
    <2> QED
      BY <1>1, <2>1, <2>2, <2>3, <2>4, <2>5, Between
  <1>11. IsFiniteSet(C) /\ Cardinality(C) = b
    <2>1. IsFiniteSet(C) /\ Cardinality(C) = IF n - b < n THEN n - (n - b) ELSE 0
      BY <1>1, <1>2, Elements
    <2>2. (IF n - b < n THEN n - (n - b) ELSE 0) = b
      BY <1>2
    <2> QED
      BY <2>1, <2>2
  <1> HIDE DEF C
  <1>12. RowsOf(r) = RowsOf(d) \cup C /\ RowsOf(d) \cap C = {}
    BY <1>8, <1>9, <1>10
  <1>13. RowsOf(r) \subseteq DOMAIN r /\ RowsOf(d) \subseteq DOMAIN r /\ IsFiniteSet(DOMAIN r)
    BY <1>2, <1>5, <1>9 DEF IsTree
  <1>14. IsFiniteSet(RowsOf(r)) /\ IsFiniteSet(RowsOf(d))
    BY <1>13, FS_Subset
  <1>15. Cardinality(RowsOf(r)) = Cardinality(RowsOf(d)) + Cardinality(C) - Cardinality({})
    BY <1>11, <1>12, <1>14, FS_Union
  <1>16. Cardinality(RowsOf(r)) \in Nat /\ Cardinality(RowsOf(d)) \in Nat /\ Cardinality({}) = 0
    BY <1>14, FS_CardinalityType, FS_EmptySet
  <1>17. Droppable(r) \in Nat /\ Droppable(d) = Droppable(r) - b
    BY <1>2, <1>11, <1>15, <1>16 DEF Droppable
  <1> QED
    BY <1>17 DEF d

-----------------------------------------------------------------------------
(* Finite sets.                                                            *)

(* What a finite set is mapped to is finite.                               *)
LEMMA ImageFinite ==
    ASSUME NEW S, IsFiniteSet(S), NEW f, DOMAIN f = S
    PROVE  \A T : (\A y \in T : \E x \in S : f[x] = y) => IsFiniteSet(T)
  <1> DEFINE g == [x \in S |-> f[x]]
             U == {g[x] : x \in S}
  <1>1. g \in Surjection(S, U)
    BY DEF Surjection
  <1>3. IsFiniteSet(U)
    <2> HIDE DEF U, g
    <2> QED
      BY <1>1, FS_Surjection
  <1> SUFFICES ASSUME NEW T, \A y \in T : \E x \in S : f[x] = y
               PROVE  IsFiniteSet(T)
    OBVIOUS
  <1>4. T \subseteq U
    OBVIOUS
  <1> HIDE DEF U, g
  <1> QED
    BY <1>3, <1>4, FS_Subset

(* And so is what all of these have together.                              *)
LEMMA UnionFinite ==
    ASSUME NEW S, IsFiniteSet(S), NEW F, DOMAIN F = S, \A x \in S : IsFiniteSet(F[x])
    PROVE  \A T : (\A y \in T : \E x \in S : y \in F[x]) => IsFiniteSet(T)
  <1> DEFINE U == {F[x] : x \in S}
  <1>1. IsFiniteSet(U)
    <2>1. \A y \in U : \E x \in S : F[x] = y
      OBVIOUS
    <2> HIDE DEF U
    <2> QED
      BY <2>1, ImageFinite
  <1>2. \A X \in U : IsFiniteSet(X)
    OBVIOUS
  <1>3. IsFiniteSet(UNION U)
    <2> HIDE DEF U
    <2> QED
      BY <1>1, <1>2, FS_UNION
  <1> SUFFICES ASSUME NEW T, \A y \in T : \E x \in S : y \in F[x]
               PROVE  IsFiniteSet(T)
    OBVIOUS
  <1>4. T \subseteq UNION U
    OBVIOUS
  <1> HIDE DEF U
  <1> QED
    BY <1>3, <1>4, FS_Subset

LEMMA SmallSets ==
    \A x, y, z : IsFiniteSet({x, y, z})
  <1> TAKE x, y, z
  <1>1. IsFiniteSet({x})
    BY FS_Singleton
  <1>2. IsFiniteSet({x} \cup {y})
    BY <1>1, FS_AddElement
  <1>3. IsFiniteSet(({x} \cup {y}) \cup {z})
    BY <1>2, FS_AddElement
  <1>4. ({x} \cup {y}) \cup {z} = {x, y, z}
    OBVIOUS
  <1> QED
    BY <1>3, <1>4

(* The members of a finite set in some order.                              *)
LEMMA Enumerated ==
    ASSUME NEW S, IsFiniteSet(S)
    PROVE  /\ Cardinality(S) \in Nat
           /\ DOMAIN SetToSeq(S) = 1 .. Cardinality(S)
  <1>1. Cardinality(S) \in Nat /\ ExistsBijection(1 .. Cardinality(S), S)
    BY FS_CardinalityType
  <1>2. PICK f \in Bijection(1 .. Cardinality(S), S) : TRUE
    BY <1>1 DEF ExistsBijection
  <1>3. f \in [1 .. Cardinality(S) -> S] /\ IsInjective(f)
    BY <1>2 DEF Bijection, Injection, IsInjective
  <1>4. SetToSeq(S) \in [1 .. Cardinality(S) -> S]
    BY <1>3 DEF SetToSeq
  <1> QED
    BY <1>1, <1>4

-----------------------------------------------------------------------------
(* The payload of a lookup.                                                *)

CalleesAt == <<Key("callees_total")>>
CallersAt == <<Key("callers_total")>>
GroupsAt == <<Key("groups")>>
GroupAt(i) == Append(GroupsAt, Idx(i))
QualifierAt(i) == Append(GroupAt(i), Key("qualifier"))
RowsAt(i) == Append(GroupAt(i), Key("rows"))
RowAt(i, j) == Append(RowsAt(i), Idx(j))
ColumnAt(i, j, c) == Append(RowAt(i, j), Idx(c))

ObjectsIn(rows) == {<<>>} \cup {GroupAt(i) : i \in DOMAIN rows}
ArraysIn(rows) ==
    {GroupsAt} \cup {RowsAt(i) : i \in DOMAIN rows}
        \cup UNION {{RowAt(i, j) : j \in 1 .. rows[i]} : i \in DOMAIN rows}
TextsIn(rows) ==
    {QualifierAt(i) : i \in DOMAIN rows}
        \cup UNION {{ColumnAt(i, j, c) : j \in 1 .. rows[i], c \in 1 .. 2} : i \in DOMAIN rows}

(* The nodes of a table with such rows.                                    *)
Placed(p, rows) ==
    \/ p \in {<<>>, GroupsAt, CalleesAt, CallersAt}
    \/ \E i \in DOMAIN rows : p \in {GroupAt(i), QualifierAt(i), RowsAt(i)}
    \/ \E i \in DOMAIN rows : \E j \in 1 .. rows[i] : p = RowAt(i, j)
    \/ \E i \in DOMAIN rows : \E j \in 1 .. rows[i] : \E c \in 1 .. 2 : p = ColumnAt(i, j, c)

(* So many rows in each group.                                             *)
Rowed(rows) == DOMAIN rows \subseteq Nat /\ \A i \in DOMAIN rows : rows[i] \in Nat

LEMMA OneStep ==
    ASSUME NEW s \in Steps
    PROVE  /\ <<s>> \in Paths /\ Len(<<s>>) = 1 /\ <<s>> # <<>>
           /\ Front(<<s>>) = <<>> /\ Last(<<s>>) = s /\ <<s>>[1] = s
  <1>1. <<>> \in Paths /\ Len(<<>>) = 0
    BY DEF Paths
  <1>2. Append(<<>>, s) = <<s>>
    OBVIOUS
  <1>3. /\ Append(<<>>, s) \in Paths /\ Append(<<>>, s) # <<>>
        /\ Front(Append(<<>>, s)) = <<>> /\ Last(Append(<<>>, s)) = s
    BY <1>1, Appended
  <1>4. Len(<<s>>) = 1 /\ <<s>>[1] = s
    OBVIOUS
  <1> QED
    BY <1>2, <1>3, <1>4, Zenon

LEMMA KeysDiffer ==
    /\ {Key("callees_total"), Key("callers_total"), Key("groups"), Key("qualifier"), Key("rows")} \subseteq Steps
    /\ Key("callees_total") # Key("callers_total") /\ Key("groups") # Key("callees_total")
    /\ Key("groups") # Key("callers_total") /\ Key("qualifier") # Key("rows")
    /\ Key("groups") # Key("rows") /\ Key("callees_total") # Key("rows") /\ Key("callers_total") # Key("rows")
  <1>1. {Key("callees_total"), Key("callers_total"), Key("groups"), Key("qualifier"), Key("rows")} \subseteq Steps
    <2>1. /\ Key("callees_total") \in Steps /\ Key("callers_total") \in Steps /\ Key("groups") \in Steps
          /\ Key("qualifier") \in Steps /\ Key("rows") \in Steps
      <3>1. /\ "callees_total" \in Range(KeyOrder) /\ "callers_total" \in Range(KeyOrder)
            /\ "groups" \in Range(KeyOrder) /\ "qualifier" \in Range(KeyOrder)
            /\ "rows" \in Range(KeyOrder)
        BY PayloadAssumption
      <3> QED
        BY <3>1, StepTypes, Zenon
    <2> QED
      BY <2>1
  <1>2. /\ Key("callees_total") # Key("callers_total") /\ Key("groups") # Key("callees_total")
        /\ Key("groups") # Key("callers_total") /\ Key("qualifier") # Key("rows")
        /\ Key("groups") # Key("rows") /\ Key("callees_total") # Key("rows") /\ Key("callers_total") # Key("rows")
    BY DEF Key
  <1> QED
    BY <1>1, <1>2

LEMMA Places ==
    /\ GroupsAt \in Paths /\ Len(GroupsAt) = 1 /\ Front(GroupsAt) = <<>> /\ Last(GroupsAt) = Key("groups")
    /\ CalleesAt \in Paths /\ Len(CalleesAt) = 1 /\ Front(CalleesAt) = <<>> /\ Last(CalleesAt) = Key("callees_total")
    /\ CallersAt \in Paths /\ Len(CallersAt) = 1 /\ Front(CallersAt) = <<>> /\ Last(CallersAt) = Key("callers_total")
    /\ \A i \in Nat :
        /\ GroupAt(i) \in Paths /\ Len(GroupAt(i)) = 2 /\ Front(GroupAt(i)) = GroupsAt /\ Last(GroupAt(i)) = Idx(i)
        /\ QualifierAt(i) \in Paths /\ Len(QualifierAt(i)) = 3
        /\ Front(QualifierAt(i)) = GroupAt(i) /\ Last(QualifierAt(i)) = Key("qualifier")
        /\ RowsAt(i) \in Paths /\ Len(RowsAt(i)) = 3
        /\ Front(RowsAt(i)) = GroupAt(i) /\ Last(RowsAt(i)) = Key("rows")
    /\ \A i, j \in Nat :
        /\ RowAt(i, j) \in Paths /\ Len(RowAt(i, j)) = 4
        /\ Front(RowAt(i, j)) = RowsAt(i) /\ Last(RowAt(i, j)) = Idx(j)
    /\ \A i, j, c \in Nat :
        /\ ColumnAt(i, j, c) \in Paths /\ Len(ColumnAt(i, j, c)) = 5
        /\ Front(ColumnAt(i, j, c)) = RowAt(i, j) /\ Last(ColumnAt(i, j, c)) = Idx(c)
  <1>1. /\ GroupsAt \in Paths /\ Len(GroupsAt) = 1 /\ Front(GroupsAt) = <<>> /\ Last(GroupsAt) = Key("groups")
        /\ CalleesAt \in Paths /\ Len(CalleesAt) = 1 /\ Front(CalleesAt) = <<>> /\ Last(CalleesAt) = Key("callees_total")
        /\ CallersAt \in Paths /\ Len(CallersAt) = 1 /\ Front(CallersAt) = <<>> /\ Last(CallersAt) = Key("callers_total")
    BY OneStep, KeysDiffer, Zenon DEF GroupsAt, CalleesAt, CallersAt
  <1>2. ASSUME NEW i \in Nat
        PROVE  /\ GroupAt(i) \in Paths /\ Len(GroupAt(i)) = Len(GroupsAt) + 1
               /\ Front(GroupAt(i)) = GroupsAt /\ Last(GroupAt(i)) = Idx(i)
    BY <1>1, Appended, StepTypes, Zenon DEF GroupAt
  <1>3. ASSUME NEW i \in Nat
        PROVE  /\ QualifierAt(i) \in Paths /\ Len(QualifierAt(i)) = Len(GroupAt(i)) + 1
               /\ Front(QualifierAt(i)) = GroupAt(i) /\ Last(QualifierAt(i)) = Key("qualifier")
               /\ RowsAt(i) \in Paths /\ Len(RowsAt(i)) = Len(GroupAt(i)) + 1
               /\ Front(RowsAt(i)) = GroupAt(i) /\ Last(RowsAt(i)) = Key("rows")
    <2>1. GroupAt(i) \in Paths
      BY <1>2
    <2>2. Key("qualifier") \in Steps /\ Key("rows") \in Steps
      BY KeysDiffer
    <2> QED
      BY <2>1, <2>2, Appended, Zenon DEF QualifierAt, RowsAt
  <1>4. ASSUME NEW i \in Nat, NEW j \in Nat
        PROVE  /\ RowAt(i, j) \in Paths /\ Len(RowAt(i, j)) = Len(RowsAt(i)) + 1
               /\ Front(RowAt(i, j)) = RowsAt(i) /\ Last(RowAt(i, j)) = Idx(j)
    BY <1>3, Appended, StepTypes, Zenon DEF RowAt
  <1>5. ASSUME NEW i \in Nat, NEW j \in Nat, NEW c \in Nat
        PROVE  /\ ColumnAt(i, j, c) \in Paths /\ Len(ColumnAt(i, j, c)) = Len(RowAt(i, j)) + 1
               /\ Front(ColumnAt(i, j, c)) = RowAt(i, j) /\ Last(ColumnAt(i, j, c)) = Idx(c)
    BY <1>4, Appended, StepTypes, Zenon DEF ColumnAt
  <1>6. 1 + 1 = 2 /\ 2 + 1 = 3 /\ 3 + 1 = 4 /\ 4 + 1 = 5
    OBVIOUS
  <1>7. \A i \in Nat : Len(GroupAt(i)) = 2
    BY <1>1, <1>2, <1>6, Zenon
  <1>8. \A i \in Nat : Len(QualifierAt(i)) = 3 /\ Len(RowsAt(i)) = 3
    BY <1>3, <1>6, <1>7, Zenon
  <1>9. \A i, j \in Nat : Len(RowAt(i, j)) = 4
    BY <1>4, <1>6, <1>8, Zenon
  <1>10. ASSUME NEW i \in Nat, NEW j \in Nat, NEW c \in Nat PROVE Len(ColumnAt(i, j, c)) = 5
    <2>1. Len(RowAt(i, j)) = 4 /\ Len(ColumnAt(i, j, c)) = Len(RowAt(i, j)) + 1
      BY <1>5, <1>9, Zenon
    <2> QED
      BY <2>1
  <1> QED
    BY <1>1, <1>2, <1>3, <1>4, <1>5, <1>7, <1>8, <1>9, <1>10, Zenon

LEMMA TableIs ==
    ASSUME NEW rows, NEW a, NEW b
    PROVE  Table(rows, a, b) =
            [p \in ObjectsIn(rows) \cup ArraysIn(rows) \cup TextsIn(rows) \cup {CalleesAt, CallersAt} |->
                CASE p \in ObjectsIn(rows) -> Node("obj", 0)
                  [] p \in ArraysIn(rows) -> Node("arr", 0)
                  [] p \in TextsIn(rows) -> Node("str", 0)
                  [] OTHER -> Node("num", IF p = CalleesAt THEN a ELSE b)]
  BY DEF Table, ObjectsIn, ArraysIn, TextsIn, CalleesAt, CallersAt, GroupsAt, GroupAt,
               QualifierAt, RowsAt, RowAt, ColumnAt

LEMMA TableNodes ==
    ASSUME NEW rows, NEW a, NEW b
    PROVE  \A p : p \in DOMAIN Table(rows, a, b) <=> Placed(p, rows)
  <1>1. DOMAIN Table(rows, a, b) =
            ObjectsIn(rows) \cup ArraysIn(rows) \cup TextsIn(rows) \cup {CalleesAt, CallersAt}
    BY TableIs, Zenon
  <1> TAKE p
  <1>2. p \in UNION {{RowAt(i, j) : j \in 1 .. rows[i]} : i \in DOMAIN rows}
            <=> \E i \in DOMAIN rows : \E j \in 1 .. rows[i] : p = RowAt(i, j)
    OBVIOUS
  <1>3. p \in UNION {{ColumnAt(i, j, c) : j \in 1 .. rows[i], c \in 1 .. 2} : i \in DOMAIN rows}
            <=> \E i \in DOMAIN rows : \E j \in 1 .. rows[i] : \E c \in 1 .. 2 : p = ColumnAt(i, j, c)
    OBVIOUS
  <1>4. p \in ObjectsIn(rows) <=> p = <<>> \/ \E i \in DOMAIN rows : p = GroupAt(i)
    BY DEF ObjectsIn
  <1>5. p \in ArraysIn(rows) <=> \/ p = GroupsAt
                                 \/ \E i \in DOMAIN rows : p = RowsAt(i)
                                 \/ \E i \in DOMAIN rows : \E j \in 1 .. rows[i] : p = RowAt(i, j)
    BY <1>2 DEF ArraysIn
  <1>6. p \in TextsIn(rows) <=> \/ \E i \in DOMAIN rows : p = QualifierAt(i)
                                \/ \E i \in DOMAIN rows : \E j \in 1 .. rows[i] : \E c \in 1 .. 2 : p = ColumnAt(i, j, c)
    BY <1>3 DEF TextsIn
  <1> QED
    BY <1>1, <1>4, <1>5, <1>6, Zenon DEF Placed

LEMMA TableValues ==
    ASSUME NEW rows, Rowed(rows), NEW a, NEW b
    PROVE  /\ Table(rows, a, b)[<<>>] = Node("obj", 0)
           /\ Table(rows, a, b)[CalleesAt] = Node("num", a)
           /\ Table(rows, a, b)[CallersAt] = Node("num", b)
           /\ \A p \in DOMAIN Table(rows, a, b) : Table(rows, a, b)[p].t = "arr" => p \in ArraysIn(rows)
  <1> DEFINE T == Table(rows, a, b)
             Value(p) == CASE p \in ObjectsIn(rows) -> Node("obj", 0)
                           [] p \in ArraysIn(rows) -> Node("arr", 0)
                           [] p \in TextsIn(rows) -> Node("str", 0)
                           [] OTHER -> Node("num", IF p = CalleesAt THEN a ELSE b)
  <1>1. \A i \in DOMAIN rows : i \in Nat /\ (\A j \in 1 .. rows[i] : j \in Nat)
    BY DEF Rowed
  <1>2. /\ \A p \in ObjectsIn(rows) : Len(p) \in {0, 2}
        /\ \A p \in ArraysIn(rows) : p = GroupsAt \/ Len(p) \in {3, 4}
        /\ \A p \in TextsIn(rows) : Len(p) \in {3, 5}
    <2>1. Len(<<>>) = 0
      OBVIOUS
    <2>2. ASSUME NEW p \in ObjectsIn(rows) PROVE Len(p) \in {0, 2}
      BY <1>1, <2>1, Places DEF ObjectsIn
    <2>3. ASSUME NEW p \in ArraysIn(rows) PROVE p = GroupsAt \/ Len(p) \in {3, 4}
      <3>1. \/ p = GroupsAt \/ \E i \in DOMAIN rows : p = RowsAt(i)
            \/ \E i \in DOMAIN rows : \E j \in 1 .. rows[i] : p = RowAt(i, j)
        BY <2>3 DEF ArraysIn
      <3> QED
        BY <1>1, <3>1, Places
    <2>4. ASSUME NEW p \in TextsIn(rows) PROVE Len(p) \in {3, 5}
      <3>1. \/ \E i \in DOMAIN rows : p = QualifierAt(i)
            \/ \E i \in DOMAIN rows : \E j \in 1 .. rows[i] : \E c \in 1 .. 2 : p = ColumnAt(i, j, c)
        BY <2>4 DEF TextsIn
      <3>2. \A c \in 1 .. 2 : c \in Nat
        OBVIOUS
      <3> QED
        BY <1>1, <3>1, <3>2, Places
    <2> QED
      BY <2>2, <2>3, <2>4
  <1>3. DOMAIN T = ObjectsIn(rows) \cup ArraysIn(rows) \cup TextsIn(rows) \cup {CalleesAt, CallersAt}
    BY TableIs, Zenon
  <1>4. \A p \in DOMAIN T : T[p] = Value(p)
    <2>1. \E D : T = [p \in D |-> Value(p)]
      BY TableIs, Zenon
    <2> HIDE DEF T, Value
    <2> QED
      BY <2>1
  <1>5. ASSUME NEW p \in ObjectsIn(rows) PROVE Value(p) = Node("obj", 0)
    <2>1. PICK n \in {0, 2} : n = Len(p)
      BY <1>2
    <2>2. Len(p) # Len(GroupsAt) /\ Len(p) \notin {3, 4} /\ Len(p) \notin {3, 5}
      <3>1. n # 1 /\ n \notin {3, 4} /\ n \notin {3, 5}
        OBVIOUS
      <3> QED
        BY <2>1, <3>1, Places, Zenon
    <2>3. p \notin ArraysIn(rows) /\ p \notin TextsIn(rows)
      BY <1>2, <2>2, Zenon
    <2> QED
      BY <1>5, <2>3
  <1>6. ASSUME NEW p \in {CalleesAt, CallersAt}
        PROVE  Value(p) = Node("num", IF p = CalleesAt THEN a ELSE b)
    <2>1. Len(p) = 1 /\ p # GroupsAt
      BY Places, KeysDiffer
    <2>2. Len(p) \notin {0, 2} /\ Len(p) \notin {3, 4} /\ Len(p) \notin {3, 5}
      <3>1. 1 \notin {0, 2} /\ 1 \notin {3, 4} /\ 1 \notin {3, 5}
        OBVIOUS
      <3> QED
        BY <2>1, <3>1, Zenon
    <2>3. p \notin ObjectsIn(rows) /\ p \notin ArraysIn(rows) /\ p \notin TextsIn(rows)
      BY <1>2, <2>1, <2>2, Zenon
    <2> QED
      BY <2>3
  <1>7. ASSUME NEW p \in DOMAIN T, Value(p).t = "arr" PROVE p \in ArraysIn(rows)
    <2>1. ASSUME NEW n PROVE Node("obj", n).t # "arr" /\ Node("str", n).t # "arr" /\ Node("num", n).t # "arr"
      BY DEF Node
    <2>2. p \notin ObjectsIn(rows)
      BY <1>5, <1>7, <2>1
    <2>3. p \notin {CalleesAt, CallersAt}
      <3> HIDE DEF Value
      <3> QED
        BY <1>6, <1>7, <2>1
    <2>4. p \in TextsIn(rows) /\ p \notin ArraysIn(rows) => Value(p) = Node("str", 0)
      BY <2>2
    <2> HIDE DEF Value
    <2> QED
      BY <1>3, <1>7, <2>1, <2>2, <2>3, <2>4
  <1>8. <<>> \in ObjectsIn(rows) /\ CalleesAt # CallersAt
    BY Places, KeysDiffer DEF ObjectsIn
  <1> HIDE DEF Value, T
  <1>9. T[<<>>] = Node("obj", 0) /\ T[CalleesAt] = Node("num", a) /\ T[CallersAt] = Node("num", b)
    BY <1>3, <1>4, <1>5, <1>6, <1>8
  <1>10. \A p \in DOMAIN T : T[p].t = "arr" => p \in ArraysIn(rows)
    BY <1>4, <1>7
  <1> QED
    BY <1>9, <1>10 DEF T

(* Whatever is in a table is in a node of it.                              *)
LEMMA TableFronts ==
    ASSUME NEW rows, Rowed(rows), NEW p, Placed(p, rows)
    PROVE  p \in Paths /\ Len(p) \in 0 .. 5 /\ (p # <<>> => Placed(Front(p), rows))
  <1>1. \A i \in DOMAIN rows : i \in Nat /\ (\A j \in 1 .. rows[i] : j \in Nat)
    BY DEF Rowed
  <1>2. CASE p = <<>>
    BY <1>2 DEF Paths
  <1>3. CASE p \in {GroupsAt, CalleesAt, CallersAt}
    BY <1>3, Places DEF Placed
  <1>4. ASSUME NEW i \in DOMAIN rows, p \in {GroupAt(i), QualifierAt(i), RowsAt(i)}
        PROVE  p \in Paths /\ Len(p) \in 0 .. 5 /\ Placed(Front(p), rows)
    <2>1. i \in Nat
      BY <1>1
    <2>2. p \in Paths /\ Len(p) \in {2, 3} /\ Front(p) \in {GroupsAt, GroupAt(i)}
      BY <1>4, <2>1, Places
    <2>3. Placed(Front(p), rows)
      BY <2>2 DEF Placed
    <2> QED
      BY <2>2, <2>3
  <1>5. ASSUME NEW i \in DOMAIN rows, NEW j \in 1 .. rows[i], p = RowAt(i, j)
        PROVE  p \in Paths /\ Len(p) \in 0 .. 5 /\ Placed(Front(p), rows)
    <2>1. i \in Nat /\ j \in Nat
      BY <1>1
    <2>2. p \in Paths /\ Len(p) = 4 /\ Front(p) = RowsAt(i)
      BY <1>5, <2>1, Places
    <2>3. Placed(Front(p), rows)
      BY <2>2 DEF Placed
    <2> QED
      BY <2>2, <2>3
  <1>6. ASSUME NEW i \in DOMAIN rows, NEW j \in 1 .. rows[i], NEW c \in 1 .. 2, p = ColumnAt(i, j, c)
        PROVE  p \in Paths /\ Len(p) \in 0 .. 5 /\ Placed(Front(p), rows)
    <2>1. i \in Nat /\ j \in Nat /\ c \in Nat
      BY <1>1
    <2>2. p \in Paths /\ Len(p) = 5 /\ Front(p) = RowAt(i, j)
      BY <1>6, <2>1, Places
    <2>3. Placed(Front(p), rows)
      BY <2>2 DEF Placed
    <2> QED
      BY <2>2, <2>3
  <1>7. \/ p = <<>> \/ p \in {GroupsAt, CalleesAt, CallersAt}
        \/ \E i \in DOMAIN rows : p \in {GroupAt(i), QualifierAt(i), RowsAt(i)}
        \/ \E i \in DOMAIN rows : \E j \in 1 .. rows[i] : p = RowAt(i, j)
        \/ \E i \in DOMAIN rows : \E j \in 1 .. rows[i] : \E c \in 1 .. 2 : p = ColumnAt(i, j, c)
    BY Zenon DEF Placed
  <1> QED
    BY <1>2, <1>3, <1>4, <1>5, <1>6, <1>7

LEMMA Downward ==
    ASSUME NEW n \in 0 .. 5, NEW I, n \in I, \A i \in 1 .. n : i \in I => i - 1 \in I
    PROVE  0 .. n \subseteq I
  <1>1. CASE n = 0
    BY <1>1
  <1>2. CASE n = 1
    BY <1>2
  <1>3. CASE n = 2
    BY <1>3
  <1>4. CASE n = 3
    BY <1>4
  <1>5. CASE n = 4
    BY <1>5
  <1>6. CASE n = 5
    BY <1>6
  <1> QED
    BY <1>1, <1>2, <1>3, <1>4, <1>5, <1>6

(* So is every beginning of a path, no path having more than five steps.   *)
LEMMA Descended ==
    ASSUME NEW D, \A p \in D : p \in Paths /\ (p # <<>> => Front(p) \in D),
           NEW p \in D, Len(p) \in 0 .. 5
    PROVE  \A i \in 0 .. Len(p) : SubSeq(p, 1, i) \in D
  <1>1. p \in Paths
    OBVIOUS
  <1>2. SubSeq(p, 1, Len(p)) = p
    BY <1>1 DEF Paths
  <1>3. ASSUME NEW i \in 0 .. Len(p), i # 0, SubSeq(p, 1, i) \in D
        PROVE  SubSeq(p, 1, i - 1) \in D
    <2>1. SubSeq(p, 1, i) # <<>> /\ Front(SubSeq(p, 1, i)) = SubSeq(p, 1, i - 1)
      BY <1>1, <1>3, Beginnings, Zenon
    <2> QED
      BY <1>3, <2>1
  <1> DEFINE I == {i \in 0 .. Len(p) : SubSeq(p, 1, i) \in D}
  <1>4. Len(p) \in I
    <2>1. Len(p) \in 0 .. Len(p)
      OBVIOUS
    <2> QED
      BY <1>2, <2>1
  <1>5. \A i \in 1 .. Len(p) : i \in I => i - 1 \in I
    <2> TAKE i \in 1 .. Len(p)
    <2>1. i \in 0 .. Len(p) /\ i # 0 /\ i - 1 \in 0 .. Len(p)
      OBVIOUS
    <2> QED
      BY <1>3, <2>1
  <1>6. 0 .. Len(p) \subseteq I
    <2> HIDE DEF I
    <2> QED
      BY <1>4, <1>5, Downward, Zenon
  <1> QED
    BY <1>6

LEMMA TableFinite ==
    ASSUME NEW rows, Rowed(rows), IsFiniteSet(DOMAIN rows), NEW a, NEW b
    PROVE  IsFiniteSet(DOMAIN Table(rows, a, b))
  <1> DEFINE Row(i) == [j \in 1 .. rows[i] |-> {RowAt(i, j), ColumnAt(i, j, 1), ColumnAt(i, j, 2)}]
             InRow(i) == {p \in DOMAIN Table(rows, a, b) : \E j \in DOMAIN Row(i) : p \in Row(i)[j]}
             Group == [i \in DOMAIN rows |-> {GroupAt(i), QualifierAt(i), RowsAt(i)} \cup InRow(i)]
             InGroup == {p \in DOMAIN Table(rows, a, b) : \E i \in DOMAIN Group : p \in Group[i]}
  <1>1. ASSUME NEW i \in DOMAIN rows PROVE IsFiniteSet(InRow(i))
    <2>1. IsFiniteSet(1 .. rows[i])
      BY FS_Interval DEF Rowed
    <2>2. PICK F : F = Row(i)
      OBVIOUS
    <2>3. DOMAIN F = 1 .. rows[i] /\ \A j \in 1 .. rows[i] : IsFiniteSet(F[j])
      BY <2>2, SmallSets
    <2>4. \A T : (\A y \in T : \E j \in 1 .. rows[i] : y \in F[j]) => IsFiniteSet(T)
      BY <2>1, <2>3, UnionFinite
    <2>5. \A y \in InRow(i) : \E j \in 1 .. rows[i] : y \in F[j]
      BY <2>2
    <2> HIDE DEF InRow
    <2> QED
      BY <2>4, <2>5
  <1>2. IsFiniteSet(InGroup)
    <2>1. ASSUME NEW i \in DOMAIN rows PROVE IsFiniteSet(Group[i])
      <3>1. IsFiniteSet({GroupAt(i), QualifierAt(i), RowsAt(i)})
        BY SmallSets
      <3>2. Group[i] = {GroupAt(i), QualifierAt(i), RowsAt(i)} \cup InRow(i)
        OBVIOUS
      <3> HIDE DEF Group, InRow
      <3> QED
        BY <1>1, <3>1, <3>2, FS_Union
    <2>2. DOMAIN Group = DOMAIN rows
      OBVIOUS
    <2>3. \A y \in InGroup : \E i \in DOMAIN rows : y \in Group[i]
      OBVIOUS
    <2> HIDE DEF Group, InGroup
    <2>4. \A T : (\A y \in T : \E i \in DOMAIN rows : y \in Group[i]) => IsFiniteSet(T)
      BY <2>1, <2>2, UnionFinite
    <2> QED
      BY <2>3, <2>4
  <1>3. \A p \in DOMAIN Table(rows, a, b) : p \in {<<>>, GroupsAt, CalleesAt} \/ p = CallersAt \/ p \in InGroup
    <2> SUFFICES ASSUME NEW p \in DOMAIN Table(rows, a, b) PROVE p \in {<<>>, GroupsAt, CalleesAt} \/ p = CallersAt \/ p \in InGroup
      OBVIOUS
    <2>1. ASSUME NEW i \in DOMAIN rows, p \in {GroupAt(i), QualifierAt(i), RowsAt(i)} \/ p \in InRow(i)
          PROVE  p \in InGroup
      <3> HIDE DEF InRow
      <3> QED
        BY <2>1
    <2>2. ASSUME NEW i \in DOMAIN rows, NEW j \in 1 .. rows[i],
                 p \in {RowAt(i, j), ColumnAt(i, j, 1), ColumnAt(i, j, 2)}
          PROVE  p \in InRow(i)
      BY <2>2
    <2>3. ASSUME NEW i \in DOMAIN rows, NEW j \in 1 .. rows[i], NEW c \in 1 .. 2, p = ColumnAt(i, j, c)
          PROVE  p \in {RowAt(i, j), ColumnAt(i, j, 1), ColumnAt(i, j, 2)}
      <3>1. c = 1 \/ c = 2
        OBVIOUS
      <3> QED
        BY <2>3, <3>1
    <2>4. Placed(p, rows)
      BY TableNodes
    <2> HIDE DEF InGroup, InRow
    <2>5. ASSUME NEW i \in DOMAIN rows, NEW j \in 1 .. rows[i], p = RowAt(i, j)
          PROVE  p \in InGroup
      BY <2>1, <2>2, <2>5
    <2>6. ASSUME NEW i \in DOMAIN rows, NEW j \in 1 .. rows[i], NEW c \in 1 .. 2, p = ColumnAt(i, j, c)
          PROVE  p \in InGroup
      BY <2>1, <2>2, <2>3, <2>6
    <2> QED
      BY <2>1, <2>4, <2>5, <2>6 DEF Placed
  <1>4. IsFiniteSet(({<<>>, GroupsAt, CalleesAt} \cup {CallersAt}) \cup InGroup)
    <2> HIDE DEF InGroup
    <2>1. IsFiniteSet({<<>>, GroupsAt, CalleesAt})
      BY SmallSets
    <2>2. IsFiniteSet({<<>>, GroupsAt, CalleesAt} \cup {CallersAt})
      BY <2>1, FS_AddElement
    <2> QED
      BY <1>2, <2>2, FS_Union
  <1>5. DOMAIN Table(rows, a, b) \subseteq ({<<>>, GroupsAt, CalleesAt} \cup {CallersAt}) \cup InGroup
    <2> HIDE DEF InGroup
    <2> QED
      BY <1>3
  <1> HIDE DEF InGroup
  <1> QED
    BY <1>4, <1>5, FS_Subset

(* Nodes at different depths are not the same.                             *)
LEMMA PlacesDiffer ==
    \A i, j, k, l \in Nat :
        /\ GroupsAt # <<>> /\ GroupAt(i) # <<>> /\ RowsAt(i) # <<>> /\ RowAt(i, j) # <<>>
        /\ GroupAt(i) # GroupsAt /\ RowsAt(i) # GroupsAt /\ RowAt(i, j) # GroupsAt
        /\ RowsAt(i) # GroupAt(k) /\ RowAt(i, j) # GroupAt(k) /\ RowAt(i, j) # RowsAt(k)
        /\ RowsAt(i) = RowsAt(k) => i = k
  <1>1. \A i, j \in Nat : /\ Len(GroupsAt) = 1 /\ Len(GroupAt(i)) = 2 /\ Len(RowsAt(i)) = 3
                          /\ Len(RowAt(i, j)) = 4
    BY Places, Zenon
  <1>2. Len(<<>>) = 0
    OBVIOUS
  <1>3. ASSUME NEW i \in Nat, NEW k \in Nat, RowsAt(i) = RowsAt(k) PROVE i = k
    <2>1. GroupAt(i) = GroupAt(k)
      BY <1>3, Places, Zenon
    <2>2. Idx(i) = Idx(k)
      BY <2>1, Places, Zenon
    <2> QED
      BY <2>2, IdxInjective
  <1>4. ASSUME NEW x, NEW y, Len(x) # Len(y) PROVE x # y
    BY <1>4
  <1> SUFFICES ASSUME NEW i \in Nat, NEW j \in Nat, NEW k \in Nat, NEW l \in Nat
               PROVE  /\ GroupsAt # <<>> /\ GroupAt(i) # <<>> /\ RowsAt(i) # <<>> /\ RowAt(i, j) # <<>>
                      /\ GroupAt(i) # GroupsAt /\ RowsAt(i) # GroupsAt /\ RowAt(i, j) # GroupsAt
                      /\ RowsAt(i) # GroupAt(k) /\ RowAt(i, j) # GroupAt(k) /\ RowAt(i, j) # RowsAt(k)
    BY <1>3, Zenon
  <1>5. /\ Len(GroupsAt) = 1 /\ Len(GroupAt(i)) = 2 /\ Len(RowsAt(i)) = 3 /\ Len(RowAt(i, j)) = 4
        /\ Len(GroupAt(k)) = 2 /\ Len(RowsAt(k)) = 3
    BY <1>1, Zenon
  <1>6. 0 # 1 /\ 0 # 2 /\ 0 # 3 /\ 0 # 4 /\ 1 # 2 /\ 1 # 3 /\ 1 # 4 /\ 2 # 3 /\ 2 # 4 /\ 3 # 4
    OBVIOUS
  <1> QED
    BY <1>2, <1>4, <1>5, <1>6, Zenon

(* What is in a table is under one of its nodes.                           *)
Parented(e, rows) ==
    \/ Front(e) = <<>>
    \/ \E i \in DOMAIN rows : Front(e) = GroupsAt /\ e = GroupAt(i)
    \/ \E i \in DOMAIN rows : Front(e) = GroupAt(i)
    \/ \E i \in DOMAIN rows : \E j \in 1 .. rows[i] : Front(e) = RowsAt(i) /\ e = RowAt(i, j)
    \/ \E i \in DOMAIN rows : \E j \in 1 .. rows[i] : \E c \in 1 .. 2 :
        Front(e) = RowAt(i, j) /\ e = ColumnAt(i, j, c)

LEMMA Under ==
    ASSUME NEW rows, Rowed(rows), NEW e, Placed(e, rows), e # <<>>
    PROVE  Parented(e, rows)
  <1>1. \A i \in DOMAIN rows : i \in Nat /\ (\A j \in 1 .. rows[i] : j \in Nat)
    BY DEF Rowed
  <1>2. \A c \in 1 .. 2 : c \in Nat
    OBVIOUS
  <1>3. ASSUME e \in {GroupsAt, CalleesAt, CallersAt} PROVE Front(e) = <<>>
    BY <1>3, Places
  <1>4. ASSUME NEW i \in DOMAIN rows
        PROVE  Front(GroupAt(i)) = GroupsAt /\ Front(QualifierAt(i)) = GroupAt(i) /\ Front(RowsAt(i)) = GroupAt(i)
    BY <1>1, Places, Zenon
  <1>5. ASSUME NEW i \in DOMAIN rows, NEW j \in 1 .. rows[i] PROVE Front(RowAt(i, j)) = RowsAt(i)
    BY <1>1, Places, Zenon
  <1>6. ASSUME NEW i \in DOMAIN rows, NEW j \in 1 .. rows[i], NEW c \in 1 .. 2
        PROVE  Front(ColumnAt(i, j, c)) = RowAt(i, j)
    BY <1>1, <1>2, Places, Zenon
  <1>7. \/ e \in {GroupsAt, CalleesAt, CallersAt}
        \/ \E i \in DOMAIN rows : e \in {GroupAt(i), QualifierAt(i), RowsAt(i)}
        \/ \E i \in DOMAIN rows : \E j \in 1 .. rows[i] : e = RowAt(i, j)
        \/ \E i \in DOMAIN rows : \E j \in 1 .. rows[i] : \E c \in 1 .. 2 : e = ColumnAt(i, j, c)
    BY DEF Placed
  <1>8. ASSUME NEW i \in DOMAIN rows, e \in {GroupAt(i), QualifierAt(i), RowsAt(i)}
        PROVE  (Front(e) = GroupsAt /\ e = GroupAt(i)) \/ Front(e) = GroupAt(i)
    BY <1>4, <1>8
  <1>9. ASSUME NEW i \in DOMAIN rows, NEW j \in 1 .. rows[i], e = RowAt(i, j)
        PROVE  Front(e) = RowsAt(i) /\ e = RowAt(i, j)
    BY <1>5, <1>9
  <1>10. ASSUME NEW i \in DOMAIN rows, NEW j \in 1 .. rows[i], NEW c \in 1 .. 2, e = ColumnAt(i, j, c)
         PROVE  Front(e) = RowAt(i, j) /\ e = ColumnAt(i, j, c)
    BY <1>6, <1>10
  <1>11. CASE e \in {GroupsAt, CalleesAt, CallersAt}
    BY <1>3, <1>11 DEF Parented
  <1>12. CASE \E i \in DOMAIN rows : e \in {GroupAt(i), QualifierAt(i), RowsAt(i)}
    BY <1>8, <1>12, Zenon DEF Parented
  <1>13. CASE \E i \in DOMAIN rows : \E j \in 1 .. rows[i] : e = RowAt(i, j)
    BY <1>9, <1>13, Zenon DEF Parented
  <1>14. CASE \E i \in DOMAIN rows : \E j \in 1 .. rows[i] : \E c \in 1 .. 2 : e = ColumnAt(i, j, c)
    BY <1>10, <1>14, Zenon DEF Parented
  <1> QED
    BY <1>7, <1>11, <1>12, <1>13, <1>14, Zenon

(* The arrays of a table have no holes.                                    *)
LEMMA TableArrays ==
    ASSUME NEW rows, NEW m \in Nat, DOMAIN rows = 1 .. m, Rowed(rows), NEW a, NEW b,
           NEW q \in ArraysIn(rows)
    PROVE  \E n \in Nat : Children(Table(rows, a, b), q) = {Append(q, Idx(i)) : i \in 1 .. n}
  <1> DEFINE T == Table(rows, a, b)
  <1>1. \A i \in DOMAIN rows : i \in Nat /\ rows[i] \in Nat /\ (\A j \in 1 .. rows[i] : j \in Nat)
    BY DEF Rowed
  <1>2. \A e : e \in Children(T, q) <=> Placed(e, rows) /\ e # <<>> /\ Front(e) = q
    BY TableNodes DEF Children
  <1>3. \A c \in 1 .. 2 : c \in Nat
    OBVIOUS
  <1> HIDE DEF T
  <1>4. CASE q = GroupsAt
    <2>1. ASSUME NEW e \in Children(T, q) PROVE \E i \in 1 .. m : e = GroupAt(i)
      <3>1. Placed(e, rows) /\ e # <<>> /\ Front(e) = GroupsAt
        BY <1>2, <1>4
      <3>2. \A k \in DOMAIN rows : GroupsAt # GroupAt(k)
        BY <1>1, PlacesDiffer, Zenon
      <3>3. \A k \in DOMAIN rows : \A j \in 1 .. rows[k] : GroupsAt # RowsAt(k) /\ GroupsAt # RowAt(k, j)
        BY <1>1, PlacesDiffer, Zenon
      <3>4. GroupsAt # <<>>
        BY PlacesDiffer, Zenon
      <3>5. Parented(e, rows)
        BY <3>1, Under
      <3> QED
        BY <3>1, <3>2, <3>3, <3>4, <3>5, Zenon DEF Parented
    <2>2. ASSUME NEW i \in 1 .. m PROVE GroupAt(i) \in Children(T, q)
      <3>1. Placed(GroupAt(i), rows)
        BY DEF Placed
      <3>2. Front(GroupAt(i)) = GroupsAt /\ GroupAt(i) # <<>>
        BY <1>1, Places, Appended, StepTypes DEF GroupAt
      <3> QED
        BY <1>2, <1>4, <3>1, <3>2
    <2>3. Children(T, q) = {GroupAt(i) : i \in 1 .. m}
      BY <2>1, <2>2
    <2> QED
      BY <1>4, <2>3 DEF GroupAt, T
  <1>5. ASSUME NEW i \in DOMAIN rows, q = RowsAt(i)
        PROVE  \E n \in Nat : Children(T, q) = {Append(q, Idx(j)) : j \in 1 .. n}
    <2>1. ASSUME NEW e \in Children(T, q) PROVE \E j \in 1 .. rows[i] : e = RowAt(i, j)
      <3>1. Placed(e, rows) /\ e # <<>> /\ Front(e) = RowsAt(i)
        BY <1>2, <1>5
      <3>2. \A k \in DOMAIN rows : RowsAt(i) # GroupAt(k) /\ (RowsAt(i) = RowsAt(k) => i = k)
        BY <1>1, PlacesDiffer, Zenon
      <3>3. \A k \in DOMAIN rows : \A j \in 1 .. rows[k] : RowsAt(i) # RowAt(k, j)
        BY <1>1, PlacesDiffer, Zenon
      <3>4. RowsAt(i) # <<>> /\ RowsAt(i) # GroupsAt
        BY <1>1, PlacesDiffer, Zenon
      <3>5. Parented(e, rows)
        BY <3>1, Under
      <3>6. PICK k \in DOMAIN rows : \E j \in 1 .. rows[k] : Front(e) = RowsAt(k) /\ e = RowAt(k, j)
        BY <3>1, <3>2, <3>3, <3>4, <3>5, Zenon DEF Parented
      <3>7. k = i
        BY <3>1, <3>2, <3>6
      <3> QED
        BY <3>6, <3>7
    <2>2. ASSUME NEW j \in 1 .. rows[i] PROVE RowAt(i, j) \in Children(T, q)
      <3>1. Placed(RowAt(i, j), rows)
        BY DEF Placed
      <3>2. Front(RowAt(i, j)) = RowsAt(i) /\ RowAt(i, j) # <<>>
        <4>1. RowsAt(i) \in Paths /\ Idx(j) \in Steps
          BY <1>1, Places, StepTypes, Zenon
        <4> QED
          BY <4>1, Appended, Zenon DEF RowAt
      <3> QED
        BY <1>2, <1>5, <3>1, <3>2
    <2>3. Children(T, q) = {RowAt(i, j) : j \in 1 .. rows[i]}
      BY <2>1, <2>2
    <2> QED
      BY <1>1, <1>5, <2>3 DEF RowAt
  <1>6. ASSUME NEW i \in DOMAIN rows, NEW j \in 1 .. rows[i], q = RowAt(i, j)
        PROVE  \E n \in Nat : Children(T, q) = {Append(q, Idx(c)) : c \in 1 .. n}
    <2>1. ASSUME NEW e \in Children(T, q) PROVE \E c \in 1 .. 2 : e = ColumnAt(i, j, c)
      <3>1. Placed(e, rows) /\ e # <<>> /\ Front(e) = RowAt(i, j)
        BY <1>2, <1>6
      <3>2. RowAt(i, j) # <<>> /\ RowAt(i, j) # GroupsAt
        BY <1>1, PlacesDiffer, Zenon
      <3>3. \A k \in DOMAIN rows : RowAt(i, j) # GroupAt(k) /\ RowAt(i, j) # RowsAt(k)
        BY <1>1, PlacesDiffer, Zenon
      <3>5. Parented(e, rows)
        BY <3>1, Under
      <3>6. PICK k \in DOMAIN rows : \E l \in 1 .. rows[k] : \E c \in 1 .. 2 :
                RowAt(i, j) = RowAt(k, l) /\ e = ColumnAt(k, l, c)
        BY <3>1, <3>2, <3>3, <3>5, Zenon DEF Parented
      <3> QED
        BY <3>6, Zenon DEF ColumnAt
    <2>2. ASSUME NEW c \in 1 .. 2 PROVE ColumnAt(i, j, c) \in Children(T, q)
      <3>1. Placed(ColumnAt(i, j, c), rows)
        BY DEF Placed
      <3>2. Front(ColumnAt(i, j, c)) = RowAt(i, j) /\ ColumnAt(i, j, c) # <<>>
        <4>1. RowAt(i, j) \in Paths /\ Idx(c) \in Steps
          BY <1>1, <1>3, Places, StepTypes, Zenon
        <4> QED
          BY <4>1, Appended, Zenon DEF ColumnAt
      <3> QED
        BY <1>2, <1>6, <3>1, <3>2
    <2>3. Children(T, q) = {ColumnAt(i, j, c) : c \in 1 .. 2}
      BY <2>1, <2>2
    <2>4. 2 \in Nat
      OBVIOUS
    <2> QED
      BY <1>6, <2>3, <2>4 DEF ColumnAt
  <1>7. \/ q = GroupsAt \/ \E i \in DOMAIN rows : q = RowsAt(i)
        \/ \E i \in DOMAIN rows : \E j \in 1 .. rows[i] : q = RowAt(i, j)
    BY DEF ArraysIn
  <1> QED
    BY <1>4, <1>5, <1>6, <1>7 DEF T

LEMMA TableTree ==
    ASSUME NEW rows, NEW m \in Nat, DOMAIN rows = 1 .. m, Rowed(rows), NEW a, NEW b
    PROVE  IsTree(Table(rows, a, b))
  <1> DEFINE T == Table(rows, a, b)
  <1>1. \A p : p \in DOMAIN T <=> Placed(p, rows)
    BY TableNodes
  <1>2. IsFiniteSet(DOMAIN T)
    BY FS_Interval, TableFinite
  <1>3. \A q \in DOMAIN T : T[q].t = "arr" => q \in ArraysIn(rows)
    BY TableValues
  <1>4. \A q \in ArraysIn(rows) : \E n \in Nat : Children(T, q) = {Append(q, Idx(i)) : i \in 1 .. n}
    BY TableArrays
  <1> HIDE DEF T
  <1>5. \A p \in DOMAIN T : p \in Paths /\ Len(p) \in 0 .. 5 /\ (p # <<>> => Front(p) \in DOMAIN T)
    BY <1>1, TableFronts
  <1>6. <<>> \in DOMAIN T
    BY <1>1 DEF Placed
  <1>7. \A p \in DOMAIN T : \A i \in 0 .. Len(p) : SubSeq(p, 1, i) \in DOMAIN T
    BY <1>5, Descended
  <1>8. IsTree(T)
    BY <1>2, <1>3, <1>4, <1>5, <1>6, <1>7 DEF IsTree
  <1> QED
    BY <1>8 DEF T

(* The payload of some names is such a table; what it counts is the names. *)
LEMMA PayloadIsTable ==
    ASSUME NEW names, IsFiniteSet(names)
    PROVE  \E rows : \E m, a, b \in Nat :
            /\ DOMAIN rows = 1 .. m /\ Rowed(rows)
            /\ PayloadOf(names) = Table(rows, a, b)
            /\ a = 0 /\ b = 0 <=> names = {}
            /\ names = {} => m = 0
  <1> DEFINE Q == {Front(n) : n \in names}
             order == SetToSeq(Q)
             rows == [i \in DOMAIN order |-> Cardinality({n \in names : Front(n) = order[i]})]
             A == {n \in names : Len(n) = 1}
             B == {n \in names : Len(n) # 1}
  <1>1. IsFiniteSet(Q)
    <2>1. \A y \in Q : \E x \in names : [n \in names |-> Front(n)][x] = y
      OBVIOUS
    <2>2. PICK f : f = [n \in names |-> Front(n)]
      OBVIOUS
    <2>3. DOMAIN f = names /\ \A y \in Q : \E x \in names : f[x] = y
      BY <2>1, <2>2
    <2> HIDE DEF Q
    <2> QED
      BY <2>3, ImageFinite
  <1>2. Cardinality(Q) \in Nat /\ DOMAIN order = 1 .. Cardinality(Q)
    <2> HIDE DEF Q
    <2> QED
      BY <1>1, Enumerated
  <1>3. Rowed(rows) /\ DOMAIN rows = 1 .. Cardinality(Q)
    <2>1. \A i \in DOMAIN order : Cardinality({n \in names : Front(n) = order[i]}) \in Nat
      <3> TAKE i \in DOMAIN order
      <3>1. {n \in names : Front(n) = order[i]} \subseteq names
        OBVIOUS
      <3>2. IsFiniteSet({n \in names : Front(n) = order[i]})
        BY <3>1, FS_Subset
      <3> QED
        BY <3>2, FS_CardinalityType
    <2> HIDE DEF order, Q
    <2> QED
      BY <1>2, <2>1 DEF Rowed
  <1>4. /\ IsFiniteSet(A) /\ Cardinality(A) \in Nat /\ (Cardinality(A) = 0 <=> A = {})
        /\ IsFiniteSet(B) /\ Cardinality(B) \in Nat /\ (Cardinality(B) = 0 <=> B = {})
    <2>1. A \subseteq names /\ B \subseteq names
      OBVIOUS
    <2> HIDE DEF A, B
    <2> QED
      BY <2>1, FS_Subset, FS_CardinalityType, FS_EmptySet
  <1>5. A = {} /\ B = {} <=> names = {}
    OBVIOUS
  <1>6. PayloadOf(names) = Table(rows, Cardinality(A), Cardinality(B))
    BY DEF PayloadOf
  <1>7. names = {} => Cardinality(Q) = 0
    <2>1. names = {} => Q = {}
      OBVIOUS
    <2> HIDE DEF Q
    <2> QED
      BY <2>1, FS_EmptySet
  <1> HIDE DEF A, B, Q, order, rows
  <1> QED
    BY <1>2, <1>3, <1>4, <1>5, <1>6, <1>7

LEMMA PayloadTree ==
    ASSUME NEW names, IsFiniteSet(names)
    PROVE  IsTree(PayloadOf(names)) /\ <<>> \notin rowContainers(PayloadOf(names))
  <1>1. PICK rows : \E m, a, b \in Nat :
            /\ DOMAIN rows = 1 .. m /\ Rowed(rows) /\ PayloadOf(names) = Table(rows, a, b)
    BY PayloadIsTable
  <1>2. PICK m \in Nat, a \in Nat, b \in Nat :
            DOMAIN rows = 1 .. m /\ Rowed(rows) /\ PayloadOf(names) = Table(rows, a, b)
    BY <1>1
  <1>3. IsTree(PayloadOf(names))
    BY <1>2, TableTree
  <1>4. PayloadOf(names)[<<>>] = Node("obj", 0)
    BY <1>2, TableValues
  <1>5. Node("obj", 0).t # "arr"
    BY DEF Node
  <1> QED
    BY <1>3, <1>4, <1>5, RowContainer DEF ArrayOf

(* What is left of it counts the same.                                     *)
LEMMA JudgedAsNames ==
    ASSUME NEW names, IsFiniteSet(names), NEW r, Pruned(r, PayloadOf(names))
    PROVE  LooksEmptyData(r) <=> names = {}
  <1> DEFINE v == PayloadOf(names)
  <1>1. PICK rows : \E m, a, b \in Nat :
            /\ DOMAIN rows = 1 .. m /\ Rowed(rows) /\ v = Table(rows, a, b)
            /\ a = 0 /\ b = 0 <=> names = {}
            /\ names = {} => m = 0
    BY PayloadIsTable
  <1>2. PICK m \in Nat, a \in Nat, b \in Nat :
            /\ DOMAIN rows = 1 .. m /\ Rowed(rows) /\ v = Table(rows, a, b)
            /\ a = 0 /\ b = 0 <=> names = {}
            /\ names = {} => m = 0
    BY <1>1
  <1>3. \A p : p \in DOMAIN v <=> Placed(p, rows)
    BY <1>2, TableNodes
  <1>4. v[CalleesAt] = Node("num", a) /\ v[CallersAt] = Node("num", b)
    BY <1>2, TableValues
  <1>5. /\ CalleesAt \in DOMAIN v /\ CalleesAt # <<>> /\ Front(CalleesAt) = <<>>
        /\ CallersAt \in DOMAIN v /\ CallersAt # <<>> /\ Front(CallersAt) = <<>>
    BY <1>3, Places, OneStep DEF Placed, CalleesAt, CallersAt
  <1>6. <<>> \notin rowContainers(v)
    BY PayloadTree
  <1> HIDE DEF v
  <1>7. Pruned(r, v)
    BY DEF v
  <1>8. /\ CalleesAt \in DOMAIN r /\ r[CalleesAt] = Node("num", a)
        /\ CallersAt \in DOMAIN r /\ r[CallersAt] = Node("num", b)
    <2>1. <<>> \in DOMAIN r /\ \A p \in DOMAIN r : r[p] = v[p]
      BY <1>7 DEF Pruned, IsTree
    <2>2. CalleesAt \in DOMAIN r /\ CallersAt \in DOMAIN r
      BY <1>5, <1>6, <1>7, <2>1 DEF Pruned
    <2> QED
      BY <1>4, <2>1, <2>2
  <1>9. Counter(CalleesAt) /\ Counter(CallersAt)
    <2>1. ASSUME NEW s, IsEvidence(s) PROVE Counter(<<s>>)
      <3>1. DOMAIN <<s>> = {1} /\ <<s>>[1] = s /\ Len(<<s>>) = 1
        OBVIOUS
      <3>2. {i \in DOMAIN <<s>> : IsEvidence(<<s>>[i])} = {1}
        BY <2>1, <3>1
      <3> QED
        BY <3>1, <3>2 DEF Counter
    <2>2. IsEvidence(Key("callees_total")) /\ IsEvidence(Key("callers_total"))
      BY PayloadAssumption DEF IsEvidence, Key
    <2> QED
      BY <2>1, <2>2 DEF CalleesAt, CallersAt
  <1>10. \A n : Node("num", n).t = "num" /\ Node("num", n).n = n
    BY DEF Node
  <1>11. Reading(r, CalleesAt) = {a = 0} /\ Reading(r, CallersAt) = {b = 0}
    BY <1>8, <1>10 DEF Reading
  <1>12. (a = 0) \in scanEvidence(r) /\ (b = 0) \in scanEvidence(r)
    BY <1>8, <1>9, <1>11 DEF scanEvidence
  <1>13. ASSUME names = {}, NEW q \in DOMAIN r, Counter(q) PROVE q \in {CalleesAt, CallersAt}
    <2>1. DOMAIN rows = {}
      BY <1>2, <1>13
    <2>2. Placed(q, rows)
      BY <1>3, <1>7 DEF Pruned
    <2>3. q \in {<<>>, GroupsAt, CalleesAt, CallersAt}
      BY <2>1, <2>2 DEF Placed
    <2>4. q # <<>>
      <3>1. ~Counter(<<>>)
        BY DEF Counter
      <3> QED
        BY <1>13, <3>1
    <2>5. q # GroupsAt
      <3>1. ~IsEvidence(Key("groups"))
        BY PayloadAssumption DEF IsEvidence, Key
      <3>2. DOMAIN <<Key("groups")>> = {1} /\ <<Key("groups")>>[1] = Key("groups") /\ Len(<<Key("groups")>>) = 1
        OBVIOUS
      <3>3. {i \in DOMAIN <<Key("groups")>> : IsEvidence(<<Key("groups")>>[i])} = {}
        BY <3>1, <3>2
      <3>4. ~Counter(GroupsAt)
        BY <3>2, <3>3 DEF Counter, GroupsAt
      <3> QED
        BY <1>13, <3>4
    <2> QED
      BY <2>3, <2>4, <2>5
  <1>14. ASSUME names = {} PROVE scanEvidence(r) = {TRUE}
    <2>1. a = 0 /\ b = 0
      BY <1>2, <1>14
    <2>2. \A q \in DOMAIN r : Counter(q) => Reading(r, q) = {TRUE}
      BY <1>11, <1>13, <1>14, <2>1
    <2>3. TRUE \in scanEvidence(r)
      BY <1>12, <2>1
    <2> QED
      BY <2>2, <2>3 DEF scanEvidence
  <1>15. ASSUME scanEvidence(r) = {TRUE} PROVE names = {}
    <2>1. (a = 0) = TRUE /\ (b = 0) = TRUE
      BY <1>12, <1>15
    <2> QED
      BY <1>2, <2>1
  <1> QED
    BY <1>14, <1>15 DEF LooksEmptyData

-----------------------------------------------------------------------------
(* What an answer is worth.                                                *)

(* The rows are names of the index, and all of them unless the limit cut.  *)
Faithful(res) ==
    ~res.err => /\ res.names \subseteq graph.names
                /\ Cardinality(graph.names) <= RowLimit => res.names = graph.names

(* What an answer to the question of this stage says is so of this index.  *)
Sound(res) ==
    /\ stage = "read" => Faithful(res)
    /\ res.cover = "clean" => graph.whole

LEMMA Bounds ==
    /\ MaxChanges \in Nat
    /\ Graphs \subseteq [names : SUBSET Names, whole : BOOLEAN]
    /\ None \notin Covers /\ None \notin [kind : Kinds, sym : Symbols]
  BY ReadsAssumption

LEMMA StructuredType == Structured \in BOOLEAN
  BY DEF Structured

LEMMA NoResultType == NoResult \in Results /\ Sound(NoResult)
  BY DEF NoResult, Results, Covers, Sound, Faithful

LEMMA RowsWhole ==
    ASSUME TypeOK, NEW s \in Rows
    PROVE  /\ s \subseteq graph.names
           /\ Cardinality(graph.names) <= RowLimit => s = graph.names
  <1>1. IsFiniteSet(graph.names)
    BY FS_Subset, ReadsAssumption DEF TypeOK
  <1>2. Cardinality(graph.names) \in Nat /\ RowLimit \in Nat
    BY <1>1, FS_CardinalityType, ReadsAssumption
  <1>3. s \subseteq graph.names
    BY DEF Rows
  <1>4. ASSUME Cardinality(graph.names) <= RowLimit PROVE s = graph.names
    <2>1. Cardinality(s) = Cardinality(graph.names)
      BY <1>2, <1>4 DEF Rows
    <2> QED
      BY <1>1, <1>3, <2>1, FS_Subset
  <1> QED
    BY <1>3, <1>4

LEMMA AnswerIsSound ==
    ASSUME TypeOK, NEW data \in BOOLEAN, NEW res \in Answers(data)
    PROVE  res \in Results /\ Sound(res)
  <1>1. CASE stage # "read"
    <2>1. res = Answer(data, {}, FALSE, Cover)
      BY <1>1 DEF Answers
    <2>2. Cover \in Covers /\ (Cover = "clean" => graph.whole)
      BY DEF Cover, Covers
    <2> QED
      BY <1>1, <2>1, <2>2 DEF Answer, Results, Sound
  <1>2. CASE stage = "read"
    <2>1. PICK s \in Rows, q \in Quotes(data) : res = Answer(data, s, q, "unknown")
      BY <1>2 DEF Answers
    <2>2. q \in BOOLEAN
      BY DEF Quotes
    <2>3. s \subseteq Names
      BY RowsWhole DEF TypeOK
    <2> QED
      BY <2>1, <2>2, <2>3, RowsWhole DEF Answer, Results, Covers, Sound, Faithful
  <1> QED
    BY <1>1, <1>2

LEMMA HollowIsSound ==
    ASSUME TypeOK, NEW res \in Hollow
    PROVE  res \in Results /\ Sound(res)
  <1>1. res = Blank /\ (stage # "read" \/ graph.names = {})
    BY DEF Hollow
  <1> QED
    BY <1>1 DEF Blank, Answer, Results, Covers, Sound, Faithful

(* A group states the qualifier of its rows: put together again, the names *)
(* are those the groups were made of.                                      *)
LEMMA NamesAreRead ==
    ASSUME NEW names \in SUBSET Names
    PROVE  QualifiedNames(Groups(names)) = names
  <1>1. \A n \in names : Front(n) \o <<Last(n)>> = n
    <2> SUFFICES ASSUME NEW n \in names PROVE Front(n) \o <<Last(n)>> = n
      OBVIOUS
    <2>1. n \in Seq(STRING) /\ n # <<>>
      BY ReadsAssumption
    <2>2. Len(n) \in 1 .. Len(n) /\ 1 \in 1 .. Len(n) /\ SubSeq(n, 1, Len(n)) = n
      BY <2>1, SubSeqFull, EmptySeq
    <2>3. SubSeq(n, 1, Len(n)) = SubSeq(n, 1, Len(n) - 1) \o <<n[Len(n)]>>
      BY <2>1, <2>2, SubSeqRecursiveSecond
    <2>4. Front(n) = SubSeq(n, 1, Len(n) - 1) /\ Last(n) = n[Len(n)]
      BY DEF Front, Last
    <2> QED
      BY <2>2, <2>3, <2>4
  <1> DEFINE Group(n) == [qualifier |-> Front(n), leaves |-> {Last(n)}]
             NamesIn(g) == {g.qualifier \o <<leaf>> : leaf \in g.leaves}
  <1>2. \A n \in names : NamesIn(Group(n)) = {n}
    BY <1>1
  <1>3. QualifiedNames(Groups(names)) = UNION {NamesIn(g) : g \in {Group(n) : n \in names}}
    BY DEF QualifiedNames, Groups
  <1> HIDE DEF Group, NamesIn
  <1> QED
    BY <1>2, <1>3

-----------------------------------------------------------------------------
(* The invariants.                                                         *)

(* How many engines a call has started.                                    *)
CallInv ==
    /\ call \in {"idle", "dial", "spawn"} => spawned = 0
    /\ call \in {"rerun", "legacy"} => spawned = 1

(* What a command goes by: the lookup and the coverage speak of the index  *)
(* as it is, unless it has moved since the command began, and a command    *)
(* that asks for near misses or the coverage has missed the symbol.        *)
GroundInv ==
    /\ cmd = None => got = NoResult /\ verdict = None /\ ~moved
    /\ ~moved => /\ Sound(got)
                 /\ stage \notin {"idle", "read"} => Faithful(read)
                 /\ verdict = "clean" => graph.whole
    /\ stage \in {"near", "coverage", "verdict"} /\ cmd.kind = "validate" => ~Found(read)
    /\ stage = "near" => cmd.kind = "validate"

(* What a payload is made of are names of the source.                      *)
NamesShown == reply # None => reply.names \in SUBSET Names

ReplyInv == AbsenceHasVerdict /\ ConclusionsHold /\ NamesShown

IInv == TypeOK /\ CallInv /\ GroundInv /\ ReplyInv

LEMMA InitInv == Init => IInv
  <1> SUFFICES ASSUME Init PROVE IInv
    OBVIOUS
  <1>1. TypeOK
    <2>1. graph \in [names : SUBSET Names, whole : BOOLEAN] /\ got \in Results /\ read \in Results
      BY NoResultType DEF Init, NoGraph
    <2>2. changes \in 0 .. MaxChanges
      BY Bounds DEF Init
    <2>3. /\ engine \in {"new", "old", "oldest"} /\ resident \in {"none", "serving", "refusing"}
          /\ face \in {"human", "json", "mcp"} /\ verdict \in Covers \cup {None}
      BY DEF Init
    <2>4. memo \in {"unasked", "yes", "no"} /\ stage \in Stages /\ spawned \in 0 .. 2
      BY DEF Init, Stages
    <2>5. expired \in BOOLEAN /\ moved \in BOOLEAN
      BY DEF Init
    <2>6. stage = "idle" /\ call = "idle" /\ cmd = None
      BY DEF Init
    <2> QED
      BY <2>1, <2>2, <2>3, <2>4, <2>5, <2>6 DEF TypeOK
  <1>2. CallInv
    BY DEF Init, CallInv
  <1>3. GroundInv
    <2>1. Sound(got)
      BY NoResultType DEF Init
    <2> QED
      BY <2>1, Bounds DEF Init, GroundInv, Covers
  <1>4. ReplyInv
    BY DEF Init, ReplyInv, AbsenceHasVerdict, ConclusionsHold, AbsenceIsProved, ValidIsTrue, Absent, NamesShown
  <1> QED
    BY <1>1, <1>2, <1>3, <1>4 DEF IInv

(* A reply that was given stays true.                                      *)
LEMMA ReplyKept == ReplyInv /\ UNCHANGED <<reply, face>> => ReplyInv'
  BY DEF ReplyInv, AbsenceHasVerdict, ConclusionsHold, AbsenceIsProved, ValidIsTrue, Absent, NamesShown

LEMMA ReplyRead == reply' = None => ReplyInv'
  BY DEF ReplyInv, AbsenceHasVerdict, ConclusionsHold, AbsenceIsProved, ValidIsTrue, Absent, NamesShown

-----------------------------------------------------------------------------
(* A step of an engine call.                                               *)
LEMMA CallCount ==
    ASSUME TypeOK, CallInv, EngineCall \/ Wedge
    PROVE  CallInv' /\ spawned' \in 0 .. 2
  <1>0. spawned \in 0 .. 2
    BY DEF TypeOK
  <1>1. CASE residentTry
    <2>1. spawned = 0 /\ spawned' = 0 /\ call' \in {"spawn", "back"}
      BY <1>1 DEF residentTry, Return, CallInv
    <2> QED
      BY <2>1 DEF CallInv
  <1>2. CASE runEnvelope
    <2>1. call = "spawn" /\ call' \in {"back", "rerun", "legacy"} /\ spawned' = spawned + 1
      BY <1>2 DEF runEnvelope, Return, Started
    <2> QED
      BY <1>0, <2>1 DEF CallInv
  <1>3. CASE Rerun \/ legacy \/ Wedge
    <2>1. /\ call \in {"spawn", "rerun", "legacy"} /\ call' \in {"back", "wedged"}
          /\ spawned' = spawned + 1
      BY <1>3 DEF Rerun, legacy, Wedge, Return, Started
    <2> QED
      BY <1>0, <2>1 DEF CallInv
  <1>4. CASE Deadline
    <2>1. call' = "back" /\ spawned' = spawned
      BY <1>4 DEF Deadline, Return
    <2> QED
      BY <1>0, <2>1 DEF CallInv
  <1> QED
    BY <1>1, <1>2, <1>3, <1>4 DEF EngineCall

LEMMA CallStep ==
    ASSUME IInv, EngineCall \/ Wedge
    PROVE  IInv'
  <1> USE DEF IInv, around, command, Return, Started, Probe
  <1>1. /\ UNCHANGED <<around, face, cmd, stage, read, verdict, reply>>
        /\ call \in {"dial", "spawn", "rerun", "legacy", "wedged"}
        /\ call' \in {"spawn", "rerun", "legacy", "wedged", "back"}
    BY DEF EngineCall, residentTry, runEnvelope, Rerun, legacy, Wedge, Deadline
  <1>2. got' \in Results /\ (Sound(got') \/ got' = got)
    <2>0. Error \in Results /\ Sound(Error)
      BY NoResultType DEF Error
    <2>1. CASE residentTry
      BY <2>0, <2>1, AnswerIsSound, HollowIsSound, StructuredType DEF residentTry, TypeOK
    <2>2. CASE runEnvelope
      BY <2>0, <2>2, AnswerIsSound, HollowIsSound, StructuredType DEF runEnvelope, TypeOK
    <2>3. CASE Rerun \/ legacy
      BY <2>0, <2>3, AnswerIsSound, HollowIsSound DEF Rerun, legacy, TypeOK
    <2>4. CASE Wedge \/ Deadline
      BY <2>0, <2>4 DEF Wedge, Deadline, TypeOK
    <2> QED
      BY <2>1, <2>2, <2>3, <2>4 DEF EngineCall
  <1>3. memo' \in {"unasked", "yes", "no"} /\ expired' \in BOOLEAN
    BY DEF EngineCall, residentTry, runEnvelope, Rerun, legacy, Wedge, Deadline, TypeOK
  <1>4. CallInv' /\ spawned' \in 0 .. 2
    BY CallCount
  <1>5. TypeOK'
    BY <1>1, <1>2, <1>3, <1>4 DEF TypeOK
  <1>6. GroundInv'
    <2>1. cmd # None
      BY <1>1 DEF TypeOK
    <2>2. Sound(got)' <=> Sound(got')
      BY <1>1 DEF Sound, Faithful
    <2>3. Faithful(read)' <=> Faithful(read)
      BY <1>1 DEF Faithful
    <2>4. Found(read)' <=> Found(read)
      BY <1>1 DEF Found
    <2> QED
      BY <1>1, <1>2, <2>1, <2>2, <2>3, <2>4 DEF GroundInv
  <1> QED
    BY <1>1, <1>4, <1>5, <1>6, ReplyKept

(* A step around the reader.                                               *)
LEMMA AroundStep ==
    ASSUME IInv, Index \/ InstallEngine \/ Residency
    PROVE  IInv'
  <1> USE DEF IInv, Change, command
  <1>1. /\ UNCHANGED <<face, memo, command, call, got, reply, spawned>>
        /\ cmd # None /\ changes' \in 0 .. MaxChanges
    BY Bounds DEF Index, InstallEngine, Residency, TypeOK
  <1>2. moved' = TRUE \/ UNCHANGED <<graph, moved>>
    BY DEF Index, InstallEngine, Residency
  <1>3. TypeOK'
    <2>1. graph' \in [names : SUBSET Names, whole : BOOLEAN]
      BY Bounds DEF Index, InstallEngine, Residency, TypeOK
    <2>2. /\ engine' \in {"new", "old", "oldest"} /\ resident' \in {"none", "serving", "refusing"}
          /\ moved' \in BOOLEAN
      BY DEF Index, InstallEngine, Residency, TypeOK
    <2> QED
      BY <1>1, <2>1, <2>2 DEF TypeOK
  <1>4. Found(read)' <=> Found(read)
    BY <1>1 DEF Found
  <1>5. GroundInv'
    BY <1>1, <1>2, <1>4 DEF GroundInv, Sound, Faithful
  <1> QED
    BY <1>1, <1>3, <1>5, ReplyKept DEF CallInv

-----------------------------------------------------------------------------
(* Steps of a command.                                                     *)

LEMMA EndStep ==
    ASSUME TypeOK, End, read' \in Results
    PROVE  TypeOK' /\ CallInv' /\ GroundInv'
  <1> USE DEF End
  <1>1. TypeOK'
    <2>1. graph' \in [names : SUBSET Names, whole : BOOLEAN] /\ got' \in Results
      BY NoResultType DEF NoGraph
    <2>2. memo' \in {"unasked", "yes", "no"}
      BY DEF TypeOK
    <2>3. /\ engine' \in {"new", "old", "oldest"} /\ resident' \in {"none", "serving", "refusing"}
          /\ face' \in {"human", "json", "mcp"} /\ verdict' \in Covers \cup {None}
      BY DEF TypeOK
    <2>4. stage' \in Stages /\ spawned' \in 0 .. 2 /\ changes' \in 0 .. MaxChanges
      BY Bounds DEF Stages
    <2>5. expired' \in BOOLEAN /\ moved' \in BOOLEAN
      OBVIOUS
    <2>6. stage' = "idle" /\ call' = "idle" /\ cmd' = None
      OBVIOUS
    <2> QED
      BY <2>1, <2>2, <2>3, <2>4, <2>5, <2>6 DEF TypeOK
  <1>2. CallInv'
    BY DEF CallInv
  <1>3. GroundInv'
    <2>1. Sound(got)'
      BY DEF Sound, Faithful, NoResult
    <2>2. stage' = "idle" /\ verdict' = None /\ got' = NoResult /\ moved' = FALSE
      OBVIOUS
    <2> QED
      BY <2>1, <2>2, Bounds DEF GroundInv, Covers
  <1> QED
    BY <1>1, <1>2, <1>3

(* What has to be so of the index for a reply to be given.                 *)
Justified(says, res, v) ==
    /\ says \in {"absent", "invalid"} /\ cmd.kind \in Gated => v # None
    /\ (/\ says \in {"absent", "invalid"} /\ v = "clean" /\ ~moved /\ ~read'.err
        /\ Cardinality(graph.names) <= RowLimit /\ (face = "json" => res.data))
       => /\ graph.whole
          /\ IF says = "invalid" THEN ~MatchSymbol(graph.names, cmd.sym) ELSE graph.names = {}
    /\ says = "valid" /\ ~moved
       => MatchSymbol(graph.names, cmd.sym) /\ (Len(cmd.sym) > 1 => cmd.sym \in graph.names)

LEMMA SayStep ==
    ASSUME IInv, NEW says, NEW res \in Results, NEW v,
           Say(says, res, v), Justified(says, res, v), read' \in Results
    PROVE  IInv'
  <1>1. TypeOK' /\ CallInv' /\ GroundInv'
    BY EndStep DEF Say, IInv
  <1>2. reply' = [says |-> says, verdict |-> v, sym |-> cmd.sym, kind |-> cmd.kind,
                  data |-> res.data, failed |-> read'.err, moved |-> moved,
                  among |-> graph, names |-> res.names]
    BY DEF Say
  <1>3. /\ reply'.says = says /\ reply'.verdict = v /\ reply'.sym = cmd.sym
        /\ reply'.kind = cmd.kind /\ reply'.data = res.data /\ reply'.failed = read'.err
        /\ reply'.moved = moved /\ reply'.among = graph /\ reply'.names = res.names
    BY <1>2
  <1>4. face' = face
    BY DEF Say, End
  <1>5. AbsenceHasVerdict'
    BY <1>3 DEF Justified, AbsenceHasVerdict, Absent
  <1>6. AbsenceIsProved'
    BY <1>3, <1>4 DEF Justified, AbsenceIsProved, Absent
  <1>7. ValidIsTrue'
    BY <1>3 DEF Justified, ValidIsTrue
  <1>8. NamesShown'
    BY <1>3 DEF NamesShown, Results
  <1> QED
    BY <1>1, <1>5, <1>6, <1>7, <1>8 DEF IInv, ReplyInv, ConclusionsHold

LEMMA AskStep ==
    ASSUME IInv, stage # "idle", NEW s \in {"near", "coverage", "verdict", "traversal"}, Ask(s),
           read' \in Results, verdict' \in Covers \cup {None},
           ~moved => Faithful(read') /\ (verdict' = "clean" => graph.whole),
           s # "traversal" /\ cmd.kind = "validate" => ~Found(read'),
           s = "near" => cmd.kind = "validate"
    PROVE  IInv'
  <1> USE DEF IInv, Ask, around
  <1>1. cmd # None /\ cmd' = cmd /\ stage' = s
    BY DEF TypeOK
  <1>2. TypeOK'
    <2>1. stage' \in Stages /\ stage' # "idle" /\ call' = "dial" /\ got' \in Results
      BY <1>1, NoResultType DEF Stages
    <2>2. spawned' \in 0 .. 2
      OBVIOUS
    <2>3. UNCHANGED <<graph, engine, resident, moved, changes, face, memo, cmd, expired>>
      OBVIOUS
    <2> HIDE DEF Ask
    <2> QED
      BY <1>1, <2>1, <2>2, <2>3 DEF TypeOK
  <1>3. CallInv'
    BY DEF CallInv
  <1>4. GroundInv'
    <2>1. Sound(got)'
      BY DEF Sound, Faithful, NoResult
    <2>2. Faithful(read)' <=> Faithful(read')
      BY DEF Faithful
    <2>3. Found(read)' <=> Found(read')
      BY <1>1 DEF Found
    <2> QED
      BY <1>1, <2>1, <2>2, <2>3 DEF GroundInv
  <1> QED
    BY <1>2, <1>3, <1>4, ReplyKept

(* A payload is judged empty when it has no rows, and so is a text that     *)
(* has none.                                                               *)
LEMMA EmptyIsEmpty ==
    ASSUME NEW res \in Results
    PROVE  /\ res.names = {} => emptyResult(res)
           /\ res.data => (emptyResult(res) <=> res.names = {})
  <1>1. res.names \in SUBSET Names
    BY DEF Results
  <1>2. IsFiniteSet(res.names)
    BY <1>1, FS_Subset, ReadsAssumption
  <1>3. LooksEmptyData(PayloadOf(res.names)) <=> res.names = {}
    BY <1>2, JudgedAsNames, PayloadTree, TreeIsPruned
  <1> QED
    BY <1>3 DEF emptyResult, LooksEmpty

(* A search or a traversal that has shown no rows, of this index.          *)
LEMMA ClaimIsJustified ==
    ASSUME IInv, NEW res \in Results, NEW v,
           Claim(res) = "absent" /\ cmd.kind \in Gated => v # None,
           ~moved => Faithful(res),
           v = "clean" /\ ~moved => graph.whole
    PROVE  Justified(Claim(res), res, v)
  <1>1. Claim(res) \in {"error", "absent", "found"}
    BY DEF Claim
  <1>2. ASSUME Claim(res) = "absent"
        PROVE  ~res.err /\ (IF face = "json" THEN emptyResult(res) ELSE res.names = {})
    BY <1>2 DEF Claim
  <1>3. ASSUME Claim(res) = "absent", face = "json" => res.data PROVE ~res.err /\ res.names = {}
    BY <1>2, <1>3, EmptyIsEmpty
  <1> QED
    BY <1>1, <1>3 DEF Justified, Faithful

(* A symbol a faithful lookup has missed, or found.                        *)
LEMMA MissIsJustified ==
    ASSUME IInv, NEW res \in Results, NEW v, cmd.kind = "validate",
           read' = res, ~Found(res), ~moved => Faithful(res), v = "clean" /\ ~moved => graph.whole
    PROVE  Justified("invalid", res, v)
  <1> SUFFICES ASSUME v = "clean", ~moved, ~res.err, Cardinality(graph.names) <= RowLimit,
                      face = "json" => res.data
               PROVE  graph.whole /\ ~MatchSymbol(graph.names, cmd.sym)
    BY DEF Justified, Gated
  <1>1. res.names = graph.names
    BY DEF Faithful
  <1>2. QualifiedNames(Groups(res.names)) = res.names
    BY NamesAreRead DEF Results
  <1> QED
    BY <1>1, <1>2 DEF Found

LEMMA HitIsJustified ==
    ASSUME NEW res \in Results, Found(res), ~moved => Faithful(res)
    PROVE  Justified("valid", res, None)
  <1> SUFFICES ASSUME ~moved
               PROVE  /\ MatchSymbol(graph.names, cmd.sym)
                      /\ Len(cmd.sym) > 1 => cmd.sym \in graph.names
    BY DEF Justified
  <1>1. MatchSymbol(res.names, cmd.sym)
    BY NamesAreRead DEF Results, Found
  <1>2. res.names \subseteq graph.names
    BY DEF Faithful, Found
  <1>3. CASE cmd.sym \in res.names
    BY <1>2, <1>3 DEF MatchSymbol
  <1>4. CASE cmd.sym \notin res.names
    <2>1. Len(cmd.sym) = 1 /\ \E qn \in res.names : LeafName(qn) = cmd.sym
      BY <1>1, <1>4 DEF MatchSymbol
    <2>2. \E qn \in graph.names : LeafName(qn) = cmd.sym
      BY <1>2, <2>1
    <2> QED
      BY <2>1, <2>2 DEF MatchSymbol
  <1> QED
    BY <1>3, <1>4

LEMMA OtherwiseJustified ==
    ASSUME NEW says \in {"error", "explained"}, NEW res
    PROVE  Justified(says, res, None)
  BY DEF Justified

LEMMA TakeStep ==
    ASSUME IInv, Take
    PROVE  IInv'
  <1> USE DEF IInv
  <1>0. /\ call = "back" /\ stage # "idle" /\ cmd # None
        /\ got \in Results /\ read \in Results /\ None # "clean" /\ verdict \in Covers \cup {None}
    BY Bounds DEF Take, TakeRead, TakeDefinition, TakeTraversal, TakeLookup, TakeNear, TakeCoverage,
                  TakeVerdict, TypeOK, Covers
  <1>1. ASSUME stage = "read" PROVE ~moved => Faithful(got)
    BY <1>1 DEF GroundInv, Sound
  <1>2. ASSUME stage # "read" PROVE ~moved => Faithful(read)
    BY <1>0, <1>2 DEF GroundInv
  <1>3. verdict = "clean" /\ ~moved => graph.whole
    BY DEF GroundInv
  <1>4. got.cover \in Covers /\ (got.cover = "clean" /\ ~moved => graph.whole)
    BY <1>0 DEF GroundInv, Sound, Results
  <1>5. CASE TakeRead
    <2>1. stage = "read" /\ read' = got
      BY <1>5 DEF TakeRead
    <2>2. CASE ~got.err /\ cmd.kind \in Gated /\ emptyResult(got)
      <3>1. Ask(CoverageStage(got)) /\ verdict' = verdict
        BY <1>5, <2>2 DEF TakeRead
      <3>2. CoverageStage(got) \in {"coverage", "verdict"}
        BY DEF CoverageStage
      <3>3. cmd.kind # "validate"
        BY <2>2 DEF Gated
      <3> QED
        BY <1>0, <1>1, <1>3, <2>1, <3>1, <3>2, <3>3, AskStep
    <2>3. CASE ~(~got.err /\ cmd.kind \in Gated /\ emptyResult(got))
      <3>1. Say(Claim(got), got, None)
        BY <1>5, <2>3 DEF TakeRead
      <3>2. Claim(got) = "absent" => ~got.err /\ emptyResult(got)
        BY <1>0, EmptyIsEmpty DEF Claim
      <3>3. Justified(Claim(got), got, None)
        BY <1>0, <1>1, <2>1, <2>3, <3>2, ClaimIsJustified
      <3> QED
        BY <1>0, <2>1, <3>1, <3>3, SayStep
    <2> QED
      BY <2>2, <2>3
  <1>6. CASE TakeDefinition
    <2>1. stage = "read" /\ read' = got
      BY <1>6 DEF TakeDefinition
    <2>2. CASE got.err
      BY <1>0, <1>6, <2>1, <2>2, OtherwiseJustified, SayStep DEF TakeDefinition
    <2>3. CASE ~got.err
      <3>1. Ask("traversal") /\ verdict' = verdict
        BY <1>6, <2>3 DEF TakeDefinition
      <3> QED
        BY <1>0, <1>1, <1>3, <2>1, <3>1, AskStep
    <2> QED
      BY <2>2, <2>3
  <1>7. CASE TakeTraversal
    BY <1>0, <1>7, OtherwiseJustified, SayStep DEF TakeTraversal
  <1>8. CASE TakeLookup
    <2>1. stage = "read" /\ read' = got /\ cmd.kind = "validate"
      BY <1>8 DEF TakeLookup
    <2>2. CASE Found(got)
      <3>1. Say("valid", got, None)
        BY <1>8, <2>2 DEF TakeLookup
      <3> QED
        BY <1>0, <1>1, <2>1, <2>2, <3>1, HitIsJustified, SayStep
    <2>3. CASE ~Found(got)
      <3>1. \/ Say("error", got, None)
            \/ \E s \in {"verdict", "near"} : Ask(s) /\ verdict' = verdict
        BY <1>8, <2>3 DEF TakeLookup
      <3>2. CASE Say("error", got, None)
        BY <1>0, <2>1, <3>2, OtherwiseJustified, SayStep
      <3>3. ASSUME NEW s \in {"verdict", "near"}, Ask(s), verdict' = verdict PROVE IInv'
        BY <1>0, <1>1, <1>3, <2>1, <2>3, <3>3, AskStep
      <3> QED
        BY <3>1, <3>2, <3>3
    <2> QED
      BY <2>2, <2>3
  <1>9. CASE TakeNear
    <2>1. stage = "near" /\ read' = read /\ cmd.kind = "validate" /\ ~Found(read)
      BY <1>9 DEF TakeNear, GroundInv
    <2>2. \/ Say("invalid", read, verdict)
          \/ \E s \in {"verdict", "coverage"} : Ask(s) /\ verdict' = verdict
      BY <1>9 DEF TakeNear
    <2>3. CASE Say("invalid", read, verdict)
      BY <1>0, <1>2, <1>3, <2>1, <2>3, MissIsJustified, SayStep
    <2>4. ASSUME NEW s \in {"verdict", "coverage"}, Ask(s), verdict' = verdict PROVE IInv'
      BY <1>0, <1>2, <1>3, <2>1, <2>4, AskStep
    <2> QED
      BY <2>2, <2>3, <2>4
  <1>10. ASSUME stage \in {"coverage", "verdict"}, read' = read, Conclude(got.cover) PROVE IInv'
    <2>1. cmd.kind = "validate" => ~Found(read)
      BY <1>10 DEF GroundInv
    <2>2. got.cover # None
      BY <1>4, Bounds
    <2>3. CASE cmd.kind = "validate"
      <3>1. Say("invalid", read, got.cover)
        BY <1>10, <2>3 DEF Conclude
      <3>2. Justified("invalid", read, got.cover)
        BY <1>0, <1>2, <1>4, <1>10, <2>1, <2>3, MissIsJustified
      <3> QED
        BY <1>0, <1>10, <3>1, <3>2, SayStep
    <2>4. CASE cmd.kind # "validate"
      <3>1. Say(Claim(read), read, got.cover)
        BY <1>10, <2>4 DEF Conclude
      <3>2. Justified(Claim(read), read, got.cover)
        BY <1>0, <1>2, <1>4, <1>10, <2>2, ClaimIsJustified
      <3> QED
        BY <1>0, <1>10, <3>1, <3>2, SayStep
    <2> QED
      BY <2>3, <2>4
  <1>11. CASE TakeCoverage
    <2>1. stage = "coverage" /\ read' = read
      BY <1>11 DEF TakeCoverage
    <2>2. Say("error", read, None) \/ Conclude(got.cover) \/ (Ask("verdict") /\ verdict' = verdict)
      BY <1>11 DEF TakeCoverage
    <2>3. CASE Say("error", read, None)
      BY <1>0, <2>1, <2>3, OtherwiseJustified, SayStep
    <2>4. CASE Ask("verdict") /\ verdict' = verdict
      <3>1. cmd.kind = "validate" => ~Found(read)
        BY <2>1 DEF GroundInv
      <3> QED
        BY <1>0, <1>2, <1>3, <2>1, <2>4, <3>1, AskStep
    <2> QED
      BY <1>10, <2>1, <2>2, <2>3, <2>4
  <1>12. CASE TakeVerdict
    <2>1. stage = "verdict" /\ read' = read
      BY <1>12 DEF TakeVerdict
    <2>2. \/ Say("error", read, None)
          \/ Conclude(got.cover)
          \/ cmd.kind = "validate" /\ Ask("near") /\ verdict' = got.cover
      BY <1>12 DEF TakeVerdict
    <2>3. CASE Say("error", read, None)
      BY <1>0, <2>1, <2>3, OtherwiseJustified, SayStep
    <2>4. CASE cmd.kind = "validate" /\ Ask("near") /\ verdict' = got.cover
      <3>1. ~Found(read)
        BY <2>1, <2>4 DEF GroundInv
      <3> QED
        BY <1>0, <1>2, <1>4, <2>1, <2>4, <3>1, AskStep
    <2> QED
      BY <1>10, <2>1, <2>2, <2>3, <2>4
  <1> QED
    BY <1>5, <1>6, <1>7, <1>8, <1>9, <1>11, <1>12 DEF Take

LEMMA BeginStep ==
    ASSUME IInv, NEW kind \in Kinds, NEW sym \in Symbols, Begin(kind, sym)
    PROVE  IInv'
  <1> USE DEF IInv, Begin
  <1>1. cmd' \in [kind : Kinds, sym : Symbols] /\ cmd' # None
    BY Bounds
  <1>2. graph' \in [names : SUBSET Names, whole : BOOLEAN]
    BY Bounds
  <1>3. got' = NoResult /\ verdict' = None /\ stage' = "read" /\ call' = "dial"
    BY DEF GroundInv
  <1>4. call = "idle" /\ spawned' = spawned
    BY DEF TypeOK
  <1>5. TypeOK'
    <2>1. UNCHANGED <<face, memo, read, verdict, expired, got, spawned, moved, changes>>
      OBVIOUS
    <2>2. engine' \in {"new", "old", "oldest"} /\ resident' \in {"none", "serving", "refusing"}
      OBVIOUS
    <2> HIDE DEF Begin
    <2> QED
      BY <1>1, <1>2, <1>3, <2>1, <2>2 DEF TypeOK, Stages
  <1>6. CallInv'
    <2> HIDE DEF Begin
    <2> QED
      BY <1>3, <1>4 DEF CallInv
  <1>7. GroundInv'
    <2>1. Sound(got)'
      BY <1>3 DEF Sound, Faithful, NoResult
    <2> HIDE DEF Begin
    <2> QED
      BY <1>1, <1>3, <2>1, Bounds DEF GroundInv, Covers
  <1> QED
    BY <1>5, <1>6, <1>7, ReplyKept

LEMMA StepInv == IInv /\ [Next]_vars => IInv'
  <1> SUFFICES ASSUME IInv, [Next]_vars PROVE IInv'
    OBVIOUS
  <1>1. CASE Settle
    <2>1. /\ UNCHANGED <<graph, engine, resident, moved, changes, face, memo, cmd, stage, verdict,
                         expired, call, got, spawned>>
          /\ read' = NoResult /\ reply' = None
      BY <1>1 DEF Settle, around
    <2>2. TypeOK'
      BY <2>1, NoResultType DEF IInv, TypeOK
    <2>3. CallInv'
      BY <2>1 DEF IInv, CallInv
    <2>4. GroundInv'
      <3>1. Faithful(read)' /\ ~Found(read)'
        BY <2>1 DEF Faithful, Found, NoResult
      <3>2. Sound(got)' <=> Sound(got)
        BY <2>1 DEF Sound, Faithful
      <3> QED
        BY <2>1, <3>1, <3>2 DEF IInv, GroundInv
    <2> QED
      BY <2>1, <2>2, <2>3, <2>4, ReplyRead DEF IInv
  <1>2. CASE Interrupt
    BY <1>2, EndStep, ReplyRead, NoResultType DEF Interrupt, IInv
  <1>3. CASE UNCHANGED vars
    <2>1. UNCHANGED <<graph, engine, resident, moved, changes, face, memo, cmd, stage, read, verdict,
                      expired, call, got, reply, spawned>>
      BY <1>3 DEF vars, around, command
    <2>2. TypeOK' /\ CallInv'
      BY <2>1 DEF IInv, TypeOK, CallInv
    <2>3. GroundInv'
      BY <2>1 DEF IInv, GroundInv, Sound, Faithful, Found
    <2> QED
      BY <2>1, <2>2, <2>3, ReplyKept DEF IInv
  <1> QED
    BY <1>1, <1>2, <1>3, BeginStep, CallStep, TakeStep, AroundStep DEF Next, EngineCall, Take

LEMMA Invariant == Spec => []IInv
  BY InitInv, StepInv, PTL DEF Spec

-----------------------------------------------------------------------------
(* What is around the reader and what it knows have their types; a call    *)
(* starts an engine twice at most (cbmexec/exec.go, runEnvelope).          *)
THEOREM TypeCorrect == Spec => []TypeOK
  BY Invariant, PTL DEF IInv

(* Nothing is reported as not found without a coverage verdict, for any    *)
(* index, engine and resident and whatever becomes of them meanwhile.      *)
THEOREM AbsencesHaveVerdicts == Spec => []AbsenceHasVerdict
  BY Invariant, PTL DEF IInv, ReplyInv

(* What is concluded of a symbol or of a search is so of the index it was  *)
(* read from, and of the source when the verdict is clean.                 *)
THEOREM ConclusionsAreTrue == Spec => []ConclusionsHold
  BY Invariant, PTL DEF IInv, ReplyInv

-----------------------------------------------------------------------------
(* Replies: a cut is no step of the reader, and what it leaves.            *)

(* What a cut has made of a payload so far: a pruned one, every row it has *)
(* lost counted.                                                           *)
Cutting ==
    /\ \E names \in SUBSET Names : full = PayloadOf(names)
    /\ budget \in Nat /\ dropped \in Nat /\ left \in Nat /\ step \in Nat \ {0}
    /\ Pruned(root, full)
    /\ todo \subseteq rowContainers(full)
    /\ Droppable(full) = Droppable(root) + dropped

(* The list at hand has its first elements left, and none in it is still   *)
(* to come; a list that is done with has none.                             *)
Shortened ==
    /\ left > 0 => /\ list \in rowContainers(full)
                   /\ Children(root, list) = {Append(list, Idx(i)) : i \in 1 .. left}
                   /\ \A m \in todo : ~IsStrictPrefix(list, m)
    /\ outcome # "none" =>
        \A m \in rowContainers(full) \ todo : (left > 0 /\ m = list) \/ Children(root, m) = {}

(* How it ended.                                                           *)
Ended ==
    /\ outcome = "none" => root = full /\ (budget = 0 \/ Size(full) <= budget)
    /\ outcome = "truncated" => markedSize(root) <= budget
    /\ outcome = "exceeded" => left = 0 /\ todo = {}

CutInv ==
    /\ outcome \in {"idle", "trimming", "none", "truncated", "exceeded"}
    /\ outcome # "idle" => Cutting /\ Shortened /\ Ended

(* Before a list come those that are in it.                                *)
LEMMA BeforeIsNotAround ==
    ASSUME NEW l \in Paths, NEW m \in Paths, Before(l, m)
    PROVE  ~IsStrictPrefix(l, m)
  <1> SUFFICES ASSUME IsStrictPrefix(l, m) PROVE FALSE
    OBVIOUS
  <1>1. Len(l) < Len(m) /\ \A i \in 1 .. Len(l) : l[i] = m[i]
    BY StrictPrefix
  <1>2. Len(l) \in Nat /\ Len(m) \in Nat /\ DOMAIN l = 1 .. Len(l)
    BY DEF Paths
  <1>3. CASE IsStrictPrefix(m, l)
    <2>1. Len(m) < Len(l)
      BY <1>3, StrictPrefix
    <2> QED
      BY <1>1, <1>2, <2>1
  <1>4. ASSUME NEW i \in DOMAIN l, Earlier(l[i], m[i]) PROVE FALSE
    <2>1. l[i] = m[i] /\ l[i] \in Steps
      BY <1>1, <1>2, <1>4 DEF Paths
    <2>2. PICK s \in Steps : Earlier(s, s)
      BY <1>4, <2>1
    <2>3. CASE s.isKey
      <3>1. PICK j \in DOMAIN KeyOrder, k \in DOMAIN KeyOrder : j < k /\ KeyOrder[j] = s.key /\ KeyOrder[k] = s.key
        BY <2>2, <2>3 DEF Earlier
      <3>2. j = k
        BY <3>1, PayloadAssumption DEF IsInjective
      <3>3. j \in Nat
        BY PayloadAssumption
      <3> QED
        BY <3>1, <3>2, <3>3
    <2>4. CASE ~s.isKey
      <3>1. PICK j \in Nat : s = Idx(j)
        BY <2>4 DEF Steps, Key
      <3>2. s.idx < s.idx /\ s.idx = j
        BY <2>2, <2>4, <3>1 DEF Earlier, Idx
      <3> QED
        BY <3>2
    <2> QED
      BY <2>3, <2>4
  <1> QED
    BY <1>3, <1>4 DEF Before

(* What is left of a list is its first elements.                           *)
LEMMA ElementsLeft ==
    ASSUME NEW v, NEW r, IsTree(v), Pruned(r, v), NEW l \in rowContainers(v)
    PROVE  /\ Cardinality(Children(r, l)) \in Nat
           /\ Children(r, l) = {Append(l, Idx(i)) : i \in 1 .. Cardinality(Children(r, l))}
  <1>1. l \in DOMAIN v /\ l \in Paths /\ v[l].t = "arr"
    BY RowContainer DEF IsTree, ArrayOf
  <1>2. \E n \in Nat : Children(r, l) = {Append(l, Idx(i)) : i \in 1 .. n}
    <2>1. CASE l \in DOMAIN r
      BY <1>1, <2>1 DEF Pruned, IsTree
    <2>2. CASE l \notin DOMAIN r
      <3>1. Children(r, l) = {}
        BY <2>2, FrontInTree DEF Pruned, Children
      <3>2. 0 \in Nat /\ {Append(l, Idx(i)) : i \in 1 .. 0} = {}
        OBVIOUS
      <3> QED
        BY <3>1, <3>2
    <2> QED
      BY <2>1, <2>2
  <1>3. PICK n \in Nat : Children(r, l) = {Append(l, Idx(i)) : i \in 1 .. n}
    BY <1>2
  <1>4. Cardinality(Children(r, l)) = n
    <2>1. 0 \in Nat
      OBVIOUS
    <2>2. Cardinality({Append(l, Idx(i)) : i \in 0 + 1 .. n}) = IF 0 < n THEN n - 0 ELSE 0
      BY <1>1, <2>1, Elements
    <2>3. 0 + 1 = 1 /\ (IF 0 < n THEN n - 0 ELSE 0) = n
      OBVIOUS
    <2> QED
      BY <1>3, <2>2, <2>3
  <1> QED
    BY <1>3, <1>4

LEMMA DroppableType ==
    ASSUME NEW v, IsTree(v)
    PROVE  Droppable(v) \in Nat
  <1>1. RowsOf(v) \subseteq DOMAIN v
    BY DEF RowsOf
  <1>2. IsFiniteSet(RowsOf(v))
    BY <1>1, FS_Subset DEF IsTree
  <1> QED
    BY <1>2, FS_CardinalityType DEF Droppable

LEMMA NamesPayload ==
    ASSUME NEW names \in SUBSET Names
    PROVE  /\ IsFiniteSet(names) /\ IsTree(PayloadOf(names))
           /\ <<>> \notin rowContainers(PayloadOf(names))
  <1>1. IsFiniteSet(names)
    BY FS_Subset, ReadsAssumption
  <1> QED
    BY <1>1, PayloadTree

LEMMA MeasureStep ==
    ASSUME NEW names \in SUBSET Names, NEW b \in Budgets, Measure(PayloadOf(names), b)
    PROVE  CutInv'
  <1>1. PICK v : v = PayloadOf(names)
    OBVIOUS
  <1>2. IsTree(v) /\ Pruned(v, v) /\ Droppable(v) \in Nat
    BY <1>1, NamesPayload, TreeIsPruned, DroppableType
  <1>3. b \in Nat
    BY RepliesAssumption
  <1>4. /\ full' = v /\ budget' = b /\ root' = v /\ list' = <<>> /\ left' = 0 /\ step' = 1 /\ dropped' = 0
        /\ \/ (b = 0 \/ Size(v) <= b) /\ outcome' = "none" /\ todo' = {}
           \/ outcome' = "trimming" /\ todo' = rowContainers(v)
    BY <1>1 DEF Measure
  <1>5. Cutting'
    <2>1. Droppable(v) = Droppable(v) + 0
      BY <1>2
    <2> QED
      BY <1>1, <1>2, <1>3, <1>4, <2>1 DEF Cutting
  <1>6. Shortened'
    <2>1. ~(left' > 0)
      BY <1>4
    <2> QED
      BY <1>4, <2>1 DEF Shortened
  <1>7. Ended'
    BY <1>4 DEF Ended
  <1> QED
    BY <1>4, <1>5, <1>6, <1>7 DEF CutInv

LEMMA NextListStep ==
    ASSUME CutInv, NextList
    PROVE  CutInv'
  <1>1. /\ outcome = "trimming" /\ left = 0
        /\ UNCHANGED <<outcome, full, budget, root, dropped>> /\ step' = 1
    BY DEF NextList
  <1>2. Cutting /\ Shortened
    BY <1>1 DEF CutInv
  <1>3. PICK l \in todo : /\ \A m \in todo \ {l} : Before(l, m)
                          /\ list' = l /\ todo' = todo \ {l}
                          /\ left' = Cardinality(Children(root, l))
    BY DEF NextList
  <1>4. IsTree(full) /\ Pruned(root, full) /\ todo \subseteq rowContainers(full)
    BY <1>2, NamesPayload DEF Cutting
  <1>5. left' \in Nat /\ Children(root, l) = {Append(l, Idx(i)) : i \in 1 .. left'}
    BY <1>3, <1>4, ElementsLeft
  <1>6. Cutting'
    BY <1>1, <1>2, <1>3, <1>5 DEF Cutting
  <1>7. Shortened'
    <2>1. ASSUME NEW m \in todo' PROVE ~IsStrictPrefix(l, m)
      <3>1. l \in Paths /\ m \in Paths
        BY <1>3, <1>4 DEF rowContainers, IsTree
      <3> QED
        BY <1>3, <3>1, BeforeIsNotAround
    <2>2. ASSUME NEW m \in rowContainers(full) \ todo', left' = 0 \/ m # l
          PROVE  Children(root, m) = {}
      <3>1. CASE m = l
        <4>1. 1 .. left' = {}
          BY <2>2, <3>1
        <4> QED
          BY <1>5, <3>1, <4>1
      <3>2. CASE m # l
        BY <1>1, <1>2, <1>3, <3>2 DEF Shortened
      <3> QED
        BY <3>1, <3>2
    <2>3. left' = 0 \/ left' > 0
      BY <1>5
    <2> QED
      BY <1>1, <1>3, <1>4, <1>5, <2>1, <2>2, <2>3 DEF Shortened
  <1>8. Ended'
    BY <1>1 DEF Ended
  <1> QED
    BY <1>1, <1>6, <1>7, <1>8 DEF CutInv

LEMMA DropBatchStep ==
    ASSUME CutInv, DropBatch
    PROVE  CutInv'
  <1>1. /\ outcome = "trimming" /\ left > 0
        /\ outcome' = IF markedSize(root') <= budget THEN "truncated" ELSE "trimming"
        /\ step' = step * 2 /\ UNCHANGED <<full, budget, todo, list>>
    BY DEF DropBatch
  <1>2. Cutting /\ Shortened
    BY <1>1 DEF CutInv
  <1>3. PICK v : v = full
    OBVIOUS
  <1>4. PICK r : r = root
    OBVIOUS
  <1>5. PICK l : l = list
    OBVIOUS
  <1>6. PICK n \in Nat : n = left
    BY <1>2 DEF Cutting
  <1>7. PICK b : b = IF step > left THEN left ELSE step
    OBVIOUS
  <1>8. b \in 1 .. n
    BY <1>1, <1>2, <1>6, <1>7 DEF Cutting
  <1>9. root' = drop(r, l, b) /\ dropped' = dropped + b /\ left' = n - b
    BY <1>4, <1>5, <1>6, <1>7 DEF DropBatch
  <1>10. IsTree(v) /\ Pruned(r, v) /\ <<>> \notin rowContainers(v) /\ todo \subseteq rowContainers(v)
    BY <1>2, <1>3, <1>4, NamesPayload DEF Cutting
  <1>11. /\ l \in rowContainers(v) /\ Children(r, l) = {Append(l, Idx(i)) : i \in 1 .. n}
         /\ \A m \in todo : ~IsStrictPrefix(l, m)
         /\ \A m \in rowContainers(v) \ todo : m = l \/ Children(r, m) = {}
    BY <1>1, <1>2, <1>3, <1>4, <1>5, <1>6 DEF Shortened
  <1>12. Shortens(v, r, l, n, b)
    <2>1. \A m \in rowContainers(v) : IsStrictPrefix(l, m) => Children(r, m) = {}
      BY <1>11 DEF IsStrictPrefix
    <2> QED
      BY <1>8, <1>10, <1>11, <2>1 DEF Shortens
  <1>13. PICK d : d = drop(r, l, b)
    OBVIOUS
  <1>14. /\ Pruned(d, v) /\ Children(d, l) = {Append(l, Idx(i)) : i \in 1 .. n - b}
         /\ Droppable(r) \in Nat /\ Droppable(d) = Droppable(r) - b /\ DOMAIN d \subseteq DOMAIN r
    BY <1>12, <1>13, DropPrunes, DropElements, DropCounts, Dropped
  <1>15. \A m : Children(d, m) \subseteq Children(r, m)
    BY <1>14 DEF Children
  <1>16. /\ full' = v /\ root' = d /\ list' = l /\ left' = n - b /\ todo' = todo
         /\ outcome' \in {"truncated", "trimming"}
    BY <1>1, <1>3, <1>5, <1>9, <1>13
  <1>17. Cutting'
    <2>1. /\ \E names \in SUBSET Names : v = PayloadOf(names)
          /\ Droppable(v) = Droppable(r) + dropped
          /\ budget \in Nat /\ dropped \in Nat /\ step \in Nat \ {0}
      BY <1>2, <1>3, <1>4 DEF Cutting
    <2>2. /\ budget' \in Nat /\ dropped' \in Nat /\ left' \in Nat /\ step' \in Nat \ {0}
      BY <1>1, <1>8, <1>9, <2>1
    <2>3. Droppable(v) = Droppable(d) + dropped'
      BY <1>8, <1>9, <1>14, <2>1
    <2> QED
      BY <1>10, <1>14, <1>16, <2>1, <2>2, <2>3 DEF Cutting
  <1>18. Shortened'
    <2>1. ASSUME NEW m \in rowContainers(v) \ todo PROVE (n - b > 0 /\ m = l) \/ Children(d, m) = {}
      <3>1. CASE m = l /\ ~(n - b > 0)
        <4>1. 1 .. n - b = {}
          BY <1>8, <3>1
        <4> QED
          BY <1>14, <3>1, <4>1
      <3>2. CASE m # l
        BY <1>11, <1>15, <3>2
      <3> QED
        BY <3>1, <3>2
    <2> QED
      BY <1>11, <1>14, <1>16, <2>1 DEF Shortened
  <1>19. Ended'
    BY <1>1 DEF Ended
  <1> QED
    BY <1>16, <1>17, <1>18, <1>19 DEF CutInv

LEMMA ExceedStep ==
    ASSUME CutInv, Exceed
    PROVE  CutInv'
  <1>1. /\ outcome = "trimming" /\ left = 0 /\ todo = {} /\ outcome' = "exceeded"
        /\ UNCHANGED <<full, budget, root, todo, list, left, step, dropped>>
    BY DEF Exceed
  <1>2. Cutting /\ Shortened
    BY <1>1 DEF CutInv
  <1>3. Cutting'
    BY <1>1, <1>2 DEF Cutting
  <1>4. Shortened'
    BY <1>1, <1>2 DEF Shortened
  <1>5. Ended'
    BY <1>1 DEF Ended
  <1> QED
    BY <1>1, <1>3, <1>4, <1>5 DEF CutInv

LEMMA CutStep == IInv /\ CutInv /\ [ReplyNext]_all => CutInv'
  <1> SUFFICES ASSUME IInv, CutInv, [ReplyNext]_all PROVE CutInv'
    OBVIOUS
  <1>1. ASSUME NEW b \in Budgets, Cut(b) PROVE CutInv'
    <2>1. reply.names \in SUBSET Names
      BY <1>1 DEF Cut, HasPayload, IInv, ReplyInv, NamesShown
    <2> QED
      BY <1>1, <2>1, MeasureStep DEF Cut
  <1>2. CASE Written
    BY <1>2 DEF Written, CutInv
  <1>3. CASE UNCHANGED cut
    BY <1>3 DEF cut, CutInv, Cutting, Shortened, Ended
  <1> QED
    BY <1>1, <1>2, <1>3, NextListStep, DropBatchStep, ExceedStep DEF ReplyNext, Plain, all

(* A reader whose replies are cut goes through its steps and no others: it *)
(* implements Reads, all that is proved of which holds of it.              *)
THEOREM RepliesImplementReads == ReplySpec => Spec
  <1>1. ReplyInit => Init
    BY DEF ReplyInit
  <1>2. [ReplyNext]_all => [Next]_vars
    <2> SUFFICES ASSUME [ReplyNext]_all PROVE [Next]_vars
      OBVIOUS
    <2>1. CASE Next /\ Plain
      BY <2>1
    <2>2. CASE \E b \in Budgets : Cut(b)
      BY <2>2 DEF Cut, Next
    <2>3. CASE NextList \/ DropBatch \/ Exceed \/ Written
      BY <2>3 DEF NextList, DropBatch, Exceed, Written
    <2>4. CASE UNCHANGED all
      BY <2>4 DEF all
    <2> QED
      BY <2>1, <2>2, <2>3, <2>4 DEF ReplyNext
  <1> QED
    BY <1>1, <1>2, PTL DEF ReplySpec, Spec

LEMMA CutInvariant == ReplySpec => []CutInv
  <1>1. ReplyInit => CutInv
    BY DEF ReplyInit, CutInit, CutInv
  <1> QED
    BY <1>1, CutStep, Invariant, RepliesImplementReads, PTL DEF ReplySpec

(* Whatever the budget, what is taken from a payload is rows, each of them *)
(* counted; what is said to be truncated fits with its markers; the        *)
(* counters stay, and with them whether the payload says that something    *)
(* was found (cbmexec/exec.go, BudgetResult).                              *)
THEOREM BudgetTakesOnlyRows == ReplySpec => []BudgetTakesRows
  <1>1. ASSUME CutInv, outcome # "idle" PROVE BudgetTakesRows
    <2>1. Cutting /\ Shortened /\ Ended
      BY <1>1 DEF CutInv
    <2>2. PICK names \in SUBSET Names : full = PayloadOf(names)
      BY <2>1 DEF Cutting
    <2>3. Pruned(root, full) /\ IsTree(root) /\ IsTree(full) /\ IsFiniteSet(names)
      BY <2>1, <2>2, NamesPayload DEF Cutting, Pruned
    <2>4. BudgetSpentOnRows
      BY <2>1 DEF Cutting, Ended, BudgetSpentOnRows
    <2>5. ASSUME NEW q \in DOMAIN full, \A l \in rowContainers(full) : ~IsStrictPrefix(l, q)
          PROVE  q \in DOMAIN root /\ root[q] = full[q]
      BY <2>3, <2>5 DEF Pruned
    <2>6. LooksEmptyData(root) <=> LooksEmptyData(full)
      <3>1. Pruned(root, PayloadOf(names)) /\ Pruned(full, PayloadOf(names))
        BY <2>2, <2>3, TreeIsPruned
      <3> QED
        BY <2>3, <3>1, JudgedAsNames
    <2>7. CountersSurvive
      BY <2>5, <2>6 DEF CountersSurvive
    <2> QED
      BY <2>4, <2>7 DEF BudgetTakesRows
  <1>2. CutInv => BudgetTakesRows
    BY <1>1 DEF BudgetTakesRows, BudgetSpentOnRows, CountersSurvive
  <1> QED
    BY <1>2, CutInvariant, PTL
=============================================================================
