------------------------------ MODULE Payload ------------------------------
(***************************************************************************)
(* What tk makes of the payload of a reply (internal/cbmexec/exec.go):     *)
(* whether it states that nothing was found, and which of its lists may be *)
(* shortened to spend a budget.                                            *)
(*                                                                         *)
(* A decoded payload is a tree, here a function from the paths of its      *)
(* nodes to what they are: numbers, scalars, arrays and objects. Its bytes *)
(* are abstracted to its nodes, a member being one more.                   *)
(***************************************************************************)
EXTENDS Naturals, FiniteSets, Sequences, SequencesExt

CONSTANTS
    KeyOrder,       \* the keys of objects, in the order sort.Strings gives them
    EvidenceKeys    \* those evidenceKey matches: totals, counts, rows, ...

ASSUME PayloadAssumption ==
    /\ KeyOrder \in Seq(STRING) /\ IsInjective(KeyOrder)
    /\ {"callees_total", "callers_total", "groups", "qualifier", "rows"} \subseteq Range(KeyOrder)
    /\ {"callees_total", "callers_total", "rows"} \subseteq EvidenceKeys
    /\ {"groups", "qualifier"} \cap EvidenceKeys = {}

\* A step of a path: a member of an object, or an element of an array.
Key(k) == [isKey |-> TRUE, key |-> k, idx |-> 0]
Idx(i) == [isKey |-> FALSE, key |-> "", idx |-> i]
Steps == {Key(k) : k \in Range(KeyOrder)} \cup {Idx(i) : i \in Nat}

Node(t, n) == [t |-> t, n |-> n]

\* The elements of an array, the members of an object.
Children(v, q) == {e \in DOMAIN v : e # <<>> /\ Front(e) = q}

-----------------------------------------------------------------------------
(* The payload of a lookup: a group for each qualifier, in it a row for    *)
(* each name, and a counter for the names of each kind.                    *)

\* A group for each entry of `rows`, with so many rows of two columns.
Table(rows, callees, callers) ==
    LET groups == <<Key("groups")>>
        Group(i) == Append(groups, Idx(i))
        Rows(i) == Append(Group(i), Key("rows"))
        Row(i, j) == Append(Rows(i), Idx(j))
        objects == {<<>>} \cup {Group(i) : i \in DOMAIN rows}
        arrays == {groups} \cup {Rows(i) : i \in DOMAIN rows}
                    \cup UNION {{Row(i, j) : j \in 1 .. rows[i]} : i \in DOMAIN rows}
        texts == {Append(Group(i), Key("qualifier")) : i \in DOMAIN rows}
                    \cup UNION {{Append(Row(i, j), Idx(c)) : j \in 1 .. rows[i], c \in 1 .. 2} : i \in DOMAIN rows}
        callees_total == <<Key("callees_total")>>
        callers_total == <<Key("callers_total")>>
    IN [p \in objects \cup arrays \cup texts \cup {callees_total, callers_total} |->
            CASE p \in objects -> Node("obj", 0)
              [] p \in arrays -> Node("arr", 0)
              [] p \in texts -> Node("str", 0)
              [] OTHER -> Node("num", IF p = callees_total THEN callees ELSE callers)]

PayloadOf(names) ==
    LET qualifiers == SetToSeq({Front(n) : n \in names})
    IN Table([i \in DOMAIN qualifiers |-> Cardinality({n \in names : Front(n) = qualifiers[i]})],
             Cardinality({n \in names : Len(n) = 1}), Cardinality({n \in names : Len(n) # 1}))

-----------------------------------------------------------------------------
(* Emptiness.                                                              *)

IsEvidence(s) == s.isKey /\ s.key \in EvidenceKeys

\* A counter is read and not walked into.
Counter(q) == {i \in DOMAIN q : IsEvidence(q[i])} = {Len(q)}

\* What a counter says: whether it counts nothing. Other values say nothing.
Reading(v, q) ==
    CASE v[q].t = "num" -> {v[q].n = 0}
      [] v[q].t = "arr" -> {Children(v, q) = {}}
      [] OTHER -> {}

scanEvidence(v) == UNION {Reading(v, q) : q \in {q \in DOMAIN v : Counter(q)}}

\* A counter was seen, and every one of them is zero.
LooksEmptyData(v) == scanEvidence(v) = {TRUE}

-----------------------------------------------------------------------------
(* The lists a budget may shorten.                                         *)

Size(v) == Cardinality(DOMAIN v) + Cardinality({q \in DOMAIN v : q # <<>> /\ Last(q).isKey})

\* budget_truncated and rows_dropped, which only an object can carry.
markedSize(v) == Size(v) + (IF v[<<>>].t = "obj" THEN 4 ELSE 0)

\* The first element tells; an array without one is both.
ArrayOf(v, q, t) ==
    v[q].t = "arr" /\ (Append(q, Idx(1)) \in DOMAIN v => v[Append(q, Idx(1))].t = t)
isRowArray(v, q) == ArrayOf(v, q, "arr")
isObjectArray(v, q) == ArrayOf(v, q, "obj")

\* Tables of rows and lists of records, but nothing within a row.
rowContainers(v) ==
    {q \in DOMAIN v : /\ isRowArray(v, q) \/ isObjectArray(v, q)
                      /\ \A i \in 0 .. Len(q) - 1 : ~isRowArray(v, SubSeq(q, 1, i))}

\* By key or index.
Earlier(s, t) ==
    IF s.isKey THEN \E i, j \in DOMAIN KeyOrder : i < j /\ KeyOrder[i] = s.key /\ KeyOrder[j] = t.key
               ELSE s.idx < t.idx

\* Mutant of Before: a list of records before the rows they have.
RecordsFirst(l, m) ==
    \/ IsStrictPrefix(l, m)
    \/ \E i \in DOMAIN l \cap DOMAIN m :
        (\A j \in 1 .. i - 1 : l[j] = m[j]) /\ Earlier(l[i], m[i])

\* Before the list a record is in come the rows it has.
Before(l, m) ==
    \/ IsStrictPrefix(m, l)
    \/ \E i \in DOMAIN l \cap DOMAIN m :
        (\A j \in 1 .. i - 1 : l[j] = m[j]) /\ Earlier(l[i], m[i])

\* The last n elements of a list, and all that is in them. The payload itself
\* cannot be replaced.
drop(v, l, n) ==
    IF l = <<>> THEN v
    ELSE LET kept == Cardinality(Children(v, l)) - n
         IN Restrict(v, {p \in DOMAIN v : IsStrictPrefix(l, p) => p[Len(l) + 1].idx <= kept})

\* What could be dropped: the rows and records of every list.
RowsOf(v) ==
    LET lists == rowContainers(v) IN {e \in DOMAIN v : e # <<>> /\ Front(e) \in lists}
Droppable(v) == Cardinality(RowsOf(v))
=============================================================================
