----------------------------- MODULE FactsProofs -----------------------------
(***************************************************************************)
(* Proofs about Facts: its types; that a value which looks like a secret is*)
(* a fact only by an approval; that a decision is final; and that the store*)
(* implements FactStore, for any number of processes, keys and reviews.    *)
(***************************************************************************)
EXTENDS Facts, TLAPS

(* What an approval has read is still so, unless it has been overtaken.    *)
RowInv == \A q \in Procs : pc[q] # "idle" /\ q \notin stale => queue[id[q]] = row[q]

StoredFact(q) == [facts EXCEPT ![row[q].key] = [value |-> row[q].value, at |-> row[q].at]]
ClosedReview(q) == [queue EXCEPT ![id[q]] = [@ EXCEPT !.status = "approved"]]

(* The writer has not been overtaken, and its draft is the committed rows  *)
(* and what it has written over them.                                      *)
DraftInv ==
    \A q \in Procs : pc[q] \in {"upsert", "marked"} =>
        /\ q \notin stale
        /\ draft.facts = StoredFact(q)
        /\ draft.queue = IF pc[q] = "marked" THEN ClosedReview(q) ELSE queue

IInv == TypeOK /\ RowInv /\ DraftInv /\ SecretsApproved

LEMMA InitIInv == Init => IInv
  BY FactsAssumption
  DEF Init, IInv, TypeOK, RowInv, DraftInv, SecretsApproved, NoRows, Contract!Fact, Contract!Review

\* What is written into the tables has its type.
LEMMA Rows ==
    /\ \A k \in Keys, v \in Secrets, t \in Nat :
          [key |-> k, value |-> v, at |-> t, status |-> "pending"] \in Pending
    /\ \A v \in Plain \cup Secrets, t \in Nat : [value |-> v, at |-> t] \in Contract!Fact
    /\ \A r \in Pending : /\ r \in Contract!Review /\ r # None
                          /\ [r EXCEPT !.status = "approved"] \in Contract!Review
                          /\ [r EXCEPT !.status = "rejected"] \in Contract!Review
                          /\ r.key \in Keys /\ r.value \in Secrets /\ r.at \in Nat
                          /\ r.status = "pending"
  BY FactsAssumption DEF Pending, Contract!Review, Contract!Fact

LEMMA IInvStep == IInv /\ [Next]_vars => IInv'
  <1> SUFFICES ASSUME IInv, [Next]_vars PROVE IInv'
    OBVIOUS
  <1> USE DEF IInv
  <1>1. ASSUME NEW q \in Procs, NEW k \in Keys, NEW v \in Plain \cup Secrets, Save(q, k, v)
        PROVE  IInv'
    <2>1. CASE DetectSecret(v)
      <3>1. PICK i \in Ids :
              /\ queue[i] = None
              /\ queue' = [queue EXCEPT ![i] = [key |-> k, value |-> v, at |-> now,
                                                status |-> "pending"]]
              /\ facts' = facts
        BY <1>1, <2>1 DEF Save
      <3>2. [key |-> k, value |-> v, at |-> now, status |-> "pending"] \in Contract!Review
        BY <2>1, Rows DEF DetectSecret, TypeOK
      <3>3. TypeOK'
        BY <1>1, <3>1, <3>2 DEF TypeOK, Save, Overtaken
      <3>4. RowInv'
        BY <1>1 DEF RowInv, Save, Overtaken, TypeOK
      <3>5. DraftInv'
        BY <1>1, FactsAssumption DEF DraftInv, Save, TypeOK
      <3>6. SecretsApproved'
        BY <1>1, <3>1 DEF SecretsApproved, DetectSecret, TypeOK
      <3> QED
        BY <3>3, <3>4, <3>5, <3>6
    <2>2. CASE ~DetectSecret(v)
      <3>1. facts' = [facts EXCEPT ![k] = [value |-> v, at |-> now]] /\ queue' = queue
        BY <1>1, <2>2 DEF Save
      <3>2. TypeOK'
        BY <1>1, <3>1, Rows DEF TypeOK, Save, Overtaken
      <3>3. RowInv'
        BY <1>1 DEF RowInv, Save, Overtaken, TypeOK
      <3>4. DraftInv'
        BY <1>1, FactsAssumption DEF DraftInv, Save, TypeOK
      <3>5. SecretsApproved'
        BY <2>2, <3>1 DEF SecretsApproved, DetectSecret, TypeOK
      <3> QED
        BY <3>2, <3>3, <3>4, <3>5
    <2> QED
      BY <2>1, <2>2
  <1>2. ASSUME NEW q \in Procs, NEW i \in Ids, Reject(q, i) PROVE IInv'
    <2>1. queue[i] \in Pending
      BY <1>2, FactsAssumption DEF Reject, IsPending, TypeOK, Pending
    <2>2. TypeOK'
      BY <1>2, <2>1, Rows DEF TypeOK, Reject, Overtaken
    <2>3. RowInv'
      BY <1>2 DEF RowInv, Reject, Overtaken, TypeOK
    <2>4. DraftInv'
      BY <1>2, FactsAssumption DEF DraftInv, Reject, TypeOK
    <2>5. SecretsApproved'
      BY <1>2, <2>1, Rows DEF SecretsApproved, Reject, TypeOK, DetectSecret
    <2> QED
      BY <2>2, <2>3, <2>4, <2>5
  <1>3. ASSUME NEW q \in Procs, NEW i \in Ids, ReadReview(q, i) PROVE IInv'
    <2>1. queue[i] \in Pending
      BY <1>3, FactsAssumption DEF ReadReview, IsPending, TypeOK, Pending
    <2>2. TypeOK'
      BY <1>3, <2>1 DEF TypeOK, ReadReview, Pending
    <2>3. RowInv'
      BY <1>3 DEF RowInv, ReadReview, TypeOK
    <2>4. DraftInv'
      BY <1>3 DEF DraftInv, ReadReview, TypeOK, StoredFact, ClosedReview
    <2>5. SecretsApproved'
      BY <1>3 DEF SecretsApproved, ReadReview
    <2> QED
      BY <2>2, <2>3, <2>4, <2>5
  <1>4. ASSUME NEW q \in Procs, Upsert(q) PROVE IInv'
    <2>1. row[q] \in Pending /\ row[q].key \in Keys
          /\ [value |-> row[q].value, at |-> row[q].at] \in Contract!Fact
      BY <1>4, Rows DEF Upsert, TypeOK
    <2>2. draft' = [facts |-> StoredFact(q), queue |-> queue]
      BY <1>4 DEF Upsert, Committed, StoredFact
    <2>3. StoredFact(q) \in [Keys -> Contract!Fact \cup {None}]
      BY <2>1 DEF StoredFact, TypeOK
    <2> /\ pc[q] = "read" /\ writer = None /\ q \notin stale
        /\ writer' = q /\ pc' = [pc EXCEPT ![q] = "upsert"]
        /\ UNCHANGED <<facts, queue, id, row, stale, now>>
      BY <1>4 DEF Upsert
    <2>8. draft' \in [facts : [Keys -> Contract!Fact \cup {None}],
                     queue : [Ids -> Contract!Review \cup {None}]]
      BY <2>2, <2>3 DEF TypeOK
    <2>9. \A p \in Procs : p # q => pc[p] \notin {"upsert", "marked"} /\ pc'[p] = pc[p]
      BY FactsAssumption DEF TypeOK
    <2>10. pc' \in [Procs -> {"idle", "read", "upsert", "marked"}] /\ pc'[q] = "upsert"
      BY DEF TypeOK
    <2>4. TypeOK'
      BY <2>8, <2>9, <2>10 DEF TypeOK
    <2>5. RowInv'
      BY <1>4 DEF RowInv, Upsert, TypeOK
    <2>6. DraftInv'
      BY <2>2, <2>9, <2>10 DEF DraftInv, StoredFact
    <2>7. SecretsApproved'
      BY <1>4 DEF SecretsApproved, Upsert
    <2> QED
      BY <2>4, <2>5, <2>6, <2>7
  <1>5. ASSUME NEW q \in Procs, MarkApproved(q) PROVE IInv'
    <2>1. /\ id[q] \in Ids /\ row[q] \in Pending /\ queue[id[q]] = row[q]
          /\ q \notin stale /\ draft.facts = StoredFact(q) /\ draft.queue = queue
      BY <1>5 DEF MarkApproved, TypeOK, RowInv, DraftInv
    <2>2. draft' = [facts |-> draft.facts, queue |-> ClosedReview(q)]
      BY <1>5, <2>1 DEF MarkApproved, ClosedReview, TypeOK
    <2>3. ClosedReview(q) \in [Ids -> Contract!Review \cup {None}]
      BY <2>1, Rows DEF ClosedReview, TypeOK
    <2>4. TypeOK'
      BY <1>5, <2>1, <2>2, <2>3, FactsAssumption DEF TypeOK, MarkApproved
    <2>5. RowInv'
      BY <1>5 DEF RowInv, MarkApproved, TypeOK
    <2>6. DraftInv'
      BY <1>5, <2>1, <2>2, FactsAssumption DEF DraftInv, MarkApproved, TypeOK, StoredFact, ClosedReview
    <2>7. SecretsApproved'
      BY <1>5 DEF SecretsApproved, MarkApproved
    <2> QED
      BY <2>4, <2>5, <2>6, <2>7
  <1>6. ASSUME NEW q \in Procs, Commit(q) PROVE IInv'
    <2>1. /\ id[q] \in Ids /\ row[q] \in Pending /\ queue[id[q]] = row[q] /\ writer = q
          /\ facts' = StoredFact(q) /\ queue' = ClosedReview(q)
      BY <1>6 DEF Commit, TypeOK, RowInv, DraftInv
    <2>2. TypeOK'
      BY <1>6, <2>1, FactsAssumption DEF TypeOK, Commit, Finish, Overtaken, NoRows
    <2>3. RowInv'
      BY <1>6 DEF RowInv, Commit, Finish, Overtaken, TypeOK
    <2>4. DraftInv'
      BY <1>6, <2>1, FactsAssumption DEF DraftInv, Commit, Finish, TypeOK
    <2>5. SecretsApproved'
      <3>1. /\ queue'[id[q]] = [row[q] EXCEPT !.status = "approved"]
            /\ \A i \in Ids \ {id[q]} : queue'[i] = queue[i]
        BY <2>1 DEF ClosedReview, TypeOK
      <3>2. /\ queue'[id[q]] # None /\ queue'[id[q]].status = "approved"
            /\ queue'[id[q]].key = row[q].key /\ queue'[id[q]].value = row[q].value
        BY <2>1, <3>1, Rows, FactsAssumption DEF Pending, Contract!Review
      <3>3. /\ row[q].key \in Keys /\ facts'[row[q].key].value = row[q].value
            /\ \A k \in Keys \ {row[q].key} : facts'[k] = facts[k]
        BY <2>1, Rows DEF StoredFact, TypeOK
      <3>4. queue[id[q]].status = "pending"
        BY <2>1, Rows
      <3> QED
        <4> SUFFICES ASSUME NEW k \in Keys, facts'[k] # None, DetectSecret(facts'[k].value)
                     PROVE  \E i \in Ids : /\ queue'[i] # None /\ queue'[i].status = "approved"
                                           /\ queue'[i].key = k /\ queue'[i].value = facts'[k].value
          BY DEF SecretsApproved, DetectSecret
        <4>1. CASE k = row[q].key
          BY <2>1, <3>2, <3>3, <4>1
        <4>2. CASE k # row[q].key
          <5>1. PICK i \in Ids : /\ queue[i] # None /\ queue[i].status = "approved"
                                 /\ queue[i].key = k /\ queue[i].value = facts[k].value
            BY <3>3, <4>2 DEF SecretsApproved
          <5> QED
            BY <3>1, <3>3, <3>4, <4>2, <5>1
        <4> QED
          BY <4>1, <4>2
    <2> QED
      BY <2>2, <2>3, <2>4, <2>5
  <1>7. ASSUME NEW q \in Procs, Rollback(q) PROVE IInv'
    <2>1. TypeOK'
      BY <1>7, FactsAssumption DEF TypeOK, Rollback, Finish, NoRows
    <2>2. RowInv'
      BY <1>7 DEF RowInv, Rollback, Finish, TypeOK
    <2>3. DraftInv'
      BY <1>7, FactsAssumption DEF DraftInv, Rollback, Finish, TypeOK, StoredFact, ClosedReview
    <2>4. SecretsApproved'
      BY <1>7 DEF SecretsApproved, Rollback
    <2> QED
      BY <2>1, <2>2, <2>3, <2>4
  <1>8. CASE Tick
    BY <1>8 DEF Tick, TypeOK, RowInv, DraftInv, SecretsApproved, StoredFact, ClosedReview
  <1>9. CASE UNCHANGED vars
    BY <1>9 DEF vars, TypeOK, RowInv, DraftInv, SecretsApproved, StoredFact, ClosedReview
  <1> QED
    BY <1>1, <1>2, <1>3, <1>4, <1>5, <1>6, <1>7, <1>8, <1>9 DEF Next, Captures, Reviews, Approval

LEMMA Invariant == Spec => []IInv
  BY InitIInv, IInvStep, PTL DEF Spec

\* The types of the store.
THEOREM TypeCorrect == Spec => []TypeOK
  BY Invariant, PTL DEF IInv

\* A value that looks like a secret is a fact only by an approval (Save, Approve).
THEOREM SecretsAreApproved == Spec => []SecretsApproved
  BY Invariant, PTL DEF IInv

\* A decision is final (the WHERE clauses of Approve and Reject, the transaction).
THEOREM DecisionsAreFinal == Spec => DecidedOnce
  <1>1. IInv /\ [Next]_vars =>
          [\A i \in Ids : queue[i] # None /\ queue[i].status # "pending" => queue'[i] = queue[i]]_vars
    <2> SUFFICES ASSUME IInv, Next, NEW i \in Ids, queue[i] # None, queue[i].status # "pending"
                 PROVE  queue'[i] = queue[i]
      BY DEF vars
    <2> USE DEF IInv
    <2>1. ASSUME NEW q \in Procs, NEW k \in Keys, NEW v \in Plain \cup Secrets, Save(q, k, v)
          PROVE  queue'[i] = queue[i]
      BY <2>1 DEF Save, TypeOK
    <2>2. ASSUME NEW q \in Procs, NEW j \in Ids, Reject(q, j) \/ ReadReview(q, j)
          PROVE  queue'[i] = queue[i]
      BY <2>2 DEF Reject, ReadReview, IsPending, TypeOK
    <2>3. ASSUME NEW q \in Procs, Commit(q) PROVE queue'[i] = queue[i]
      <3>1. id[q] \in Ids /\ row[q] \in Pending /\ queue[id[q]] = row[q] /\ queue' = ClosedReview(q)
        BY <2>3 DEF Commit, TypeOK, RowInv, DraftInv
      <3> QED
        BY <3>1, Rows DEF ClosedReview, TypeOK
    <2> QED
      BY <2>1, <2>2, <2>3 DEF Next, Captures, Reviews, Approval, Upsert, MarkApproved, Rollback, Tick
  <1> QED
    BY <1>1, Invariant, PTL DEF Spec, DecidedOnce

\* The transaction, seen through its commit, is one step of the store that stores
\* the fact and closes the review; every other step is a step of it or none.
THEOREM Implementation == Spec => ImplementsFactStore
  <1>1. Init => Contract!Init
    BY DEF Init, Contract!Init, NoRows
  <1>2. IInv /\ [Next]_vars => [Contract!Next]_(Contract!vars)
    <2> SUFFICES ASSUME IInv, Next PROVE Contract!Next \/ UNCHANGED <<facts, queue>>
      BY DEF vars, Contract!vars
    <2> USE DEF IInv
    <2>1. ASSUME NEW q \in Procs, NEW k \in Keys, NEW v \in Plain \cup Secrets, Save(q, k, v)
          PROVE  Contract!Next
      <3>1. CASE DetectSecret(v)
        <4>1. PICK i \in Ids :
                /\ queue[i] = None
                /\ queue' = [queue EXCEPT ![i] = [key |-> k, value |-> v, at |-> now,
                                                  status |-> "pending"]]
                /\ facts' = facts
          BY <2>1, <3>1 DEF Save
        <4>2. queue'[i] \in Contract!Review /\ queue'[i].status = "pending"
          <5>1. queue'[i] = [key |-> k, value |-> v, at |-> now, status |-> "pending"]
            BY <4>1 DEF TypeOK
          <5>2. queue'[i] \in Pending
            BY <3>1, <5>1, Rows DEF DetectSecret, TypeOK
          <5> QED
            BY <5>2 DEF Pending
        <4>3. queue' = [queue EXCEPT ![i] = queue'[i]]
          BY <4>1 DEF TypeOK
        <4>4. Contract!Enqueue
          BY <4>1, <4>2, <4>3 DEF Contract!Enqueue
        <4> QED
          BY <4>4 DEF Contract!Next
      <3>2. CASE ~DetectSecret(v)
        <4>1. facts' = [facts EXCEPT ![k] = [value |-> v, at |-> now]] /\ queue' = queue
          BY <2>1, <3>2 DEF Save
        <4>2. facts'[k] = [value |-> v, at |-> now] /\ facts' = [facts EXCEPT ![k] = facts'[k]]
          BY <4>1 DEF TypeOK
        <4>3. facts'[k] \in [value : Plain, at : Nat]
          BY <3>2, <4>2 DEF DetectSecret, TypeOK
        <4>4. Contract!Store
          BY <4>1, <4>2, <4>3 DEF Contract!Store, Contract!Put
        <4> QED
          BY <4>4 DEF Contract!Next
      <3> QED
        BY <3>1, <3>2
    <2>2. ASSUME NEW q \in Procs, NEW i \in Ids, Reject(q, i) PROVE Contract!Next
      BY <2>2 DEF Reject, IsPending, Contract!Next, Contract!Reject, Contract!Decide
    <2>3. ASSUME NEW q \in Procs, Commit(q) PROVE Contract!Next
      <3>1. /\ id[q] \in Ids /\ row[q] \in Pending /\ queue[id[q]] = row[q]
            /\ facts' = StoredFact(q) /\ queue' = ClosedReview(q)
        BY <2>3 DEF Commit, TypeOK, RowInv, DraftInv
      <3>2. row[q] # None /\ row[q].status = "pending"
        BY <3>1, Rows
      <3>3. Contract!Decide(id[q], "approved")
        BY <3>1, <3>2 DEF Contract!Decide, ClosedReview
      <3>4. Contract!Put(queue[id[q]].key, [value |-> queue[id[q]].value, at |-> queue[id[q]].at])
        BY <3>1 DEF Contract!Put, StoredFact
      <3> QED
        BY <3>1, <3>3, <3>4 DEF Contract!Next, Contract!Approve
    <2> QED
      BY <2>1, <2>2, <2>3 DEF Next, Captures, Reviews, Approval, ReadReview, Upsert, MarkApproved, Rollback, Tick
  <1> QED
    BY <1>1, <1>2, Invariant, PTL DEF Spec, ImplementsFactStore, Contract!Spec
=============================================================================
