-------------------------------- MODULE Facts --------------------------------
(***************************************************************************)
(* The fact memory (internal/memory/facts.go): `tk mem save`, `review      *)
(* approve` and `review reject`, and the same tools of an MCP session, from*)
(* several processes on one SQLite file.                                   *)
(*                                                                         *)
(* A process has one connection. A statement of its own is atomic; the     *)
(* approval is a deferred transaction of a read and two writes. As for the *)
(* database: there is one writer at a time, a transaction sees the rows    *)
(* as they were when it read first, it cannot write once they have changed *)
(* since, and what it writes shows when it commits.                        *)
(***************************************************************************)
EXTENDS Naturals

CONSTANTS
    Procs,          \* processes
    Keys,           \* (scope, project, topic)
    Plain, Secrets, \* values, and those DetectSecret reports
    Ids,            \* ids of reviews
    MaxNow,         \* bound: seconds that pass
    None

VARIABLES
    facts,          \* [Keys -> ...] table facts, as committed
    queue,          \* [Ids -> ...] table review_queue, as committed
    writer,         \* who holds the write lock
    draft,          \* [facts, queue] as the writer has them
    pc,             \* [Procs -> ...] where an approval stands
    id,             \* [Procs -> ...] the review it is about
    row,            \* [Procs -> ...] the row it has read
    stale,          \* the processes whose read another commit has overtaken
    now             \* time.Now().Unix()

vars == <<facts, queue, writer, draft, pc, id, row, stale, now>>

Contract == INSTANCE FactStore

ASSUME FactsAssumption ==
    /\ Plain \cap Secrets = {} /\ MaxNow \in Nat
    /\ None \notin Procs /\ None \notin Contract!Fact /\ None \notin Contract!Review

Pending == {r \in Contract!Review : r.status = "pending"}
Committed == [facts |-> facts, queue |-> queue]

TypeOK ==
    /\ facts \in [Keys -> Contract!Fact \cup {None}]
    /\ queue \in [Ids -> Contract!Review \cup {None}]
    /\ writer \in Procs \cup {None}
    /\ draft \in [facts : [Keys -> Contract!Fact \cup {None}],
                  queue : [Ids -> Contract!Review \cup {None}]]
    /\ pc \in [Procs -> {"idle", "read", "upsert", "marked"}]
    /\ id \in [Procs -> Ids \cup {None}]
    /\ row \in [Procs -> Contract!Review \cup {None}]
    /\ \A q \in Procs : pc[q] # "idle" => id[q] \in Ids /\ row[q] \in Pending
    /\ stale \subseteq Procs
    /\ now \in Nat
    /\ \A q \in Procs : pc[q] \in {"upsert", "marked"} <=> writer = q

NoRows == [facts |-> [k \in Keys |-> None], queue |-> [i \in Ids |-> None]]

Init ==
    /\ facts = NoRows.facts /\ queue = NoRows.queue
    /\ writer = None /\ draft = NoRows
    /\ pc = [q \in Procs |-> "idle"] /\ id = [q \in Procs |-> None]
    /\ row = [q \in Procs |-> None]
    /\ stale = {} /\ now = 0

\* What a commit of q's does to the reads of the others.
Overtaken(q) == stale' = {p \in Procs \ {q} : pc[p] # "idle"}

-----------------------------------------------------------------------------
DetectSecret(v) == v \in Secrets

\* A value that looks like a secret waits for its review, any other is stored
\* over what the key has. Refused while another process writes.
Save(q, k, v) ==
    /\ pc[q] = "idle" /\ writer = None
    /\ \/ /\ DetectSecret(v)
          /\ \E i \in Ids :
               /\ queue[i] = None
               /\ queue' = [queue EXCEPT ![i] = [key |-> k, value |-> v, at |-> now,
                                                 status |-> "pending"]]
          /\ UNCHANGED facts
       \/ /\ ~DetectSecret(v)
          /\ facts' = [facts EXCEPT ![k] = [value |-> v, at |-> now]]
          /\ UNCHANGED queue
    /\ Overtaken(q)
    /\ UNCHANGED <<writer, draft, pc, id, row, now>>

IsPending(i) == queue[i] # None /\ queue[i].status = "pending"

Reject(q, i) ==
    /\ pc[q] = "idle" /\ writer = None
    /\ IsPending(i)
    /\ queue' = [queue EXCEPT ![i] = [@ EXCEPT !.status = "rejected"]]
    /\ Overtaken(q)
    /\ UNCHANGED <<facts, writer, draft, pc, id, row, now>>

-----------------------------------------------------------------------------
(* Approve.                                                                *)

ReadReview(q, i) ==
    /\ pc[q] = "idle"
    /\ IsPending(i)
    /\ pc' = [pc EXCEPT ![q] = "read"]
    /\ id' = [id EXCEPT ![q] = i] /\ row' = [row EXCEPT ![q] = queue[i]]
    /\ UNCHANGED <<facts, queue, writer, draft, stale, now>>

\* Mutant of Upsert: a statement of its own, outside the transaction.
UpsertAlone(q) ==
    /\ pc[q] = "read" /\ writer = None
    /\ facts' = [facts EXCEPT ![row[q].key] = [value |-> row[q].value, at |-> row[q].at]]
    /\ draft' = [facts |-> facts', queue |-> queue]
    /\ writer' = q
    /\ pc' = [pc EXCEPT ![q] = "upsert"]
    /\ UNCHANGED <<queue, id, row, stale, now>>

\* The fact takes the time of its capture, whatever the key has by now.
Upsert(q) ==
    /\ pc[q] = "read" /\ writer = None /\ q \notin stale
    /\ writer' = q
    /\ draft' = [Committed EXCEPT !.facts[row[q].key] = [value |-> row[q].value, at |-> row[q].at]]
    /\ pc' = [pc EXCEPT ![q] = "upsert"]
    /\ UNCHANGED <<facts, queue, id, row, stale, now>>

\* Mutant of MarkApproved: the review stays as it is.
MarkNothing(q) ==
    /\ pc[q] = "upsert"
    /\ pc' = [pc EXCEPT ![q] = "marked"]
    /\ UNCHANGED <<facts, queue, writer, draft, id, row, stale, now>>

MarkApproved(q) ==
    /\ pc[q] = "upsert"
    /\ draft' = [draft EXCEPT !.queue[id[q]] = [@ EXCEPT !.status = "approved"]]
    /\ pc' = [pc EXCEPT ![q] = "marked"]
    /\ UNCHANGED <<facts, queue, writer, id, row, stale, now>>

Finish(q) ==
    /\ pc' = [pc EXCEPT ![q] = "idle"]
    /\ id' = [id EXCEPT ![q] = None] /\ row' = [row EXCEPT ![q] = None]
    /\ writer' = (IF writer = q THEN None ELSE writer)
    /\ draft' = (IF writer = q THEN NoRows ELSE draft)

Commit(q) ==
    /\ pc[q] = "marked"
    /\ facts' = draft.facts /\ queue' = draft.queue
    /\ Finish(q) /\ Overtaken(q)
    /\ UNCHANGED now

\* A statement is refused, the caller gives up, or the process is killed.
Rollback(q) ==
    /\ pc[q] # "idle"
    /\ Finish(q) /\ stale' = stale \ {q}
    /\ UNCHANGED <<facts, queue, now>>

Tick == now < MaxNow /\ now' = now + 1
        /\ UNCHANGED <<facts, queue, writer, draft, pc, id, row, stale>>

-----------------------------------------------------------------------------
Captures(q) == \E k \in Keys, v \in Plain \cup Secrets : Save(q, k, v)
Reviews(q) == \E i \in Ids : Reject(q, i) \/ ReadReview(q, i)
Approval(q) == Upsert(q) \/ MarkApproved(q) \/ Commit(q) \/ Rollback(q)

Next == Tick \/ \E q \in Procs : Captures(q) \/ Reviews(q) \/ Approval(q)

Spec == Init /\ [][Next]_vars

\* A value that looks like a secret is a fact only by a review of that key and
\* value that was approved, and stays approved ("Secret-looking values are
\* never stored silently", Save).
SecretsApproved ==
    \A k \in Keys : facts[k] # None /\ DetectSecret(facts[k].value) =>
        \E i \in Ids : /\ queue[i] # None /\ queue[i].status = "approved"
                       /\ queue[i].key = k /\ queue[i].value = facts[k].value

\* A decision is final: two reviewers of one entry, or one and a retry, never
\* turn it (the WHERE clauses of Approve and Reject, and the transaction).
DecidedOnce ==
    [][\A i \in Ids : queue[i] # None /\ queue[i].status # "pending" => queue'[i] = queue[i]]_vars

\* The store, seen through its commits, is the store of FactStore: in
\* particular an approval stores the fact and closes the review, or neither.
ImplementsFactStore == Contract!Spec
=============================================================================
