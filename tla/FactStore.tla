------------------------------ MODULE FactStore ------------------------------
(***************************************************************************)
(* What the fact memory promises (internal/memory/facts.go): facts by key, *)
(* and reviews that are decided once. A value that looks like a secret is  *)
(* stored by an approval and in no other way.                              *)
(***************************************************************************)
EXTENDS Naturals

CONSTANTS Keys, Plain, Secrets, Ids, None

VARIABLES facts, queue

vars == <<facts, queue>>

Fact == [value : Plain \cup Secrets, at : Nat]
Review == [key : Keys, value : Secrets, at : Nat, status : {"pending", "approved", "rejected"}]

Init == facts = [k \in Keys |-> None] /\ queue = [i \in Ids |-> None]

Put(k, f) == facts' = [facts EXCEPT ![k] = f]
Decide(i, s) == queue[i] # None /\ queue[i].status = "pending"
                /\ queue' = [queue EXCEPT ![i] = [@ EXCEPT !.status = s]]

Store ==
    /\ \E k \in Keys : facts'[k] \in [value : Plain, at : Nat] /\ Put(k, facts'[k])
    /\ UNCHANGED queue

Enqueue ==
    /\ \E i \in Ids : /\ queue[i] = None
                      /\ queue'[i] \in Review /\ queue'[i].status = "pending"
                      /\ queue' = [queue EXCEPT ![i] = queue'[i]]
    /\ UNCHANGED facts

Approve ==
    \E i \in Ids :
        /\ Decide(i, "approved")
        /\ Put(queue[i].key, [value |-> queue[i].value, at |-> queue[i].at])

Reject == (\E i \in Ids : Decide(i, "rejected")) /\ UNCHANGED facts

Next == Store \/ Enqueue \/ Approve \/ Reject

Spec == Init /\ [][Next]_vars
=============================================================================
