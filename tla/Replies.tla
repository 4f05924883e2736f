------------------------------ MODULE Replies ------------------------------
(***************************************************************************)
(* The replies of a reader as they are written: a payload is first cut to  *)
(* a budget (cbmexec.BudgetResult), whose loop takes rows from the end of  *)
(* one list after the other until what is left fits with its markers.      *)
(***************************************************************************)
EXTENDS Reads

CONSTANT Budgets    \* the budgets of replies, 0 for none

ASSUME RepliesAssumption == Budgets \subseteq Nat

VARIABLES
    outcome,    \* "idle", "trimming", or how it ended: "none", "truncated", "exceeded"
    full,       \* the payload as the engine gave it
    budget,
    root,       \* what is left of it
    todo,       \* the lists to come
    list,       \* the list that is shortened
    left,       \* n: how many elements it has left
    step,
    dropped

cut == <<outcome, full, budget, root, todo, list, left, step, dropped>>

CutInit ==
    /\ outcome = "idle" /\ full = None /\ budget = 0 /\ root = None
    /\ todo = {} /\ list = <<>> /\ left = 0 /\ step = 1 /\ dropped = 0

-----------------------------------------------------------------------------
(* BudgetResult.                                                           *)

Measure(v, b) ==
    /\ full' = v /\ budget' = b /\ root' = v
    /\ list' = <<>> /\ left' = 0 /\ step' = 1 /\ dropped' = 0
    /\ IF b = 0 \/ Size(v) <= b THEN outcome' = "none" /\ todo' = {}
                                ELSE outcome' = "trimming" /\ todo' = rowContainers(v)

NextList ==
    /\ outcome = "trimming" /\ left = 0
    /\ \E l \in todo :
        /\ \A m \in todo \ {l} : Before(l, m)
        /\ list' = l /\ todo' = todo \ {l}
        /\ left' = Cardinality(Children(root, l))
    /\ step' = 1
    /\ UNCHANGED <<outcome, full, budget, root, dropped, vars>>

\* Batches of 1, 2, 4, ... until it fits.
DropBatch ==
    /\ outcome = "trimming" /\ left > 0
    /\ LET batch == IF step > left THEN left ELSE step IN
        /\ root' = drop(root, list, batch)
        /\ dropped' = dropped + batch
        /\ left' = left - batch
    /\ outcome' = IF markedSize(root') <= budget THEN "truncated" ELSE "trimming"
    /\ step' = step * 2
    /\ UNCHANGED <<full, budget, todo, list, vars>>

Exceed ==
    /\ outcome = "trimming" /\ left = 0 /\ todo = {}
    /\ outcome' = "exceeded"
    /\ UNCHANGED <<full, budget, root, todo, list, left, step, dropped, vars>>

-----------------------------------------------------------------------------
(* A reader and its replies.                                               *)

\* An error is written without one.
HasPayload == reply # None /\ reply.data /\ reply.says # "error"

\* A reply with a payload is written once that is cut. What several calls were
\* put together from is an object deeper, and cut in the same way.
Cut(b) == outcome = "idle" /\ HasPayload /\ Settle /\ Measure(PayloadOf(reply.names), b)

Written ==
    /\ outcome \in {"none", "truncated", "exceeded"}
    /\ outcome' = "idle" /\ full' = None /\ budget' = 0 /\ root' = None
    /\ todo' = {} /\ list' = <<>> /\ left' = 0 /\ step' = 1 /\ dropped' = 0
    /\ UNCHANGED vars

Plain == outcome = "idle" /\ ~HasPayload /\ UNCHANGED cut

Write == (Settle /\ Plain) \/ (\E b \in Budgets : Cut(b)) \/ NextList \/ DropBatch \/ Exceed \/ Written

ReplyInit == Init /\ CutInit

ReplyNext ==
    \/ Next /\ Plain
    \/ \E b \in Budgets : Cut(b)
    \/ NextList \/ DropBatch \/ Exceed \/ Written

all == <<vars, cut>>

ReplySpec == ReplyInit /\ [][ReplyNext]_all

\* What a reader can do it does; a wedged engine may stay so.
FairSpec == ReplySpec /\ WF_all(((EngineCall \/ Take) /\ Plain) \/ Write)

-----------------------------------------------------------------------------
(* Properties.                                                             *)

\* What a budget takes from a payload is rows, all of them counted in
\* rows_dropped; nothing is taken from what fits, and what is said to be
\* truncated fits with its markers.
BudgetSpentOnRows ==
    outcome # "idle" =>
    /\ Droppable(full) = Droppable(root) + dropped
    /\ outcome = "none" => root = full /\ (budget = 0 \/ Size(full) <= budget)
    /\ outcome = "truncated" => markedSize(root) <= budget

\* A budget never turns what was found into nothing, or nothing into a find:
\* whatever is in no list stays as it is, the counters too, and the payload
\* is judged as the engine's own.
CountersSurvive ==
    outcome # "idle" =>
    /\ LET lists == rowContainers(full) IN
       \A q \in DOMAIN full :
        (\A l \in lists : ~IsStrictPrefix(l, q)) => q \in DOMAIN root /\ root[q] = full[q]
    /\ LooksEmptyData(root) <=> LooksEmptyData(full)

\* A budget takes rows, and neither counters nor the judgement they carry.
BudgetTakesRows == BudgetSpentOnRows /\ CountersSurvive

\* Over MCP every request is answered, and its reply written, though an engine
\* it waits for never ends.
McpAnswers == face = "mcp" /\ cmd # None ~> cmd = None /\ reply = None /\ outcome = "idle"
=============================================================================
