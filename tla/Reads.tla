-------------------------------- MODULE Reads --------------------------------
(***************************************************************************)
(* One reader of the graph: a CLI command (cli/query.go, validate.go,      *)
(* root.go) or the MCP server's request loop (mcp/server.go, resident.go), *)
(* the engine calls it makes (cbmexec.Runner), first of a resident and     *)
(* then of an engine it spawns, and what it concludes when nothing is      *)
(* found: an absence is reported beside the coverage of the index.         *)
(*                                                                         *)
(* Around it the index is rebuilt, the engine replaced, the resident       *)
(* started, quiesced and stopped, between any two of its steps.            *)
(***************************************************************************)
EXTENDS Payload

CONSTANTS
    Names,          \* qualified names the source may define
    Symbols,        \* what is asked for: such a name, or the last part of one
    Graphs,         \* what the index may hold, and whether it covers the source
    RowLimit,       \* the limit on the rows of one lookup
    MaxChanges,     \* bound: what changes around the reader during a command
    None

Kinds == {"search", "outline", "explain", "validate"}
Gated == {"search"}
Covers == {"clean", "gap", "unknown"}

ASSUME ReadsAssumption ==
    /\ IsFiniteSet(Names)
    /\ Names \cup Symbols \subseteq Seq(STRING) \ {<<>>} /\ Symbols # {}
    /\ Graphs \subseteq [names : SUBSET Names, whole : BOOLEAN]
    /\ RowLimit \in Nat \ {0} /\ MaxChanges \in Nat
    /\ None \notin Covers /\ None \notin [kind : Kinds, sym : Symbols]

VARIABLES
    \* around the reader
    graph,          \* the index
    engine,         \* the installed engine: "new", "old" (no format), "oldest" (no --json)
    resident,       \* "none", "serving" or "refusing" (quiesced, or without an engine)
    \* the reader
    face,           \* "human", "json" or "mcp"
    memo,           \* formatProbed/formatOK: "unasked", "yes" or "no"
    cmd,            \* [kind, sym] of the command in progress, or None
    stage,          \* what the engine is asked about
    call,           \* where the call stands
    got,            \* the Result of the last call
    read,           \* the Result of the main lookup
    verdict,        \* the coverage read so far
    expired,        \* whether the request's context is done
    reply,          \* what the last command printed
    \* history
    spawned,        \* engines started for this call
    moved,          \* whether the index has changed during the command
    changes         \* what has changed during the command

around == <<graph, engine, resident, moved, changes>>
command == <<cmd, stage, read, verdict, expired>>
vars == <<around, face, memo, command, call, got, reply, spawned>>

Stages == {"idle", "read", "near", "coverage", "verdict", "traversal"}
Results == [err : BOOLEAN, data : BOOLEAN, names : SUBSET Names, quoted : BOOLEAN,
            cover : Covers]
NoResult == [err |-> TRUE, data |-> FALSE, names |-> {}, quoted |-> FALSE, cover |-> "unknown"]
Error == NoResult

TypeOK ==
    /\ graph \in [names : SUBSET Names, whole : BOOLEAN]
    /\ engine \in {"new", "old", "oldest"}
    /\ resident \in {"none", "serving", "refusing"}
    /\ face \in {"human", "json", "mcp"} /\ memo \in {"unasked", "yes", "no"}
    /\ cmd = None \/ cmd \in [kind : Kinds, sym : Symbols]
    /\ stage \in Stages
    /\ call \in {"idle", "dial", "spawn", "rerun", "legacy", "wedged", "back"}
    /\ got \in Results /\ read \in Results
    /\ verdict \in Covers \cup {None}
    /\ expired \in BOOLEAN
    /\ moved \in BOOLEAN /\ changes \in 0 .. MaxChanges
    /\ spawned \in 0 .. 2
    /\ stage = "idle" <=> cmd = None
    /\ call = "idle" <=> cmd = None

NoGraph == [names |-> {}, whole |-> FALSE]

Init ==
    /\ graph = NoGraph /\ engine = "new" /\ resident = "none"
    /\ face \in {"human", "json", "mcp"} /\ memo = "unasked"
    /\ cmd = None /\ stage = "idle" /\ call = "idle"
    /\ got = NoResult /\ read = NoResult /\ verdict = None
    /\ expired = FALSE /\ spawned = 0 /\ moved = FALSE /\ changes = 0
    /\ reply = None

-----------------------------------------------------------------------------
(* Symbols: a qualified name is the sequence of its dotted parts.          *)

LeafName(sym) == <<Last(sym)>>

\* A group states its qualifier once, a row its leaf name.
QualifiedNames(groups) ==
    UNION {{g.qualifier \o <<leaf>> : leaf \in g.leaves} : g \in groups}

MatchSymbol(names, sym) ==
    \/ sym \in names
    \/ Len(sym) = 1 /\ \E qn \in names : LeafName(qn) = sym

-----------------------------------------------------------------------------
(* What the engine says.                                                   *)

\* format:"json" is asked for on the structured calls of a face.
Structured ==
    \/ face = "json"  /\ stage # "verdict"
    \/ face = "mcp" /\ cmd.kind # "validate" /\ stage \in {"read", "coverage"}

\* The rows of a lookup, up to the limit. A pattern is a regular expression:
\* every name of the instance matches the one that is asked for.
Rows ==
    LET all == Cardinality(graph.names) IN
    {s \in SUBSET graph.names : Cardinality(s) = IF all > RowLimit THEN RowLimit ELSE all}

Answer(data, names, quoted, cover) ==
    [err |-> FALSE, data |-> data, names |-> names, quoted |-> quoted, cover |-> cover]

\* Rows of source text may quote the words of an empty answer.
Quotes(data) == IF data \/ graph.names = {} THEN {FALSE} ELSE BOOLEAN

\* What the coverage says of the index; near misses and a traversal say nothing.
Cover == CASE stage \in {"near", "traversal"} -> "unknown"
           [] stage \notin {"near", "traversal"} /\ graph.whole -> "clean"
           [] OTHER -> "gap"

\* An answer to the question of this stage; the names of near misses and of a
\* traversal are only shown.
Answers(data) ==
    IF stage # "read" THEN {Answer(data, {}, FALSE, Cover)}
    ELSE {Answer(data, s, q, "unknown") : s \in Rows, q \in Quotes(data)}

\* An answer of no rows may be printed as nothing at all.
Blank == Answer(FALSE, {}, FALSE, "unknown")
Hollow == IF stage # "read" \/ graph.names = {} THEN {Blank} ELSE {}

\* The text is judged by its words, a payload by its counters.
LooksEmpty(res) == res.names = {} \/ res.quoted
emptyResult(res) == IF res.data THEN LooksEmptyData(PayloadOf(res.names)) ELSE LooksEmpty(res)

\* Without a payload there are no qualified names to read on the JSON face.
Groups(names) == {[qualifier |-> Front(n), leaves |-> {Last(n)}] : n \in names}
Found(res) ==
    /\ ~res.err
    /\ face = "json" => res.data
    /\ MatchSymbol(QualifiedNames(Groups(res.names)), cmd.sym)

-----------------------------------------------------------------------------
(* One engine call: residentTry, then runEnvelope.                         *)

Return(res) == call' = "back" /\ got' = res

\* Mutant of residentTry: a refusal is an empty result.
RefusalIsEmpty ==
    /\ call = "dial"
    /\ \/ resident = "none" /\ call' = "spawn" /\ UNCHANGED got
       \/ resident = "serving" /\ \E res \in Answers(Structured) : Return(res)
       \/ resident = "refusing" /\ Return(Blank)
    /\ UNCHANGED <<around, face, memo, command, reply, spawned>>

\* Absent, refused and answered stay three outcomes. A resident dialled may
\* still be gone before it has answered, and its engine may be an old one.
residentTry ==
    /\ call = "dial"
    /\ \/ call' = "spawn" /\ UNCHANGED got
       \/ /\ resident = "serving"
          /\ \/ \E data \in {FALSE, Structured} : \E res \in Answers(data) : Return(res)
             \/ \E res \in Hollow : Return(IF Structured THEN res ELSE Error)
             \/ Return(Error)
       \/ resident = "refusing" /\ Return(Error)
    /\ UNCHANGED <<around, face, memo, command, reply, spawned>>

Started == spawned' = spawned + 1

\* The probe: the first structured reply that is not an error decides.
Probe(data) == memo' = IF Structured /\ memo = "unasked" THEN (IF data THEN "yes" ELSE "no")
                       ELSE memo

runEnvelope ==
    /\ call = "spawn" /\ ~expired
    /\ \/ /\ engine = "new"             \* an envelope, structured when asked for
          /\ LET asked == Structured /\ memo # "no" IN
             (\E res \in Answers(asked) : Return(res)) /\ Probe(asked)
       \/ /\ engine = "old"             \* an envelope of text
          /\ (\E res \in Answers(FALSE) : Return(res)) /\ Probe(FALSE)
       \/ /\ engine = "oldest"          \* --json ignored: plain text, or nothing
          /\ (\E res \in Answers(FALSE) \cup Hollow : got' = res)
          /\ call' = "rerun" /\ Probe(FALSE)
       \/ Return(Error) /\ UNCHANGED memo                   \* isError
       \/ call' = "legacy" /\ UNCHANGED <<got, memo>>       \* a bad exit
    /\ Started
    /\ UNCHANGED <<around, face, command, reply>>

\* The call again without --json, whose output is preferred if there is any.
Rerun ==
    /\ call = "rerun" /\ ~expired
    /\ \/ \E res \in Answers(FALSE) : Return(res)
       \/ Return(got)
    /\ Started
    /\ UNCHANGED <<around, face, memo, command, reply>>

\* Mutant of legacy: what fails is tried again.
LegacyAgain ==
    /\ call = "legacy" /\ ~expired
    /\ \/ \E res \in Answers(FALSE) \cup Hollow : Return(res)
       \/ UNCHANGED <<call, got>>
    /\ Started
    /\ UNCHANGED <<around, face, memo, command, reply>>

legacy ==
    /\ call = "legacy" /\ ~expired
    /\ \/ \E res \in Answers(FALSE) \cup Hollow : Return(res)
       \/ Return(Error)
    /\ Started
    /\ UNCHANGED <<around, face, memo, command, reply>>

\* An engine that never ends is waited for.
Wedge ==
    /\ call \in {"spawn", "rerun", "legacy"} /\ ~expired
    /\ call' = "wedged" /\ Started
    /\ UNCHANGED <<around, face, memo, command, got, reply>>

\* Mutant of Deadline: what has timed out is tried again.
DeadlineRetries ==
    /\ face = "mcp" /\ call \in {"spawn", "rerun", "legacy", "wedged"}
    /\ call' = "spawn" /\ spawned' = 0
    /\ UNCHANGED <<around, face, memo, command, got, reply>>

\* requestTimeout: the engine is killed, and every later spawn of the request
\* fails at once. A resident is still asked: it has a deadline of its own.
Deadline ==
    /\ face = "mcp" /\ call \in {"spawn", "rerun", "legacy", "wedged"}
    /\ expired' = TRUE
    /\ Return(IF call = "rerun" THEN got ELSE Error)
    /\ UNCHANGED <<around, face, memo, cmd, stage, read, verdict, reply, spawned>>

\* The end of a command, and of a command line's memo. What is around the
\* reader until its next one is of no account.
End ==
    /\ cmd' = None /\ stage' = "idle" /\ call' = "idle"
    /\ memo' = IF face = "mcp" THEN memo ELSE "unasked"
    /\ got' = NoResult /\ verdict' = None /\ expired' = FALSE
    /\ spawned' = 0
    /\ graph' = NoGraph /\ engine' = "new" /\ resident' = "none"
    /\ moved' = FALSE /\ changes' = 0
    /\ UNCHANGED face

\* A command line is interrupted by whoever waits for it.
Interrupt ==
    /\ face # "mcp" /\ cmd # None
    /\ End /\ reply' = None /\ read' = NoResult

-----------------------------------------------------------------------------
(* The commands.                                                           *)

Ask(s) ==
    /\ stage' = s /\ call' = "dial"
    /\ got' = NoResult /\ spawned' = 0
    /\ UNCHANGED <<around, face, memo, cmd, expired, reply>>

\* What is said, and on what grounds.
Say(says, res, v) ==
    /\ reply' = [says |-> says, verdict |-> v, sym |-> cmd.sym, kind |-> cmd.kind,
                 data |-> res.data, failed |-> read'.err, moved |-> moved,
                 among |-> graph, names |-> res.names]
    /\ End

\* The reply is written.
Settle == reply # None /\ reply' = None /\ read' = NoResult
    /\ UNCHANGED <<around, face, memo, cmd, stage, verdict, expired, call, got, spawned>>

\* Between two commands anything may have happened.
Begin(kind, sym) ==
    /\ cmd = None /\ reply = None
    /\ kind = "explain" => face # "mcp"
    /\ kind # "validate" => sym = CHOOSE s \in Symbols : TRUE     \* of no account
    /\ graph' \in Graphs
    /\ engine' \in {"new", "old", "oldest"}
    /\ resident' \in {"none", "serving", "refusing"}
    /\ cmd' = [kind |-> kind, sym |-> sym]
    /\ stage' = "read" /\ call' = "dial"
    /\ UNCHANGED <<face, memo, read, verdict, expired, got, reply, spawned, moved, changes>>

\* How a reader takes the shown rows of a search: an empty table, or the
\* `empty` field, is an absence.
Claim(res) ==
    CASE res.err -> "error"
      [] ~res.err /\ (IF face = "json" THEN emptyResult(res) ELSE res.names = {}) -> "absent"
      [] OTHER -> "found"

\* The call that comes next when nothing was found.
CoverageStage(res) ==
    IF face = "human" \/ (face = "mcp" /\ ~res.data) THEN "verdict" ELSE "coverage"

\* cbmRead, callStructured: an empty result needs the coverage.
TakeRead ==
    /\ stage = "read" /\ call = "back" /\ cmd.kind \in {"search", "outline"}
    /\ read' = got
    /\ IF ~got.err /\ cmd.kind \in Gated /\ emptyResult(got)
       THEN Ask(CoverageStage(got)) /\ UNCHANGED verdict
       ELSE Say(Claim(got), got, None)

\* cmdExplain: the definition, then callers and callees, which may fail.
TakeDefinition ==
    /\ stage = "read" /\ call = "back" /\ cmd.kind = "explain"
    /\ read' = got
    /\ IF got.err THEN Say("error", got, None)
       ELSE Ask("traversal") /\ UNCHANGED verdict

TakeTraversal ==
    /\ stage = "traversal" /\ call = "back"
    /\ UNCHANGED read
    /\ Say("explained", read, None)

\* cmdValidate, callValidate: the symbol is among the rows, or near misses and
\* the coverage come next. Over MCP a lookup that failed has missed.
TakeLookup ==
    /\ stage = "read" /\ call = "back" /\ cmd.kind = "validate"
    /\ read' = got
    /\ CASE Found(got) -> Say("valid", got, None)
         [] ~Found(got) /\ face = "mcp" -> Ask("verdict") /\ UNCHANGED verdict
         [] ~Found(got) /\ face # "mcp" /\ got.err -> Say("error", got, None)
         [] OTHER -> Ask("near") /\ UNCHANGED verdict

\* Near misses are a convenience: whatever came of them.
TakeNear ==
    /\ stage = "near" /\ call = "back"
    /\ UNCHANGED read
    /\ CASE face = "mcp" -> Say("invalid", read, verdict)
         [] face = "json" -> Ask("coverage") /\ UNCHANGED verdict
         [] OTHER -> Ask("verdict") /\ UNCHANGED verdict

\* The answer of whichever call has told the coverage; failing it, an error.
Conclude(cover) ==
    IF cmd.kind = "validate" THEN Say("invalid", read, cover) ELSE Say(Claim(read), read, cover)

\* coverageData: without a payload the text is asked for.
TakeCoverage ==
    /\ stage = "coverage" /\ call = "back"
    /\ UNCHANGED read
    /\ CASE got.err -> Say("error", read, None)
         [] ~got.err /\ got.data -> Conclude(got.cover)
         [] OTHER -> Ask("verdict") /\ UNCHANGED verdict

\* Mutant of TakeVerdict: the search is answered whatever came of the coverage.
VerdictOptional ==
    /\ stage = "verdict" /\ call = "back"
    /\ UNCHANGED read
    /\ IF face = "mcp" /\ cmd.kind = "validate" /\ ~got.err
       THEN Ask("near") /\ verdict' = got.cover
       ELSE Conclude(IF got.err THEN None ELSE got.cover)

\* coverageVerdict
TakeVerdict ==
    /\ stage = "verdict" /\ call = "back"
    /\ UNCHANGED read
    /\ CASE got.err -> Say("error", read, None)
         [] ~got.err /\ face = "mcp" /\ cmd.kind = "validate" ->
                Ask("near") /\ verdict' = got.cover
         [] OTHER -> Conclude(got.cover)

-----------------------------------------------------------------------------
(* Around the reader.                                                      *)

Change ==
    /\ cmd # None /\ changes < MaxChanges /\ changes' = changes + 1
    /\ UNCHANGED <<face, memo, command, call, got, reply, spawned>>

Index ==
    /\ graph' \in Graphs \ {graph}
    /\ moved' = TRUE
    /\ Change /\ UNCHANGED <<engine, resident>>

InstallEngine ==
    /\ engine' \in {"new", "old", "oldest"} \ {engine}
    /\ Change /\ UNCHANGED <<graph, resident, moved>>

Residency ==
    /\ resident' \in {"none", "serving", "refusing"} \ {resident}
    /\ Change /\ UNCHANGED <<graph, engine, moved>>

EngineCall == residentTry \/ runEnvelope \/ Rerun \/ legacy \/ Deadline
Take == \/ TakeRead \/ TakeDefinition \/ TakeTraversal \/ TakeLookup \/ TakeNear
        \/ TakeCoverage \/ TakeVerdict

Next ==
    \/ \E kind \in Kinds, sym \in Symbols : Begin(kind, sym)
    \/ Settle
    \/ residentTry \/ runEnvelope \/ Rerun \/ legacy \/ Wedge \/ Deadline \/ Interrupt
    \/ TakeRead \/ TakeDefinition \/ TakeTraversal \/ TakeLookup \/ TakeNear
    \/ TakeCoverage \/ TakeVerdict
    \/ Index \/ InstallEngine \/ Residency

Spec == Init /\ [][Next]_vars

-----------------------------------------------------------------------------
(* Properties.                                                             *)

Absent == reply # None /\ reply.says \in {"absent", "invalid"}

\* A search that found nothing says so beside a coverage verdict, on every
\* face, whatever path the reply came by.
AbsenceHasVerdict == Absent /\ reply.kind \in Gated => reply.verdict # None

\* An absence beside a clean verdict is a fact about the source, when the
\* index did not change between the lookup and its coverage, the lookup did
\* not fail, its rows were not cut by the limit, and a --json reply was judged
\* on a payload.
AbsenceIsProved ==
    (/\ Absent /\ reply.verdict = "clean"
     /\ ~reply.moved /\ ~reply.failed
     /\ Cardinality(reply.among.names) <= RowLimit
     /\ face = "json" => reply.data)
    => /\ reply.among.whole
       /\ IF reply.says = "invalid" THEN ~MatchSymbol(reply.among.names, reply.sym)
                                    ELSE reply.among.names = {}

\* "valid" is said of a symbol the index holds, as it was asked for: the
\* whole of a dotted name.
ValidIsTrue ==
    reply # None /\ reply.says = "valid" /\ ~reply.moved
    => MatchSymbol(reply.among.names, reply.sym) /\ (Len(reply.sym) > 1 => reply.sym \in reply.among.names)

\* What a command concludes is so: what it says is absent, invalid or valid.
ConclusionsHold == AbsenceIsProved /\ ValidIsTrue
=============================================================================
