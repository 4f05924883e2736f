------------------------------ MODULE Registry ------------------------------
(***************************************************************************)
(* The registry of projects (internal/store/registry.go) and the commands  *)
(* that keep it and the two indexes of a project up to date: `tk register`,*)
(* `index`, `sync` and `source-search` (cli/projects.go, sourcesearch.go), *)
(* and the text search of a `tk mcp` session (cli/mcp.go, mcp/server.go,   *)
(* mcp/zoekt.go), which may cover every project.                           *)
(*                                                                         *)
(* A command loads the registry when it starts, a session when it opens,   *)
(* and writes back all of it. What a tree looks like is a number that      *)
(* grows with every commit (or edit, in a plain directory); an index       *)
(* covers the tree of some number.                                         *)
(***************************************************************************)
EXTENDS Naturals, FiniteSets, Functions

CONSTANTS
    Projects,
    Place,          \* [Projects -> Nat] their order in Registry.Names
    Git,            \* those that are git repositories
    Procs,          \* processes of `tk`
    Sessions,       \* those that are MCP sessions
    Hits,           \* [Projects -> Nat] matches of the pattern that is searched
    Limits,         \* limits of a search over all projects, 0 for none
    MaxTree,        \* bound: states of a tree
    MaxRuns,        \* bound: commands begun
    MaxCuts,        \* bound: processes killed and writes that fail
    None, Files, Empty, Torn

Tree == 0..MaxTree
Entry == [head : Tree, zoekt : Tree \cup {Files}]
New == [head |-> 0, zoekt |-> 0]
Registries == UNION {[S -> Entry] : S \in SUBSET Projects}

ASSUME RegistryAssumption ==
    /\ IsFiniteSet(Projects) /\ Git \subseteq Projects /\ Sessions \subseteq Procs
    /\ Place \in [Projects -> Nat]
    /\ \A S \in (SUBSET Projects) \ {{}} : \E n \in S : \A m \in S \ {n} : Place[n] < Place[m]
    /\ {None, Files, Empty, Torn} \cap Registries = {} /\ Files \notin Nat /\ None \notin {Empty, Torn}
    /\ None \notin {"register", "index", "sync", "clean", "unsaved", "search", "fleet"}
    /\ Hits \in [Projects -> Nat] /\ Limits \subseteq Nat
    /\ MaxTree \in Nat \ {0} /\ MaxRuns \in Nat /\ MaxCuts \in Nat

VARIABLES
    live,           \* [Projects -> ...] the tree as it is
    graph,          \* [Projects -> ...] what the engine's graph covers
    shards,         \* [Projects -> ...] what the text index covers
    file,           \* tk.json
    tmp,            \* tk.json.tmp
    pc,             \* [Procs -> ...] where a process stands
    op,             \* [Procs -> ...] the command
    reg,            \* [Procs -> ...] the registry as it has it
    asked,          \* [Procs -> SUBSET Projects] what the command is about
    todo,           \* [Procs -> SUBSET Projects] the projects still to be visited
    zhead,          \* [Procs -> ...] the head read before the text index was built
    built,          \* [Procs -> ...] the tree the text index it is building is of
    fd,             \* [Procs -> ...] what the temporary file it has open has become
    noted,          \* [Procs -> SUBSET Projects] refreshes that failed, as reported
    limit,          \* [Procs -> Nat] matches that may be shown
    walk,           \* [Procs -> ...] the account of the search
    \* history
    raced,          \* the projects two builds of whose text index have met
    base,           \* [Procs -> ...] the trees when the command began
    behind,         \* [Procs -> BOOLEAN] the file has been replaced since it was loaded
    overlap,        \* whether a save has met another, or was made by one who was behind
    acked,          \* projects whose registration was acknowledged
    runs, cuts

trees == <<live, graph, shards, raced>>
disk == <<file, tmp>>
frame == <<op, asked, todo, zhead, built, fd, noted, limit, walk, base>>
counts == <<runs, cuts>>
vars == <<trees, disk, pc, reg, frame, behind, overlap, acked, counts>>

Walk == [searched : SUBSET Projects, skipped : SUBSET Projects, unsearched : SUBSET Projects,
         total : Nat, shown : Nat, cut : BOOLEAN]
NoWalk == [searched |-> {}, skipped |-> {}, unsearched |-> {},
           total |-> 0, shown |-> 0, cut |-> FALSE]

Labels == {"idle", "ready", "graph", "head", "resolve", "build", "touch", "open", "write", "rename", "walk", "told"}

TypeOK ==
    /\ live \in [Projects -> Tree] /\ graph \in [Projects -> Tree] /\ shards \in [Projects -> Tree]
    /\ file \in Registries \cup {None, Empty, Torn}
    /\ tmp \in Registries \cup {None, Empty, Torn}
    /\ pc \in [Procs -> Labels]
    /\ op \in [Procs -> {None, "register", "index", "sync", "clean", "unsaved", "search", "fleet"}]
    /\ reg \in [Procs -> Registries]
    /\ asked \in [Procs -> SUBSET Projects]
    /\ todo \in [Procs -> SUBSET Projects]
    /\ zhead \in [Procs -> Tree \cup {Files}]
    /\ built \in [Procs -> Tree] /\ raced \subseteq Projects
    /\ fd \in [Procs -> {None, "tmp", "file", "gone"}]
    /\ noted \in [Procs -> SUBSET Projects]
    /\ limit \in [Procs -> Nat]
    /\ walk \in [Procs -> Walk]
    /\ \A q \in Procs : todo[q] \cup walk[q].searched \cup walk[q].skipped \cup walk[q].unsearched
                          \subseteq asked[q]
    /\ base \in [Procs -> [Projects -> Tree]]
    /\ behind \in [Procs -> BOOLEAN] /\ overlap \in BOOLEAN
    /\ acked \subseteq Projects /\ runs \in 0..MaxRuns /\ cuts \in 0..MaxCuts

Zero == [n \in Projects |-> 0]
Nothing == [n \in {} |-> New]

Init ==
    /\ live = [n \in Projects |-> 1] /\ graph = Zero /\ shards = Zero
    /\ file = None /\ tmp = None
    /\ pc = [q \in Procs |-> "idle"] /\ op = [q \in Procs |-> None]
    /\ reg = [q \in Procs |-> Nothing]
    /\ asked = [q \in Procs |-> {}] /\ todo = [q \in Procs |-> {}]
    /\ zhead = [q \in Procs |-> 0] /\ built = [q \in Procs |-> 0] /\ raced = {}
    /\ fd = [q \in Procs |-> None]
    /\ noted = [q \in Procs |-> {}] /\ limit = [q \in Procs |-> 0]
    /\ walk = [q \in Procs |-> NoWalk] /\ base = [q \in Procs |-> Zero]
    /\ behind = [q \in Procs |-> FALSE] /\ overlap = FALSE
    /\ acked = {} /\ runs = 0 /\ cuts = 0

Goto(q, l) == pc' = [pc EXCEPT ![q] = l]

-----------------------------------------------------------------------------
(* load, and what each command decides first.                              *)

Content(f) == IF f \in {None, Empty, Torn} THEN Nothing ELSE f

\* A file that does not parse is an error; none, and an empty one, are a
\* registry without projects.
Load(q) ==
    /\ file # Torn
    /\ reg' = [reg EXCEPT ![q] = Content(file)]
    /\ behind' = [behind EXCEPT ![q] = FALSE]

OpenSession(q) ==
    /\ q \in Sessions /\ pc[q] = "idle" /\ runs < MaxRuns
    /\ Load(q)
    /\ Goto(q, "ready")
    /\ UNCHANGED <<trees, disk, frame, overlap, acked, counts>>

Begin(q, o, S, first) ==
    /\ runs < MaxRuns /\ runs' = runs + 1
    /\ op' = [op EXCEPT ![q] = o]
    /\ asked' = [asked EXCEPT ![q] = S]
    /\ todo' = [todo EXCEPT ![q] = S]
    /\ base' = [base EXCEPT ![q] = live]
    /\ Goto(q, first)
    /\ UNCHANGED <<trees, disk, zhead, built, fd, walk, overlap, acked, cuts>>

Command(q) == q \notin Sessions /\ pc[q] = "idle" /\ Load(q)

\* A name that is taken is refused.
Register(q, n) ==
    /\ q \notin Sessions /\ pc[q] = "idle" /\ file # Torn
    /\ LET old == Content(file) IN
       /\ n \notin DOMAIN old
       /\ reg' = [reg EXCEPT ![q] = [m \in DOMAIN old \cup {n} |-> IF m = n THEN New ELSE old[m]]]
    /\ behind' = [behind EXCEPT ![q] = FALSE]
    /\ Begin(q, "register", {n}, "open")
    /\ UNCHANGED <<noted, limit>>

Index(q) ==
    /\ Command(q)
    /\ \E S \in (SUBSET DOMAIN reg'[q]) \ {{}} : Begin(q, "index", S, "graph")
    /\ UNCHANGED <<noted, limit>>

\* Mutant of syncFresh: the text index is not looked at.
HeadOnly(n, p) == IF n \in Git THEN p.head = live[n] ELSE p.head = live[n] /\ p.zoekt = Files

\* A plain directory's head is its fingerprint, and its shards cover "files".
syncFresh(n, p) ==
    IF n \in Git THEN p.head = live[n] /\ p.zoekt = live[n]
                 ELSE p.head = live[n] /\ p.zoekt = Files

\* What is dirty is indexed; without an engine that is left to the watcher.
Sync(q) ==
    /\ Command(q)
    /\ \E S \in (SUBSET DOMAIN reg'[q]) \ {{}} :
         LET clean == {n \in S : syncFresh(n, reg'[q][n])} IN
         \/ clean # S /\ Begin(q, "sync", S \ clean, "graph")
         \/ clean = S /\ Begin(q, "clean", S, "told")
    /\ UNCHANGED <<noted, limit>>

\* A session searches with the registry it has; what it does not have it
\* cannot refresh, and says so.
Search(q, n) ==
    /\ \/ /\ Command(q) /\ n \in DOMAIN reg'[q]
          /\ Begin(q, "search", {n}, "head")
          /\ UNCHANGED noted
       \/ /\ pc[q] = "ready"
          /\ Begin(q, "search", {n}, IF n \in DOMAIN reg[q] THEN "head" ELSE "walk")
          /\ noted' = [noted EXCEPT ![q] = IF n \in DOMAIN reg[q] THEN {} ELSE {n}]
          /\ UNCHANGED <<reg, behind>>
    /\ UNCHANGED limit

Fleet(q) ==
    /\ \/ Command(q)
       \/ pc[q] = "ready" /\ UNCHANGED <<reg, behind>>
    /\ DOMAIN reg'[q] # {}
    /\ Begin(q, "fleet", DOMAIN reg'[q], "head")
    /\ \E l \in Limits : limit' = [limit EXCEPT ![q] = l]
    /\ UNCHANGED noted

-----------------------------------------------------------------------------
(* One project: the graph, the text index, and what is recorded of them.   *)

\* The first of those still to be visited.
This(q) == CHOOSE n \in todo[q] : \A m \in todo[q] \ {n} : Place[n] < Place[m]
PassOver(q) == todo' = [todo EXCEPT ![q] = @ \ {This(q)}]

\* The end of a command, and of its frame. A session goes on.
Reset(q) ==
    /\ op' = [op EXCEPT ![q] = None]
    /\ asked' = [asked EXCEPT ![q] = {}] /\ todo' = [todo EXCEPT ![q] = {}]
    /\ zhead' = [zhead EXCEPT ![q] = 0] /\ built' = [built EXCEPT ![q] = 0]
    /\ fd' = [fd EXCEPT ![q] = None]
    /\ noted' = [noted EXCEPT ![q] = {}] /\ limit' = [limit EXCEPT ![q] = 0]
    /\ walk' = [walk EXCEPT ![q] = NoWalk] /\ base' = [base EXCEPT ![q] = Zero]

Leave(q) ==
    /\ Reset(q) /\ Goto(q, "idle")
    /\ reg' = [reg EXCEPT ![q] = Nothing]
    /\ behind' = [behind EXCEPT ![q] = FALSE]

End(q) ==
    IF q \in Sessions THEN Reset(q) /\ Goto(q, "ready") /\ UNCHANGED <<reg, behind>>
                      ELSE Leave(q)

Fails(q) == End(q) /\ UNCHANGED <<trees, disk, overlap, acked, counts>>

IndexGraph(q) ==
    /\ pc[q] = "graph"
    /\ graph' = [graph EXCEPT ![This(q)] = live[This(q)]]
    /\ Goto(q, "head")
    /\ UNCHANGED <<live, shards, raced, disk, reg, frame, behind, overlap, acked, counts>>

\* What was indexed and recorded so far is not saved.
GraphFails(q) == pc[q] = "graph" /\ Fails(q)

ReadHead(q) ==
    /\ pc[q] = "head"
    /\ zhead' = [zhead EXCEPT ![q] = IF This(q) \in Git THEN live[This(q)] ELSE Files]
    /\ Goto(q, "resolve")
    /\ UNCHANGED <<trees, disk, reg, op, asked, todo, built, fd, noted, limit, walk, base,
                   behind, overlap, acked, counts>>

\* IndexRepo resolves the head for itself, and has done when the shards cover it;
\* IndexDir always builds. No lock keeps two processes from building at one time.
Building(q, n) == pc[q] = "build" /\ This(q) = n

Resolve(q) ==
    /\ pc[q] = "resolve"
    /\ LET n == This(q) IN
       /\ raced' = IF \E p \in Procs \ {q} : Building(p, n) THEN raced \cup {n} ELSE raced
       /\ IF n \in Git /\ shards[n] = live[n]
          THEN Goto(q, "touch") /\ UNCHANGED built
          ELSE Goto(q, "build") /\ built' = [built EXCEPT ![q] = live[n]]
    /\ UNCHANGED <<live, graph, shards, disk, reg, op, asked, todo, zhead, fd, noted, limit, walk,
                   base, behind, overlap, acked, counts>>

\* The shards of the tree that was resolved take the place of those there are.
Build(q) ==
    /\ pc[q] = "build"
    /\ shards' = [shards EXCEPT ![This(q)] = built[q]]
    /\ built' = [built EXCEPT ![q] = 0]
    /\ Goto(q, "touch")
    /\ UNCHANGED <<live, graph, raced, disk, reg, op, asked, todo, zhead, fd, noted, limit, walk,
                   base, behind, overlap, acked, counts>>

\* Where a refresh leads: to the next project, to the save, or to the search.
\* A session saves after every project, a command once.
Members(q, dropped) == asked[q] \ dropped
Advance(q, dropped) ==
    IF todo[q] # {This(q)}
    THEN /\ PassOver(q)
         /\ Goto(q, IF op[q] \in {"index", "sync"} THEN "graph" ELSE "head")
    ELSE /\ todo' = [todo EXCEPT ![q] = Members(q, dropped)]
         /\ Goto(q, IF op[q] \in {"index", "sync", "register"} THEN "told" ELSE "walk")

Refreshed(q) ==
    IF q \in Sessions \/ todo[q] = {This(q)} THEN Goto(q, "open") /\ UNCHANGED todo
    ELSE Advance(q, noted[q])

\* Mutant of RefreshFails: a session goes on with what it has.
FailsQuietly(q) ==
    /\ pc[q] \in {"resolve", "build"}
    /\ \/ /\ op[q] \in {"index", "sync"} \/ (op[q] = "search" /\ q \notin Sessions)
          /\ Fails(q)
       \/ /\ op[q] = "fleet" \/ (op[q] = "search" /\ q \in Sessions)
          /\ noted' = noted
          /\ Advance(q, noted'[q])
          /\ zhead' = [zhead EXCEPT ![q] = 0]
          /\ built' = [built EXCEPT ![q] = 0]
          /\ UNCHANGED <<trees, disk, reg, op, asked, fd, limit, walk, base,
                         behind, overlap, acked, counts>>

\* A command fails; a session searches the shards there are and says that they
\* are stale; a search of all projects goes on without this one and says so.
RefreshFails(q) ==
    /\ pc[q] \in {"resolve", "build"}
    /\ \/ /\ op[q] \in {"index", "sync"} \/ (op[q] = "search" /\ q \notin Sessions)
          /\ Fails(q)
       \/ /\ op[q] = "fleet" \/ (op[q] = "search" /\ q \in Sessions)
          /\ noted' = [noted EXCEPT ![q] = @ \cup {This(q)}]
          /\ IF q \in Sessions \/ todo[q] # {This(q)}
             THEN Advance(q, IF op[q] = "fleet" THEN noted'[q] ELSE {})
             ELSE Goto(q, "open") /\ UNCHANGED todo
          /\ zhead' = [zhead EXCEPT ![q] = 0]
          /\ built' = [built EXCEPT ![q] = 0]
          /\ UNCHANGED <<trees, disk, reg, op, asked, fd, limit, walk, base,
                         behind, overlap, acked, counts>>

\* Mutant of Touch: what the text index covers is not recorded.
TouchHead(q) ==
    /\ pc[q] = "touch"
    /\ LET n == This(q) IN
       reg' = IF zhead[q] = reg[q][n].zoekt THEN reg
              ELSE [reg EXCEPT ![q][n] = [@ EXCEPT !.head = live[n]]]
    /\ Refreshed(q)
    /\ zhead' = [zhead EXCEPT ![q] = 0]
    /\ UNCHANGED <<trees, disk, op, asked, built, fd, noted, limit, walk, base,
                   behind, overlap, acked, counts>>

\* Mutant of Touch: the head is read once, after the text index was built.
TouchLive(q) ==
    /\ pc[q] = "touch"
    /\ LET n == This(q) head == IF n \in Git THEN live[n] ELSE Files IN
       reg' = IF head = reg[q][n].zoekt THEN reg
              ELSE [reg EXCEPT ![q][n] = [head |-> live[n], zoekt |-> head]]
    /\ Refreshed(q)
    /\ zhead' = [zhead EXCEPT ![q] = 0]
    /\ UNCHANGED <<trees, disk, op, asked, built, fd, noted, limit, walk, base,
                   behind, overlap, acked, counts>>

\* ensureZoektAndTouch: nothing is recorded when the text index covers what is
\* on record, and otherwise both heads: the one read before it was built, and
\* the one there is now, for the graph.
Touch(q) ==
    /\ pc[q] = "touch"
    /\ LET n == This(q) IN
       reg' = IF zhead[q] = reg[q][n].zoekt THEN reg
              ELSE [reg EXCEPT ![q][n] = [head |-> live[n], zoekt |-> zhead[q]]]
    /\ Refreshed(q)
    /\ zhead' = [zhead EXCEPT ![q] = 0]
    /\ UNCHANGED <<trees, disk, op, asked, built, fd, noted, limit, walk, base,
                   behind, overlap, acked, counts>>

-----------------------------------------------------------------------------
(* Save: the temporary file, which has one name, is truncated, written and *)
(* renamed.                                                                *)

Saving == {q \in Procs : pc[q] \in {"write", "rename"}}

\* Mutant of OpenTmp: the registry is written in place.
OpenFile(q) ==
    /\ pc[q] = "open"
    /\ file' = Empty /\ tmp' = Empty
    /\ fd' = [fd EXCEPT ![q] = "file"]
    /\ overlap' = (overlap \/ Saving # {})
    /\ Goto(q, "write")
    /\ UNCHANGED <<trees, reg, op, asked, todo, zhead, built, noted, limit, walk, base,
                   behind, acked, counts>>

OpenTmp(q) ==
    /\ pc[q] = "open"
    /\ tmp' = Empty
    /\ fd' = [fd EXCEPT ![q] = "tmp"]
    /\ overlap' = (overlap \/ Saving # {})
    /\ Goto(q, "write")
    /\ UNCHANGED <<trees, file, reg, op, asked, todo, zhead, built, noted, limit, walk, base,
                   behind, acked, counts>>

\* Over the bytes of another writer, if there are any.
Onto(old, new) == IF old = Empty THEN {new} ELSE {new, Torn}

Write(q) ==
    /\ pc[q] = "write"
    /\ tmp' \in IF fd[q] = "tmp" THEN Onto(tmp, reg[q]) ELSE {tmp}
    /\ file' \in IF fd[q] = "file" THEN Onto(file, reg[q]) ELSE {file}
    /\ Goto(q, "rename")
    /\ UNCHANGED <<trees, reg, frame, behind, overlap, acked, counts>>

\* A registration is acknowledged when it has been saved.
Rename(q) ==
    /\ pc[q] = "rename" /\ tmp # None
    /\ file' = tmp /\ tmp' = None
    /\ fd' = [p \in Procs |-> CASE p = q -> None
                                [] p # q /\ fd[p] = "tmp" -> "file"
                                [] p # q /\ fd[p] = "file" -> "gone"
                                [] OTHER -> fd[p]]
    /\ overlap' = (overlap \/ behind[q] \/ Saving # {q})
    /\ behind' = [p \in Procs |-> p # q /\ pc[p] # "idle"]
    /\ acked' = IF op[q] = "register" THEN acked \cup asked[q] ELSE acked
    /\ Advance(q, IF op[q] = "fleet" THEN noted[q] ELSE {})
    /\ UNCHANGED <<trees, reg, op, asked, zhead, built, noted, limit, walk, base, counts>>

\* The disk is full, or another writer has taken the file. Commands fail, but
\* for `tk sync`, which says that it is done; a session notes it.
SaveFails(q) ==
    /\ pc[q] \in {"open", "write", "rename"}
    /\ \/ pc[q] = "rename" /\ tmp = None /\ UNCHANGED cuts
       \/ cuts < MaxCuts /\ cuts' = cuts + 1
    /\ \/ q \notin Sessions /\ op[q] # "sync" /\ End(q) /\ UNCHANGED overlap
       \/ /\ op[q] = "sync"
          /\ op' = [op EXCEPT ![q] = "unsaved"]
          /\ fd' = [fd EXCEPT ![q] = None]
          /\ Advance(q, {})
          /\ UNCHANGED <<reg, asked, zhead, built, noted, limit, walk, base, behind, overlap>>
       \/ /\ q \in Sessions
          /\ noted' = [noted EXCEPT ![q] = @ \cup {This(q)}]
          /\ fd' = [fd EXCEPT ![q] = None]
          /\ Advance(q, IF op[q] = "fleet" THEN noted'[q] ELSE {})
          /\ UNCHANGED <<reg, op, asked, zhead, built, limit, walk, base, behind, overlap>>
    /\ UNCHANGED <<trees, disk, acked, runs>>

-----------------------------------------------------------------------------
(* The search. A project without shards cannot be searched.                *)

Least(a, b) == IF a < b THEN a ELSE b
Left(q) == limit[q] - walk[q].shown

\* QueryZoektFleet: one project after the other, each with what is left of the limit.
Visit(q) ==
    /\ pc[q] = "walk" /\ todo[q] # {}
    /\ limit[q] > 0 => Left(q) > 0
    /\ LET n == This(q)
           shown == IF limit[q] = 0 THEN Hits[n] ELSE Least(Hits[n], Left(q))
       IN walk' = [walk EXCEPT ![q].searched = @ \cup {n}, ![q].total = @ + Hits[n],
                               ![q].shown = @ + shown, ![q].cut = @ \/ shown < Hits[n]]
    /\ shards[This(q)] > 0
    /\ PassOver(q)
    /\ UNCHANGED <<trees, disk, pc, reg, op, asked, zhead, built, fd, noted, limit, base,
                   behind, overlap, acked, counts>>

VisitFails(q) ==
    /\ pc[q] = "walk" /\ todo[q] # {}
    /\ limit[q] > 0 => Left(q) > 0
    /\ walk' = [walk EXCEPT ![q].skipped = @ \cup {This(q)}]
    /\ PassOver(q)
    /\ UNCHANGED <<trees, disk, pc, reg, op, asked, zhead, built, fd, noted, limit, base,
                   behind, overlap, acked, counts>>

\* Mutant of StopShort: the rest is not mentioned.
StopSilently(q) ==
    /\ pc[q] = "walk" /\ todo[q] # {} /\ limit[q] > 0 /\ Left(q) = 0
    /\ todo' = [todo EXCEPT ![q] = {}]
    /\ UNCHANGED <<trees, disk, pc, reg, op, asked, zhead, built, fd, noted, limit, walk, base,
                   behind, overlap, acked, counts>>

\* The limit is spent: the rest is not opened, and named.
StopShort(q) ==
    /\ pc[q] = "walk" /\ todo[q] # {} /\ limit[q] > 0 /\ Left(q) = 0
    /\ walk' = [walk EXCEPT ![q].unsearched = todo[q]]
    /\ todo' = [todo EXCEPT ![q] = {}]
    /\ UNCHANGED <<trees, disk, pc, reg, op, asked, zhead, built, fd, noted, limit, base,
                   behind, overlap, acked, counts>>

Answer(q) ==
    /\ pc[q] = "walk" /\ todo[q] = {}
    /\ Goto(q, "told")
    /\ UNCHANGED <<trees, disk, reg, frame, behind, overlap, acked, counts>>

Done(q) == pc[q] = "told" /\ Fails(q)

-----------------------------------------------------------------------------
(* Around the commands.                                                    *)

\* A commit, or an edit in a plain directory.
Commit(n) ==
    /\ live[n] < MaxTree
    /\ live' = [live EXCEPT ![n] = @ + 1]
    /\ UNCHANGED <<graph, shards, raced, disk, pc, reg, frame, behind, overlap, acked, counts>>

Die(q) ==
    /\ pc[q] # "idle" /\ cuts < MaxCuts
    /\ cuts' = cuts + 1
    /\ Leave(q)
    /\ UNCHANGED <<trees, disk, overlap, acked, runs>>

-----------------------------------------------------------------------------
Enters(q) == OpenSession(q) \/ Index(q) \/ Sync(q) \/ Fleet(q)
             \/ \E n \in Projects : Register(q, n) \/ Search(q, n)
Works(q) == IndexGraph(q) \/ GraphFails(q) \/ ReadHead(q) \/ Resolve(q) \/ Build(q)
            \/ RefreshFails(q) \/ Touch(q)
Saves(q) == OpenTmp(q) \/ Write(q) \/ Rename(q) \/ SaveFails(q)
Answers(q) == Visit(q) \/ VisitFails(q) \/ StopShort(q) \/ Answer(q) \/ Done(q)

Next ==
    \/ \E q \in Procs : Enters(q) \/ Works(q) \/ Saves(q) \/ Answers(q) \/ Die(q)
    \/ \E n \in Projects : Commit(n)

Spec == Init /\ [][Next]_vars

-----------------------------------------------------------------------------
(* What the registry promises.                                             *)

Known(f) == DOMAIN Content(f)

\* A registration that was acknowledged stays: while no save meets another and
\* none is made by a process that has not seen the last, tk.json can be read
\* and has the project, whoever is killed where (store.Save).
AckedStays == ~overlap => file \notin {Empty, Torn} /\ acked \subseteq Known(file)

Covered(r) == \A n \in (Git \cap DOMAIN r) \ raced : r[n].zoekt \in 0..shards[n]

\* Until two builds of its text index meet, no registry, on disk or in a process,
\* claims more of a git repository than the shards cover: a commit that lands while
\* they are built is never recorded as indexed (ensureZoektAndTouch). Of two builds
\* that meet, the one of the older head may be the last to publish.
RecordedIsCovered ==
    /\ Covered(Content(file)) /\ Covered(Content(tmp))
    /\ \A q \in Procs : Covered(reg[q])

\* Until then `tk sync` says "clean" of a git repository only when its text index
\* covers the commit checked out ("sync can never claim "clean" while source-search
\* would serve a stale index", syncFresh).
CleanIsSearchable ==
    [][\A q \in Procs : op'[q] = "clean" /\ op[q] # "clean" =>
           \A n \in (asked'[q] \cap Git) \ raced : shards[n] = live[n]]_vars

\* Until then a text search answers from an index at least as new as the tree was
\* when the search began, or says that the refresh failed (EnsureIndex, findTextRead).
AnswerIsCurrent ==
    [][\A q \in Procs : \A n \in walk'[q].searched \ walk[q].searched :
           n \in noted[q] \cup raced \/ shards[n] >= base[q][n]]_vars

\* An index or a sync of a repository that nobody commits to meanwhile leaves it such
\* that the next sync finds it clean (ensureZoektAndTouch and syncFresh). Not so a sync
\* that could not save: it says that it is done, and nothing of it is on record.
SyncConverges ==
    \A q \in Procs : pc[q] = "told" /\ op[q] \in {"index", "sync"} /\ ~overlap =>
        \A n \in asked[q] \cap Git :
            live[n] = base[q][n] => n \in Known(file) /\ syncFresh(n, file[n])

\* No project of a search of all projects is silently absent: it was searched, or is
\* named, as skipped, as not searched for the limit, or in the note of a failed refresh;
\* and the walk counts none twice (FleetResult). That sourcesearch.go:247-249 calls a
\* project whose refresh failed skipped is not claimed here: it only gets the note.
FleetAccounts ==
    \A q \in Procs : pc[q] = "told" /\ op[q] = "fleet" =>
        LET w == walk[q] IN
        /\ asked[q] \subseteq w.searched \cup w.skipped \cup w.unsearched \cup noted[q]
        /\ w.searched \cap (w.skipped \cup w.unsearched) = {} /\ w.skipped \cap w.unsearched = {}

\* It shows no more matches than the limit in all, and when it reports nothing
\* withheld it shows every match there is (QueryZoektFleet, Completeness).
FleetHonest ==
    \A q \in Procs : pc[q] = "told" /\ op[q] = "fleet" =>
        LET w == walk[q] IN
        /\ limit[q] > 0 => w.shown <= limit[q]
        /\ w.skipped = {} /\ w.unsearched = {} /\ noted[q] = {} /\ ~w.cut
              => w.shown = SumFunctionOnSet(Hits, asked[q])

\* What a search of all projects tells is all there is, or says what is missing.
FleetTruthful == FleetAccounts /\ FleetHonest

\* "syncFresh reports whether BOTH backends already cover the live tree"
\* (projects.go:259-260).
SyncCleanCoversBoth ==
    [][\A q \in Procs : op'[q] = "clean" /\ op[q] # "clean" =>
           \A n \in asked'[q] \cap Git : graph[n] = live[n] /\ shards[n] = live[n]]_vars
=============================================================================
