--------------------------- MODULE RegistryProofs ---------------------------
(***************************************************************************)
(* Proofs about Registry: its types; that no registry claims more than the *)
(* text index covers, and what `tk sync` may say because of it; that a     *)
(* search is current, and that a fleet search adds up; that a registration *)
(* stays; and that a sync converges.                                       *)
(***************************************************************************)
EXTENDS Registry, FiniteSetTheorems, TLAPS

OnProject == {"graph", "head", "resolve", "build", "touch", "open", "write", "rename"}

(* A pass over projects has one to visit; between commands nothing is left.*)
TodoInv ==
    \A q \in Procs : /\ pc[q] \in OnProject => todo[q] # {}
                     /\ pc[q] \in {"idle", "ready"} => walk[q] = NoWalk /\ noted[q] = {}

\* There is a first one.
LEMMA ThisIsTodo ==
    ASSUME TypeOK, NEW q \in Procs, todo[q] # {}
    PROVE  This(q) \in todo[q] /\ This(q) \in Projects
  <1>1. todo[q] \subseteq Projects
    BY DEF TypeOK
  <1>2. \E n \in todo[q] : \A m \in todo[q] \ {n} : Place[n] < Place[m]
    BY <1>1, RegistryAssumption
  <1> QED
    BY <1>1, <1>2 DEF This

LEMMA ContentIsRegistry == \A f \in Registries \cup {None, Empty, Torn} : Content(f) \in Registries
  BY DEF Content, Nothing, Registries

LEMMA NewIsEntry == New \in Entry
  BY RegistryAssumption DEF New, Entry, Tree

\* A project changed in a registry.
LEMMA Changed ==
    ASSUME NEW r \in Registries, NEW n, NEW e \in Entry
    PROVE  [r EXCEPT ![n] = e] \in Registries /\ DOMAIN [r EXCEPT ![n] = e] = DOMAIN r
  BY DEF Registries

LEMMA DomainOf == \A r \in Registries : DOMAIN r \subseteq Projects /\ \A n \in DOMAIN r : r[n] \in Entry
  BY DEF Registries

LEMMA Constants ==
    NoWalk \in Walk /\ Zero \in [Projects -> Tree] /\ Nothing \in Registries /\ 0 \in Tree /\ 1 \in Tree
  <1>1. 1 \in Tree /\ 0 \in Tree /\ Nothing \in [{} -> Entry] /\ NoWalk \in Walk
    BY RegistryAssumption DEF Nothing, NoWalk, Walk, Tree
  <1> QED
    BY <1>1 DEF Registries, Zero

LEMMA TypeInit == Init => TypeOK /\ TodoInv
  <1> SUFFICES ASSUME Init PROVE TypeOK /\ TodoInv
    OBVIOUS
  <1>3. TypeOK
    <2>1. \A q \in Procs : todo[q] \cup walk[q].searched \cup walk[q].skipped \cup walk[q].unsearched
                           \subseteq asked[q]
      BY DEF Init, NoWalk
    <2>2. /\ pc \in [Procs -> Labels]
          /\ live \in [Projects -> Tree] /\ graph \in [Projects -> Tree] /\ shards \in [Projects -> Tree]
          /\ behind \in [Procs -> BOOLEAN] /\ reg \in [Procs -> Registries] /\ walk \in [Procs -> Walk]
          /\ base \in [Procs -> [Projects -> Tree]]
      BY Constants DEF Init, Labels, Zero
    <2>3. runs \in 0..MaxRuns /\ cuts \in 0..MaxCuts
      BY RegistryAssumption DEF Init
    <2> QED
      BY Constants, <2>1, <2>2, <2>3 DEF Init, TypeOK
  <1>4. TodoInv
    BY DEF Init, TodoInv, OnProject, Labels
  <1> QED
    BY <1>3, <1>4

Typed == TypeOK /\ TodoInv
Ops == {None, "register", "index", "sync", "clean", "unsaved", "search", "fleet"}

\* The end of a command.
LEMMA TypeEnd ==
    ASSUME Typed, NEW q \in Procs, End(q) \/ Leave(q), UNCHANGED <<trees, disk, acked>>,
           overlap' \in BOOLEAN, runs' \in 0..MaxRuns, cuts' \in 0..MaxCuts
    PROVE  Typed'
  <1> USE RegistryAssumption DEF Typed, Goto
  <1>0. NoWalk \in Walk /\ Zero \in [Projects -> Tree] /\ Nothing \in Registries /\ 0 \in Tree
    BY Constants
  <1>1. \A p \in Procs : todo'[p] \cup walk'[p].searched \cup walk'[p].skipped \cup walk'[p].unsearched
                          \subseteq asked'[p]
    BY DEF End, Leave, Reset, TypeOK, NoWalk
  <1>2. /\ reg' \in [Procs -> Registries] /\ behind' \in [Procs -> BOOLEAN]
        /\ pc' \in [Procs -> Labels]
    <2>1. reg' = reg \/ reg' = [reg EXCEPT ![q] = Nothing]
      BY DEF End, Leave
    <2>2. behind' = behind \/ behind' = [behind EXCEPT ![q] = FALSE]
      BY DEF End, Leave
    <2>3. PICK l \in {"idle", "ready"} : pc' = [pc EXCEPT ![q] = l]
      BY DEF End, Leave
    <2>4. l \in Labels
      BY DEF Labels
    <2>5. reg' \in [Procs -> Registries]
      BY <1>0, <2>1 DEF TypeOK
    <2>6. behind' \in [Procs -> BOOLEAN]
      BY <2>2 DEF TypeOK
    <2>7. pc' \in [Procs -> Labels]
      BY <2>3, <2>4 DEF TypeOK
    <2> QED
      BY <2>5, <2>6, <2>7
  <1>3. Reset(q)
    BY DEF End, Leave
  <1>4. TypeOK'
    BY <1>0, <1>1, <1>2, <1>3 DEF Reset, TypeOK, trees, disk
  <1>5. TodoInv'
    BY DEF End, Leave, Reset, TypeOK, TodoInv, OnProject, Labels
  <1> QED
    BY <1>4, <1>5

LEMMA TypeBegin ==
    ASSUME Typed, NEW q \in Procs, pc[q] \in {"idle", "ready"},
           NEW o \in {"register", "index", "sync", "clean", "search", "fleet"},
           NEW S \in SUBSET Projects, S # {}, NEW l \in {"open", "graph", "head", "walk", "told"},
           Begin(q, o, S, l),
           reg' \in [Procs -> Registries], noted' \in [Procs -> SUBSET Projects],
           \A p \in Procs \ {q} : noted'[p] = noted[p],
           limit' \in [Procs -> Nat], behind' \in [Procs -> BOOLEAN]
    PROVE  Typed'
  <1> USE RegistryAssumption DEF Typed, Goto
  <1>1. walk[q] = NoWalk
    BY DEF TodoInv
  <1>2. \A p \in Procs : todo'[p] \cup walk'[p].searched \cup walk'[p].skipped \cup walk'[p].unsearched
                          \subseteq asked'[p]
    BY <1>1 DEF Begin, TypeOK, NoWalk
  <1>3. base' \in [Procs -> [Projects -> Tree]] /\ runs' \in 0..MaxRuns
    BY DEF Begin, TypeOK
  <1>a. /\ op' \in [Procs -> {None, "register", "index", "sync", "clean", "unsaved", "search", "fleet"}]
        /\ asked' \in [Procs -> SUBSET Projects] /\ todo' \in [Procs -> SUBSET Projects]
    BY DEF Begin, TypeOK
  <1>b. pc' \in [Procs -> Labels]
    <2>1. l \in Labels
      BY DEF Labels
    <2> QED
      BY <2>1 DEF Begin, TypeOK
  <1>4. TypeOK'
    BY <1>2, <1>3, <1>a, <1>b DEF Begin, TypeOK, trees, disk
  <1>5. TodoInv'
    BY DEF Begin, TypeOK, TodoInv, OnProject, Labels
  <1> QED
    BY <1>4, <1>5

\* On to the next project, or to what follows the last.
LEMMA TypeAdvance ==
    ASSUME Typed, NEW q \in Procs, NEW D \in SUBSET Projects, pc[q] \in OnProject, Advance(q, D)
    PROVE  /\ pc' \in [Procs -> Labels]
           /\ todo' \in [Procs -> SUBSET Projects] /\ todo'[q] \subseteq asked[q]
           /\ \A p \in Procs \ {q} : todo'[p] = todo[p] /\ pc'[p] = pc[p]
           /\ pc'[q] \in OnProject => todo'[q] # {}
           /\ pc'[q] \notin {"idle", "ready"}
  <1>1. This(q) \in todo[q]
    BY ThisIsTodo DEF Typed, TodoInv
  <1>2. todo[q] \subseteq asked[q] /\ asked[q] \subseteq Projects
    BY DEF Typed, TypeOK
  <1>3. CASE todo[q] # {This(q)}
    <2>1. PICK l \in {"graph", "head"} : pc' = [pc EXCEPT ![q] = l]
      BY <1>3 DEF Advance, Goto
    <2>2. todo' = [todo EXCEPT ![q] = todo[q] \ {This(q)}]
      BY <1>3 DEF Advance, PassOver, Typed, TypeOK
    <2>3. todo[q] \ {This(q)} # {}
      BY <1>1, <1>3
    <2> QED
      BY <1>2, <2>1, <2>2, <2>3 DEF Typed, TypeOK, Labels
  <1>4. CASE todo[q] = {This(q)}
    <2>1. PICK l \in {"told", "walk"} : pc' = [pc EXCEPT ![q] = l]
      BY <1>4 DEF Advance, Goto
    <2>2. todo' = [todo EXCEPT ![q] = asked[q] \ D]
      BY <1>4 DEF Advance, Members
    <2> QED
      BY <1>2, <2>1, <2>2 DEF Typed, TypeOK, OnProject, Labels
  <1> QED
    BY <1>3, <1>4

LEMMA TypeEnters ==
    ASSUME Typed, NEW q \in Procs, Enters(q)
    PROVE  Typed'
  <1> USE RegistryAssumption
  <1>0. /\ Content(file) \in Registries /\ DOMAIN Content(file) \subseteq Projects
        /\ DOMAIN reg[q] \subseteq Projects
        /\ reg \in [Procs -> Registries] /\ behind \in [Procs -> BOOLEAN]
        /\ noted \in [Procs -> SUBSET Projects] /\ limit \in [Procs -> Nat]
    BY ContentIsRegistry, DomainOf DEF Typed, TypeOK
  <1>1. ASSUME Load(q)
        PROVE  reg' \in [Procs -> Registries] /\ behind' \in [Procs -> BOOLEAN]
               /\ DOMAIN reg'[q] \subseteq Projects
    BY <1>0, <1>1 DEF Load
  <1>2. CASE OpenSession(q)
    BY <1>0, <1>1, <1>2 DEF OpenSession, Load, Typed, TypeOK, TodoInv, Goto, trees, disk, frame,
       counts,
                            OnProject, Labels
  <1>3. ASSUME NEW n \in Projects, Register(q, n) PROVE Typed'
    <2>1. reg' \in [Procs -> Registries]
      <3>1. [m \in DOMAIN Content(file) \cup {n} |-> IF m = n THEN New ELSE Content(file)[m]] \in Registries
        <4>1. PICK S \in SUBSET Projects : Content(file) \in [S -> Entry]
          BY <1>0 DEF Registries
        <4>2. DOMAIN Content(file) = S
          BY <4>1
        <4>3. [m \in DOMAIN Content(file) \cup {n} |-> IF m = n THEN New ELSE Content(file)[m]]
                \in [S \cup {n} -> Entry]
          BY <4>1, <4>2, NewIsEntry
        <4>4. S \cup {n} \in SUBSET Projects
          OBVIOUS
        <4>5. ASSUME NEW f, f \in [S \cup {n} -> Entry] PROVE f \in Registries
          BY <4>4, <4>5 DEF Registries
        <4> QED
          BY <4>3, <4>5
      <3> QED
        BY <1>0, <1>3, <3>1 DEF Register
    <2> QED
      BY <1>0, <1>3, <2>1, TypeBegin DEF Register
  <1>4. CASE Index(q)
    BY <1>0, <1>1, <1>4, TypeBegin DEF Index, Command
  <1>5. CASE Sync(q)
    BY <1>0, <1>1, <1>5, TypeBegin DEF Sync, Command
  <1>6. ASSUME NEW n \in Projects, Search(q, n) PROVE Typed'
    <2>1. CASE Command(q)
      BY <1>0, <1>1, <1>6, <2>1, TypeBegin DEF Search, Command
    <2>2. CASE ~Command(q)
      <3>1. /\ pc[q] = "ready" /\ UNCHANGED <<reg, behind, limit>>
            /\ \E l \in {"head", "walk"} : Begin(q, "search", {n}, l)
            /\ \E D \in {{}, {n}} : noted' = [noted EXCEPT ![q] = D]
        BY <1>6, <2>2 DEF Search
      <3> QED
        BY <1>0, <3>1, TypeBegin
    <2> QED
      BY <2>1, <2>2
  <1>7. CASE Fleet(q)
    <2>1. limit' \in [Procs -> Nat] /\ noted' = noted
      BY <1>0, <1>7 DEF Fleet
    <2>2. CASE Command(q)
      BY <1>0, <1>1, <1>7, <2>1, <2>2, TypeBegin DEF Fleet, Command
    <2>3. CASE ~Command(q)
      BY <1>0, <1>7, <2>1, <2>3, TypeBegin DEF Fleet
    <2> QED
      BY <2>2, <2>3
  <1> QED
    BY <1>2, <1>3, <1>4, <1>5, <1>6, <1>7 DEF Enters

\* A step on one project that leaves what is asked and searched alone.
LEMMA TypeFrame ==
    ASSUME Typed, NEW q \in Procs,
           UNCHANGED <<asked, limit, walk, base>>, op' \in [Procs -> Ops],
           noted' \in [Procs -> SUBSET Projects], raced' \subseteq Projects,
           pc' \in [Procs -> Labels], pc'[q] \notin {"idle", "ready"},
           todo' \in [Procs -> SUBSET Projects], todo'[q] \subseteq asked[q],
           pc'[q] \in OnProject => todo'[q] # {},
           \A p \in Procs \ {q} : pc'[p] = pc[p] /\ todo'[p] = todo[p] /\ noted'[p] = noted[p],
           live' \in [Projects -> Tree], graph' \in [Projects -> Tree], shards' \in [Projects -> Tree],
           file' \in Registries \cup {None, Empty, Torn}, tmp' \in Registries \cup {None, Empty, Torn},
           reg' \in [Procs -> Registries], zhead' \in [Procs -> Tree \cup {Files}],
           built' \in [Procs -> Tree], fd' \in [Procs -> {None, "tmp", "file", "gone"}],
           behind' \in [Procs -> BOOLEAN], overlap' \in BOOLEAN, acked' \subseteq Projects,
           runs' \in 0..MaxRuns, cuts' \in 0..MaxCuts
    PROVE  Typed'
  <1>1. TypeOK'
    BY DEF Typed, TypeOK, Ops
  <1>2. TodoInv'
    BY DEF Typed, TypeOK, TodoInv
  <1> QED
    BY <1>1, <1>2 DEF Typed

\* Such a step that goes on to the next project.
LEMMA TypeOnward ==
    ASSUME Typed, NEW q \in Procs, NEW D \in SUBSET Projects, pc[q] \in OnProject, Advance(q, D),
           UNCHANGED <<trees, asked, limit, walk, base, runs>>, op' \in [Procs -> Ops],
           zhead' \in [Procs -> Tree \cup {Files}], built' \in [Procs -> Tree],
           noted' \in [Procs -> SUBSET Projects],
           \A p \in Procs \ {q} : noted'[p] = noted[p],
           file' \in Registries \cup {None, Empty, Torn}, tmp' \in Registries \cup {None, Empty, Torn},
           reg' \in [Procs -> Registries], fd' \in [Procs -> {None, "tmp", "file", "gone"}],
           behind' \in [Procs -> BOOLEAN], overlap' \in BOOLEAN, acked' \subseteq Projects,
           cuts' \in 0..MaxCuts
    PROVE  Typed'
  <1>1. /\ pc' \in [Procs -> Labels]
        /\ todo' \in [Procs -> SUBSET Projects] /\ todo'[q] \subseteq asked[q]
        /\ \A p \in Procs \ {q} : todo'[p] = todo[p] /\ pc'[p] = pc[p]
        /\ pc'[q] \in OnProject => todo'[q] # {}
        /\ pc'[q] \notin {"idle", "ready"}
    BY TypeAdvance
  <1>2. /\ live' \in [Projects -> Tree] /\ graph' \in [Projects -> Tree] /\ shards' \in [Projects -> Tree]
        /\ raced' \subseteq Projects /\ runs' \in 0..MaxRuns
    BY DEF Typed, TypeOK, trees
  <1> QED
    BY <1>1, <1>2, TypeFrame

LEMMA TypeWorks ==
    ASSUME Typed, NEW q \in Procs, Works(q)
    PROVE  Typed'
  <1> USE RegistryAssumption DEF trees, disk, counts, frame, Ops
  <1>0. ASSUME pc[q] \in OnProject
        PROVE  This(q) \in todo[q] /\ This(q) \in Projects
    BY <1>0, ThisIsTodo DEF Typed, TodoInv
  <1>1. CASE Fails(q)
    BY <1>1, TypeEnd DEF Fails, Typed, TypeOK
  <1>2. CASE IndexGraph(q)
    BY <1>0, <1>2, TypeFrame DEF IndexGraph, Goto, Typed, TypeOK, TodoInv, OnProject, Labels
  <1>3. CASE ReadHead(q)
    BY <1>0, <1>3, TypeFrame DEF ReadHead, Goto, Typed, TypeOK, TodoInv, OnProject, Labels
  <1>4. CASE Build(q)
    <2>1. 0 \in Tree
      BY Constants
    <2> QED
      BY <1>0, <1>4, <2>1, TypeFrame DEF Build, Goto, Typed, TypeOK, TodoInv, OnProject, Labels
  <1>7. CASE Resolve(q)
    <2>1. This(q) \in Projects /\ todo[q] # {} /\ pc[q] = "resolve"
      BY <1>0, <1>7 DEF Resolve, Typed, TypeOK, TodoInv, OnProject
    <2>2. /\ raced' \in {raced, raced \cup {This(q)}}
          /\ built' = built \/ built' = [built EXCEPT ![q] = live[This(q)]]
          /\ UNCHANGED <<live, graph, shards, disk, reg, op, asked, todo, zhead, fd, noted, limit, walk,
                         base, behind, overlap, acked, counts>>
      BY <1>7 DEF Resolve
    <2>3. PICK l \in {"touch", "build"} : pc' = [pc EXCEPT ![q] = l]
      BY <1>7 DEF Resolve, Goto
    <2>4. raced' \subseteq Projects /\ built' \in [Procs -> Tree]
      <3>1. live[This(q)] \in Tree
        BY <2>1 DEF Typed, TypeOK
      <3>2. raced' \subseteq Projects
        BY <2>1, <2>2 DEF Typed, TypeOK
      <3>3. built' \in [Procs -> Tree]
        BY <2>2, <3>1 DEF Typed, TypeOK
      <3> QED
        BY <3>2, <3>3
    <2>5. pc' \in [Procs -> Labels] /\ pc'[q] \notin {"idle", "ready"}
          /\ \A p \in Procs \ {q} : pc'[p] = pc[p]
      BY <2>3 DEF Typed, TypeOK, Labels
    <2> QED
      BY <2>1, <2>2, <2>4, <2>5, TypeFrame DEF Typed, TypeOK
  <1>5. CASE RefreshFails(q)
    <2>0. pc[q] \in OnProject /\ 0 \in Tree
      BY <1>5, Constants DEF RefreshFails, OnProject
    <2>1. CASE Fails(q)
      BY <1>1, <2>1
    <2>2. CASE ~Fails(q)
      <3>1. /\ noted' = [noted EXCEPT ![q] = @ \cup {This(q)}]
            /\ zhead' = [zhead EXCEPT ![q] = 0] /\ built' = [built EXCEPT ![q] = 0]
            /\ UNCHANGED <<trees, disk, reg, op, asked, fd, limit, walk, base,
                           behind, overlap, acked, counts>>
            /\ \/ \E D \in {{}, noted'[q]} : Advance(q, D)
               \/ Goto(q, "open") /\ UNCHANGED todo
        BY <1>5, <2>2 DEF RefreshFails
      <3>2. /\ noted' \in [Procs -> SUBSET Projects] /\ noted'[q] \in SUBSET Projects
            /\ zhead' \in [Procs -> Tree \cup {Files}] /\ built' \in [Procs -> Tree]
        BY <1>0, <2>0, <3>1 DEF Typed, TypeOK
      <3>3. CASE \E D \in {{}, noted'[q]} : Advance(q, D)
        <4>1. PICK D \in SUBSET Projects : Advance(q, D)
          BY <3>2, <3>3
        <4> QED
          BY <2>0, <3>1, <3>2, <4>1, TypeOnward DEF Typed, TypeOK
      <3>4. CASE Goto(q, "open") /\ UNCHANGED todo
        BY <2>0, <3>1, <3>2, <3>4, TypeFrame DEF Goto, Typed, TypeOK, TodoInv, Labels
      <3> QED
        BY <3>1, <3>3, <3>4
    <2> QED
      BY <2>1, <2>2
  <1>6. CASE Touch(q)
    <2>0. pc[q] = "touch" /\ pc[q] \in OnProject /\ 0 \in Tree
      BY <1>6, Constants DEF Touch, OnProject
    <2>1. reg' \in [Procs -> Registries]
      BY <1>0, <1>6, <2>0, Changed DEF Touch, Typed, TypeOK, Entry
    <2>2. /\ UNCHANGED <<trees, disk, op, asked, built, fd, noted, limit, walk, base,
                         behind, overlap, acked, counts>>
          /\ Refreshed(q) /\ zhead' \in [Procs -> Tree \cup {Files}]
      BY <1>6, <2>0 DEF Touch, Typed, TypeOK
    <2>3. CASE Goto(q, "open") /\ UNCHANGED todo
      BY <2>0, <2>1, <2>2, <2>3, TypeFrame DEF Goto, Typed, TypeOK, TodoInv, Labels
    <2>4. CASE Advance(q, noted[q])
      <3>1. noted[q] \in SUBSET Projects
        BY DEF Typed, TypeOK
      <3> QED
        BY <2>0, <2>1, <2>2, <2>4, <3>1, TypeOnward DEF Typed, TypeOK
    <2> QED
      BY <2>2, <2>3, <2>4 DEF Refreshed
  <1> QED
    BY <1>1, <1>2, <1>3, <1>4, <1>5, <1>6, <1>7 DEF Works, GraphFails

LEMMA TypeSaves ==
    ASSUME Typed, NEW q \in Procs, Saves(q)
    PROVE  Typed'
  <1> USE RegistryAssumption DEF trees, disk, counts, frame, Ops
  <1>1. CASE OpenTmp(q)
    BY <1>1, TypeFrame DEF OpenTmp, Goto, Typed, TypeOK, TodoInv, OnProject, Labels
  <1>2. CASE Write(q)
    BY <1>2, TypeFrame DEF Write, Onto, Goto, Typed, TypeOK, TodoInv, OnProject, Labels
  <1>3. CASE Rename(q)
    <2>0. pc[q] = "rename" /\ pc[q] \in OnProject
      BY <1>3 DEF Rename, OnProject
    <2>1. fd' \in [Procs -> {None, "tmp", "file", "gone"}] /\ acked' \subseteq Projects
          /\ overlap' \in BOOLEAN /\ behind' \in [Procs -> BOOLEAN]
      BY <1>3 DEF Rename, Typed, TypeOK
    <2>2. PICK D \in SUBSET Projects : Advance(q, D)
      BY <1>3 DEF Rename, Typed, TypeOK
    <2> QED
      BY <1>3, <2>0, <2>1, <2>2, TypeOnward DEF Rename, Typed, TypeOK
  <1>4. CASE SaveFails(q)
    <2>0. pc[q] \in OnProject /\ cuts' \in 0..MaxCuts
      BY <1>4 DEF SaveFails, OnProject, Typed, TypeOK
    <2>1. CASE End(q) /\ UNCHANGED overlap
      BY <1>4, <2>0, <2>1, TypeEnd DEF SaveFails, Typed, TypeOK
    <2>2. CASE op' = [op EXCEPT ![q] = "unsaved"] /\ ~(End(q) /\ UNCHANGED overlap) /\ op[q] = "sync"
      <3>1. /\ op' = [op EXCEPT ![q] = "unsaved"] /\ Advance(q, {})
            /\ fd' = [fd EXCEPT ![q] = None]
            /\ UNCHANGED <<trees, disk, acked, runs, reg, asked, zhead, built, noted, limit, walk, base,
                           behind, overlap>>
        BY <1>4, <2>2 DEF SaveFails, Typed, TypeOK
      <3>2. op' \in [Procs -> Ops]
        BY <3>1 DEF Typed, TypeOK
      <3> QED
        BY <2>0, <3>1, <3>2, TypeOnward DEF Typed, TypeOK
    <2>3. CASE ~(End(q) /\ UNCHANGED overlap) /\ ~(op' = [op EXCEPT ![q] = "unsaved"] /\ op[q] = "sync")
      <3>1. /\ noted' = [noted EXCEPT ![q] = @ \cup {This(q)}]
            /\ fd' = [fd EXCEPT ![q] = None]
            /\ UNCHANGED <<trees, disk, acked, runs, reg, op, asked, zhead, built, limit, walk, base,
                           behind, overlap>>
            /\ \E D \in {{}, noted'[q]} : Advance(q, D)
        BY <1>4, <2>3 DEF SaveFails
      <3>2. noted' \in [Procs -> SUBSET Projects] /\ noted'[q] \in SUBSET Projects
        BY <2>0, <3>1, ThisIsTodo DEF Typed, TypeOK, TodoInv
      <3>3. PICK D \in SUBSET Projects : Advance(q, D)
        BY <3>1, <3>2
      <3> QED
        BY <2>0, <3>1, <3>2, <3>3, TypeOnward DEF Typed, TypeOK
    <2> QED
      BY <2>1, <2>2, <2>3
  <1> QED
    BY <1>1, <1>2, <1>3, <1>4 DEF Saves

\* A step of the search.
LEMMA TypeWalk ==
    ASSUME Typed, NEW q \in Procs, NEW w \in Walk, walk' = [walk EXCEPT ![q] = w],
           NEW T \in SUBSET todo[q], todo' = [todo EXCEPT ![q] = T],
           w.searched \cup w.skipped \cup w.unsearched \subseteq asked[q], pc[q] = "walk",
           UNCHANGED <<trees, disk, pc, reg, op, asked, zhead, built, fd, noted, limit, base,
                       behind, overlap, acked, counts>>
    PROVE  Typed'
  <1>1. \A p \in Procs : todo'[p] \cup walk'[p].searched \cup walk'[p].skipped \cup walk'[p].unsearched
                         \subseteq asked'[p]
    BY DEF Typed, TypeOK
  <1>2. walk' \in [Procs -> Walk] /\ todo' \in [Procs -> SUBSET Projects]
    BY DEF Typed, TypeOK
  <1>3. TypeOK'
    BY <1>1, <1>2 DEF Typed, TypeOK, trees, disk, counts
  <1>4. TodoInv'
    BY DEF Typed, TypeOK, TodoInv, OnProject
  <1> QED
    BY <1>3, <1>4 DEF Typed

LEMMA TypeAnswers ==
    ASSUME Typed, NEW q \in Procs, Answers(q)
    PROVE  Typed'
  <1> USE RegistryAssumption
  <1>0. /\ walk[q] \in Walk /\ limit[q] \in Nat
        /\ todo[q] \cup walk[q].searched \cup walk[q].skipped \cup walk[q].unsearched \subseteq asked[q]
        /\ todo[q] # {} => This(q) \in todo[q] /\ This(q) \in Projects
    BY ThisIsTodo DEF Typed, TypeOK
  <1>1. CASE Visit(q)
    <2> DEFINE n == This(q)
               shown == IF limit[q] = 0 THEN Hits[n] ELSE Least(Hits[n], Left(q))
               w == [walk[q] EXCEPT !.searched = @ \cup {n}, !.total = @ + Hits[n],
                                    !.shown = @ + shown, !.cut = @ \/ shown < Hits[n]]
    <2>1. n \in Projects /\ Hits[n] \in Nat
      BY <1>0, <1>1 DEF Visit
    <2>2. shown \in Nat
      BY <1>0, <1>1, <2>1 DEF Visit, Least, Left, Walk
    <2>a. (walk[q].cut \/ shown < Hits[n]) \in BOOLEAN
      OBVIOUS
    <2>3. w \in Walk
      <3>1. /\ walk[q].searched \cup {n} \in SUBSET Projects /\ walk[q].total + Hits[n] \in Nat
            /\ walk[q].shown + shown \in Nat
        BY <1>0, <2>1, <2>2 DEF Walk
      <3>2. ASSUME NEW S \in SUBSET Projects, NEW t \in Nat, NEW m \in Nat, NEW c \in BOOLEAN
            PROVE  [walk[q] EXCEPT !.searched = S, !.total = t, !.shown = m, !.cut = c] \in Walk
        BY <1>0 DEF Walk
      <3> QED
        BY <3>1, <3>2, <2>a
    <2>4. walk' = [walk EXCEPT ![q] = w]
      BY <1>1 DEF Visit, Typed, TypeOK, Walk
    <2>5. todo' = [todo EXCEPT ![q] = todo[q] \ {n}] /\ pc[q] = "walk"
          /\ UNCHANGED <<trees, disk, pc, reg, op, asked, zhead, built, fd, noted, limit, base,
                         behind, overlap, acked, counts>>
      BY <1>1 DEF Visit, PassOver, Typed, TypeOK
    <2>6. w.searched \cup w.skipped \cup w.unsearched \subseteq asked[q]
      BY <1>0, <1>1 DEF Visit, Walk
    <2> HIDE DEF w
    <2> QED
      BY <2>3, <2>4, <2>5, <2>6, TypeWalk
  <1>2. CASE VisitFails(q)
    <2> DEFINE w == [walk[q] EXCEPT !.skipped = @ \cup {This(q)}]
    <2>1. /\ todo' = [todo EXCEPT ![q] = todo[q] \ {This(q)}] /\ pc[q] = "walk"
          /\ UNCHANGED <<trees, disk, pc, reg, op, asked, zhead, built, fd, noted, limit, base,
                         behind, overlap, acked, counts>>
      BY <1>2 DEF VisitFails, PassOver, Typed, TypeOK
    <2>2. walk' = [walk EXCEPT ![q] = w]
      BY <1>2 DEF VisitFails, Typed, TypeOK, Walk
    <2>3. This(q) \in Projects /\ This(q) \in asked[q]
      BY <1>0, <1>2 DEF VisitFails
    <2>4. w \in Walk /\ w.searched \cup w.skipped \cup w.unsearched \subseteq asked[q]
      BY <1>0, <2>3 DEF Walk
    <2> HIDE DEF w
    <2> QED
      BY <2>1, <2>2, <2>4, TypeWalk
  <1>3. CASE StopShort(q)
    <2> DEFINE w == [walk[q] EXCEPT !.unsearched = todo[q]]
    <2>1. /\ walk' = [walk EXCEPT ![q] = w] /\ todo' = [todo EXCEPT ![q] = {}]
          /\ pc[q] = "walk" /\ w \in Walk
          /\ UNCHANGED <<trees, disk, pc, reg, op, asked, zhead, built, fd, noted, limit, base,
                         behind, overlap, acked, counts>>
          /\ w.searched \cup w.skipped \cup w.unsearched \subseteq asked[q]
      BY <1>0, <1>3 DEF StopShort, Typed, TypeOK, Walk
    <2> HIDE DEF w
    <2> QED
      BY <2>1, TypeWalk
  <1>4. CASE Answer(q)
    BY <1>4, TypeFrame DEF Answer, Goto, Typed, TypeOK, OnProject, Labels, trees, disk, counts,
       frame, Ops
  <1>5. CASE Done(q)
    BY <1>5, TypeEnd DEF Done, Fails, Typed, TypeOK, counts
  <1> QED
    BY <1>1, <1>2, <1>3, <1>4, <1>5 DEF Answers

LEMMA TypeStep ==
    ASSUME Typed, [Next]_vars
    PROVE  Typed'
  <1>1. ASSUME NEW q \in Procs, Die(q) PROVE Typed'
    <2>1. Leave(q) /\ UNCHANGED <<trees, disk, overlap, acked, runs>>
      BY <1>1 DEF Die
    <2>2. overlap' \in BOOLEAN /\ runs' \in 0..MaxRuns /\ cuts' \in 0..MaxCuts
      BY <1>1, RegistryAssumption DEF Die, Typed, TypeOK
    <2> QED
      BY <2>1, <2>2, TypeEnd
  <1>2. ASSUME NEW n \in Projects, Commit(n) PROVE Typed'
    BY <1>2, RegistryAssumption
    DEF Commit, Typed, TypeOK, TodoInv, Tree, disk, counts, frame
  <1>3. CASE UNCHANGED vars
    BY <1>3 DEF vars, Typed, TypeOK, TodoInv, trees, disk, counts, frame
  <1> QED
    BY <1>1, <1>2, <1>3, TypeEnters, TypeWorks, TypeSaves, TypeAnswers DEF Next

-----------------------------------------------------------------------------
(* What is recorded is covered. The shards are never ahead of the tree, nor,*)
(* until two builds meet, of a tree they are being built of; and the head  *)
(* that was read before a build is not ahead of what is built.             *)

Apart ==
    \A p, q \in Procs : p # q /\ pc[p] = "build" /\ pc[q] = "build" /\ This(p) = This(q) => This(q) \in raced

HeadOf(q, n) ==
    /\ pc[q] = "resolve" /\ n \in Git => zhead[q] \in 0..live[n]
    /\ pc[q] = "build" => /\ built[q] <= live[n]
                          /\ n \in Git => zhead[q] \in 0..built[q]
                          /\ n \notin raced => shards[n] <= built[q]
    /\ pc[q] = "touch" /\ n \in Git => zhead[q] \in 0..live[n]
    /\ pc[q] = "touch" /\ n \in Git \ raced => zhead[q] \in 0..shards[n]

HeadInv ==
    /\ Apart
    /\ \A n \in Projects : shards[n] <= live[n]
    /\ \A q \in Procs : HeadOf(q, This(q))

CoverInv == Typed /\ HeadInv /\ RecordedIsCovered

\* What a step does to the trees and to their shards.
LEMMA Published ==
    ASSUME Typed, [Next]_vars
    PROVE  /\ raced \subseteq raced'
           /\ \A n \in Projects :
                 /\ live'[n] \in {live[n], live[n] + 1}
                 /\ \/ shards'[n] = shards[n]
                    \/ \E q \in Procs : Build(q) /\ This(q) = n /\ shards'[n] = built[q]
  <1> DEFINE Same == live' = live /\ shards' = shards /\ raced \subseteq raced'
  <1>1. ASSUME NEW q \in Procs, Build(q)
        PROVE  /\ live' = live /\ raced' = raced
               /\ \A n \in Projects : shards'[n] = shards[n] \/ (This(q) = n /\ shards'[n] = built[q])
    BY <1>1 DEF Build, Typed, TypeOK
  <1>2. ASSUME NEW m \in Projects, Commit(m)
        PROVE  shards' = shards /\ raced' = raced /\ \A n \in Projects : live'[n] \in {live[n], live[n] + 1}
    BY <1>2 DEF Commit, Typed, TypeOK
  <1>3. CASE UNCHANGED vars
    BY <1>3 DEF vars, trees
  <1>4. ASSUME NEW q \in Procs, Enters(q) \/ Saves(q) \/ Answers(q) \/ Die(q)
        PROVE Same
    <2>1. Enters(q) => UNCHANGED trees
      BY DEF Enters, OpenSession, Register, Index, Sync, Search, Fleet, Begin
    <2>2. Saves(q) => UNCHANGED trees
      BY DEF Saves, OpenTmp, Write, Rename, SaveFails
    <2>3. Answers(q) => UNCHANGED trees
      BY DEF Answers, Visit, VisitFails, StopShort, Answer, Done, Fails
    <2>4. UNCHANGED trees
      BY <1>4, <2>1, <2>2, <2>3 DEF Die
    <2> QED
      BY <2>4 DEF trees
  <1>5. ASSUME NEW q \in Procs, Works(q), ~Build(q) PROVE Same
    BY <1>5 DEF Works, IndexGraph, GraphFails, Fails, ReadHead, Resolve, RefreshFails, Touch, trees
  <1> QED
    BY <1>1, <1>2, <1>3, <1>4, <1>5 DEF Next

\* Trees move forward only, and so do shards until two builds meet.
LEMMA Forward ==
    ASSUME CoverInv, [Next]_vars
    PROVE  /\ raced \subseteq raced'
           /\ \A n \in Projects : /\ shards'[n] <= live'[n] /\ live[n] <= live'[n] /\ shards[n] <= live[n]
                                  /\ shards[n] \in Nat /\ shards'[n] \in Nat /\ live[n] \in Nat /\ live'[n] \in Nat
                                  /\ n \notin raced => shards[n] <= shards'[n]
  <1>0. /\ \A n \in Projects : shards[n] \in Nat /\ live[n] \in Nat /\ shards[n] <= live[n]
        /\ \A q \in Procs : built[q] \in Nat
    BY RegistryAssumption DEF CoverInv, HeadInv, Typed, TypeOK, Tree
  <1>1. raced \subseteq raced'
    BY Published DEF CoverInv
  <1>2. ASSUME NEW n \in Projects
        PROVE  /\ shards'[n] <= live'[n] /\ live[n] <= live'[n] /\ shards'[n] \in Nat /\ live'[n] \in Nat
               /\ n \notin raced => shards[n] <= shards'[n]
    <2>1. live[n] <= live'[n] /\ live'[n] \in Nat
      BY <1>0, Published DEF CoverInv
    <2>2. CASE shards'[n] = shards[n]
      BY <1>0, <2>1, <2>2
    <2>3. ASSUME NEW q \in Procs, Build(q), This(q) = n, shards'[n] = built[q]
          PROVE  shards'[n] <= live[n] /\ (n \notin raced => shards[n] <= shards'[n])
      <3>1. HeadOf(q, n) /\ pc[q] = "build"
        BY <2>3 DEF Build, CoverInv, HeadInv
      <3> QED
        BY <2>3, <3>1 DEF HeadOf
    <2> QED
      BY <1>0, <2>1, <2>2, <2>3, Published DEF CoverInv
  <1> QED
    BY <1>0, <1>1, <1>2

\* What was covered stays covered.
LEMMA StaysCovered ==
    ASSUME CoverInv, [Next]_vars
    PROVE  \A r \in Registries : Covered(r) => \A n \in (Git \cap DOMAIN r) \ raced' : r[n].zoekt \in 0..shards'[n]
  <1> SUFFICES ASSUME NEW r \in Registries, Covered(r), NEW n \in (Git \cap DOMAIN r) \ raced'
               PROVE  r[n].zoekt \in 0..shards'[n]
    OBVIOUS
  <1>1. n \in Projects /\ n \notin raced
    BY Forward, RegistryAssumption
  <1>2. r[n].zoekt \in 0..shards[n]
    BY <1>1 DEF Covered
  <1> QED
    BY <1>1, <1>2, Forward

\* The registry a process has after a step is the one it had, a project of it
\* that has been brought up to date aside, that of the file, or the empty one.
LEMMA RegCovered ==
    ASSUME CoverInv, [Next]_vars, NEW p \in Procs
    PROVE  Covered(reg[p])'
  <1> DEFINE Good(r) == \A n \in (Git \cap DOMAIN r) \ raced' : r[n].zoekt \in 0..shards'[n]
  <1>0. Typed' /\ reg[p] \in Registries /\ reg'[p] \in Registries /\ Content(file) \in Registries
    BY TypeStep, ContentIsRegistry DEF CoverInv, Typed, TypeOK
  <1>1. Good(reg[p]) /\ Good(Content(file)) /\ Good(Nothing)
    BY <1>0, StaysCovered DEF CoverInv, RecordedIsCovered, Nothing
  <1>2. ASSUME NEW q \in Procs, Enters(q) PROVE Good(reg'[p])
    <2>1. CASE Load(q)
      BY <1>0, <1>1, <2>1 DEF Load, CoverInv, Typed, TypeOK
    <2>2. ASSUME NEW n \in Projects, Register(q, n) PROVE Good(reg'[p])
      <3>1. \A m \in Git : shards'[m] \in Nat
        BY Forward, RegistryAssumption
      <3> QED
        BY <1>0, <1>1, <2>2, <3>1 DEF Register, New, CoverInv, Typed, TypeOK
    <2> QED
      BY <1>1, <1>2, <2>1, <2>2 DEF Enters, OpenSession, Index, Sync, Search, Fleet, Command
  <1>3. ASSUME NEW q \in Procs, End(q) \/ Leave(q) PROVE Good(reg'[p])
    BY <1>1, <1>3 DEF End, Leave, CoverInv, Typed, TypeOK
  <1>4. ASSUME NEW q \in Procs, Touch(q) PROVE Good(reg'[p])
    <2>1. todo[q] # {} /\ This(q) \in Projects
      BY <1>4, ThisIsTodo DEF Touch, CoverInv, Typed, TodoInv, OnProject
    <2>2. This(q) \in Git \ raced' => zhead[q] \in 0..shards'[This(q)]
      BY <1>4, <2>1, Forward DEF Touch, CoverInv, HeadInv, HeadOf
    <2>3. reg' = reg \/ reg' = [reg EXCEPT ![q][This(q)] = [head |-> live[This(q)], zoekt |-> zhead[q]]]
      BY <1>4 DEF Touch
    <2>4. CASE p # q \/ reg' = reg
      <3>1. reg'[p] = reg[p]
        BY <2>3, <2>4 DEF CoverInv, Typed, TypeOK
      <3> QED
        BY <1>1, <3>1
    <2>5. CASE p = q /\ reg' # reg
      <3>1. reg'[p] = [reg[p] EXCEPT ![This(p)] = [head |-> live[This(p)], zoekt |-> zhead[p]]]
        BY <2>3, <2>5 DEF CoverInv, Typed, TypeOK
      <3>2. DOMAIN reg'[p] = DOMAIN reg[p]
        BY <3>1
      <3>3. \A n \in DOMAIN reg[p] : reg'[p][n].zoekt = IF n = This(p) THEN zhead[p] ELSE reg[p][n].zoekt
        BY <1>0, <3>1 DEF Registries
      <3> QED
        BY <1>1, <2>2, <2>5, <3>2, <3>3
    <2> QED
      BY <2>4, <2>5
  <1> HIDE DEF Good
  <1>5. ASSUME reg' = reg PROVE Good(reg'[p])
    BY <1>1, <1>5
  <1>6. ASSUME NEW q \in Procs, Works(q) PROVE Good(reg'[p])
    <2>1. reg' = reg \/ End(q) \/ Touch(q)
      BY <1>6 DEF Works, IndexGraph, GraphFails, Fails, ReadHead, Resolve, Build, RefreshFails
    <2> QED
      BY <1>3, <1>4, <1>5, <2>1
  <1>7. ASSUME NEW q \in Procs, Saves(q) PROVE Good(reg'[p])
    <2>1. reg' = reg \/ End(q)
      BY <1>7 DEF Saves, OpenTmp, Write, Rename, SaveFails
    <2> QED
      BY <1>3, <1>5, <2>1
  <1>8. ASSUME NEW q \in Procs, Answers(q) PROVE Good(reg'[p])
    <2>1. reg' = reg \/ End(q)
      BY <1>8 DEF Answers, Visit, VisitFails, StopShort, Answer, Done, Fails
    <2> QED
      BY <1>3, <1>5, <2>1
  <1>9. Good(reg'[p])
    <2>1. ASSUME NEW q \in Procs, Die(q) PROVE Good(reg'[p])
      BY <1>3, <2>1 DEF Die
    <2>2. ASSUME NEW n \in Projects, Commit(n) PROVE Good(reg'[p])
      BY <1>5, <2>2 DEF Commit
    <2>3. CASE UNCHANGED vars
      BY <1>5, <2>3 DEF vars
    <2> QED
      BY <1>2, <1>6, <1>7, <1>8, <2>1, <2>2, <2>3 DEF Next
  <1> QED
    BY <1>9 DEF Covered, Good

\* Only its own reading, resolving and building bring a process to where the head counts.
LEMMA HeadKept ==
    ASSUME CoverInv, [Next]_vars, NEW p \in Procs, pc'[p] \in {"resolve", "build", "touch"}
    PROVE  \/ pc'[p] = pc[p] /\ todo'[p] = todo[p] /\ zhead'[p] = zhead[p] /\ built'[p] = built[p]
           \/ ReadHead(p) \/ Resolve(p) \/ Build(p)
  <1> DEFINE Kept == pc'[p] = pc[p] /\ todo'[p] = todo[p] /\ zhead'[p] = zhead[p] /\ built'[p] = built[p]
             Other(q) == \A r \in Procs \ {q} : zhead'[r] = zhead[r] /\ built'[r] = built[r]
  <1>0. pc \in [Procs -> Labels] /\ todo \in [Procs -> SUBSET Projects] /\ zhead \in [Procs -> Tree \cup {Files}]
        /\ built \in [Procs -> Tree]
    BY DEF CoverInv, Typed, TypeOK
  <1>1. ASSUME NEW q \in Procs, NEW l \in Labels \ {"resolve", "build", "touch"}, Goto(q, l),
               \A r \in Procs \ {q} : todo'[r] = todo[r], Other(q)
        PROVE  Kept
    BY <1>0, <1>1 DEF Goto
  <1>2. ASSUME NEW q \in Procs, End(q) \/ Leave(q) PROVE Kept
    <2>1. PICK l \in {"idle", "ready"} : Goto(q, l) /\ Reset(q)
      BY <1>2 DEF End, Leave
    <2> QED
      BY <1>0, <1>1, <2>1 DEF Reset, Labels
  <1>3. ASSUME NEW q \in Procs, NEW D, Advance(q, D), Other(q) PROVE Kept
    <2>1. PICK l \in {"graph", "head", "told", "walk"} : Goto(q, l)
      BY <1>3 DEF Advance
    <2>2. \A r \in Procs \ {q} : todo'[r] = todo[r]
      BY <1>0, <1>3 DEF Advance, PassOver
    <2> QED
      BY <1>1, <1>3, <2>1, <2>2 DEF Labels
  <1>4. ASSUME NEW q \in Procs, Enters(q) PROVE Kept
    <2>1. ASSUME NEW o, NEW S, NEW l \in {"open", "graph", "head", "walk", "told"}, Begin(q, o, S, l)
          PROVE Kept
      BY <1>0, <1>1, <2>1 DEF Begin, Labels
    <2>2. CASE OpenSession(q)
      BY <1>1, <2>2 DEF OpenSession, frame, Labels
    <2> QED
      BY <1>4, <2>1, <2>2 DEF Enters, Register, Index, Sync, Search, Fleet
  <1>5. ASSUME NEW q \in Procs, Works(q) PROVE Kept \/ (p = q /\ (ReadHead(p) \/ Resolve(p) \/ Build(p)))
    <2>1. CASE IndexGraph(q)
      BY <1>1, <2>1 DEF IndexGraph, frame, Labels
    <2>2. CASE ReadHead(q) \/ Resolve(q) \/ Build(q)
      <3>1. CASE p = q
        BY <2>2, <3>1
      <3>2. CASE p # q
        BY <1>0, <2>2, <3>2 DEF ReadHead, Resolve, Build, Goto, frame
      <3> QED
        BY <3>1, <3>2
    <2>3. CASE RefreshFails(q)
      <3>1. CASE Fails(q)
        BY <1>2, <3>1 DEF Fails
      <3>2. CASE ~Fails(q)
        <4>1. Other(q)
          BY <1>0, <2>3, <3>2 DEF RefreshFails
        <4> QED
          BY <1>1, <1>3, <2>3, <3>2, <4>1 DEF RefreshFails, Labels
      <3> QED
        BY <3>1, <3>2
    <2>4. CASE Touch(q)
      <3>1. Other(q)
        BY <1>0, <2>4 DEF Touch
      <3> QED
        BY <1>1, <1>3, <2>4, <3>1 DEF Touch, Refreshed, Labels
    <2> QED
      BY <1>2, <1>5, <2>1, <2>2, <2>3, <2>4 DEF Works, GraphFails, Fails
  <1>6. ASSUME NEW q \in Procs, Saves(q) PROVE Kept
    <2>1. CASE OpenTmp(q) \/ Write(q)
      BY <1>1, <2>1 DEF OpenTmp, Write, frame, Labels
    <2>2. CASE Rename(q)
      BY <1>3, <2>2 DEF Rename
    <2>3. CASE SaveFails(q)
      BY <1>2, <1>3, <2>3 DEF SaveFails
    <2> QED
      BY <1>6, <2>1, <2>2, <2>3 DEF Saves
  <1>7. ASSUME NEW q \in Procs, Answers(q) PROVE Kept
    <2>1. CASE Visit(q) \/ VisitFails(q) \/ StopShort(q)
      <3>1. pc' = pc /\ zhead' = zhead /\ built' = built /\ pc[q] = "walk" /\ \A r \in Procs \ {q} : todo'[r] = todo[r]
        BY <1>0, <2>1 DEF Visit, VisitFails, StopShort, PassOver
      <3> QED
        BY <3>1
    <2>2. CASE Answer(q)
      BY <1>1, <2>2 DEF Answer, frame, Labels
    <2> QED
      BY <1>2, <1>7, <2>1, <2>2 DEF Answers, Done, Fails
  <1>8. ASSUME NEW n \in Projects, Commit(n) PROVE Kept
    BY <1>8 DEF Commit, frame
  <1>9. CASE UNCHANGED vars
    BY <1>9 DEF vars, frame
  <1> QED
    BY <1>2, <1>4, <1>5, <1>6, <1>7, <1>8, <1>9 DEF Next, Die

LEMMA CoverStep ==
    ASSUME CoverInv, [Next]_vars
    PROVE  CoverInv'
  <1>1. Typed'
    BY TypeStep DEF CoverInv
  <1>2. \A f \in {file', tmp'} :
           f \in {file, tmp, None, Empty, Torn} \/ \E q \in Procs : f = reg[q]
    <2>1. ASSUME NEW q \in Procs, Saves(q)
          PROVE  \A f \in {file', tmp'} : f \in {file, tmp, None, Empty, Torn} \/ f = reg[q]
      BY <2>1 DEF Saves, OpenTmp, Write, Onto, Rename, SaveFails, disk
    <2>2. ASSUME NEW q \in Procs, Enters(q) \/ Works(q) \/ Answers(q) \/ Die(q) PROVE UNCHANGED disk
      <3>1. Enters(q) => UNCHANGED disk
        BY DEF Enters, OpenSession, Register, Index, Sync, Search, Fleet, Begin
      <3>2. Works(q) => UNCHANGED disk
        BY DEF Works, IndexGraph, GraphFails, Fails, ReadHead, Resolve, Build, RefreshFails, Touch
      <3>3. Answers(q) => UNCHANGED disk
        BY DEF Answers, Visit, VisitFails, StopShort, Answer, Done, Fails
      <3> QED
        BY <2>2, <3>1, <3>2, <3>3 DEF Die
    <2>3. ASSUME NEW n \in Projects, Commit(n) PROVE UNCHANGED disk
      BY <2>3 DEF Commit
    <2>4. CASE UNCHANGED vars
      BY <2>4 DEF vars, disk
    <2> QED
      BY <2>1, <2>2, <2>3, <2>4 DEF Next, disk
  <1>3. RecordedIsCovered'
    <2>1. \A n \in Git : shards'[n] \in Nat
      BY Forward, RegistryAssumption
    <2>2. ASSUME NEW f \in {file', tmp'}
          PROVE  \A n \in (Git \cap DOMAIN Content(f)) \ raced' : Content(f)[n].zoekt \in 0..shards'[n]
      <3>1. Content(file) \in Registries /\ Content(tmp) \in Registries
            /\ \A q \in Procs : reg[q] \in Registries
        BY ContentIsRegistry DEF CoverInv, Typed, TypeOK
      <3>2. CASE f \in {file, tmp}
        BY <3>1, <3>2, StaysCovered DEF CoverInv, RecordedIsCovered
      <3>3. CASE f \in {None, Empty, Torn}
        BY <3>3 DEF Content, Nothing
      <3>4. ASSUME NEW q \in Procs, f = reg[q]
            PROVE  \A n \in (Git \cap DOMAIN Content(f)) \ raced' : Content(f)[n].zoekt \in 0..shards'[n]
        <4>1. Content(f) = reg[q]
          BY <3>1, <3>4, RegistryAssumption DEF Content
        <4> QED
          BY <3>1, <4>1, StaysCovered DEF CoverInv, RecordedIsCovered
      <3> QED
        BY <1>2, <3>2, <3>3, <3>4
    <2>3. Covered(Content(file))' /\ Covered(Content(tmp))'
      BY <2>2 DEF Covered, Content, Nothing
    <2> QED
      BY <2>3, RegCovered DEF RecordedIsCovered
  <1>4. HeadInv'
    <2>0. \A p \in Procs : pc[p] \in OnProject => This(p) \in Projects
      BY ThisIsTodo DEF CoverInv, Typed, TodoInv
    <2>1. Apart'
      <3> SUFFICES ASSUME NEW p \in Procs, NEW q \in Procs, p # q, pc'[p] = "build", pc'[q] = "build",
                          This(p)' = This(q)'
                   PROVE  This(q)' \in raced'
        BY DEF Apart
      <3>1. ASSUME NEW r \in Procs, pc'[r] = "build"
            PROVE  Resolve(r) \/ (pc[r] = "build" /\ todo'[r] = todo[r])
        BY <3>1, HeadKept DEF ReadHead, Build, Goto, CoverInv, Typed, TypeOK
      <3>2. ASSUME NEW r \in Procs, todo'[r] = todo[r] PROVE This(r)' = This(r)
        BY <3>2 DEF This
      <3>3. ASSUME NEW r \in Procs, NEW o \in Procs, Resolve(r), r # o, pc'[o] = "build", This(r)' = This(o)'
            PROVE  This(r)' \in raced'
        <4>1. todo' = todo /\ pc'[o] = pc[o]
          BY <3>3 DEF Resolve, Goto, CoverInv, Typed, TypeOK
        <4>2. This(r)' = This(r) /\ This(o)' = This(o)
          BY <3>2, <4>1
        <4>3. Building(o, This(r))
          BY <3>3, <4>1, <4>2 DEF Building
        <4> QED
          BY <3>3, <4>2, <4>3 DEF Resolve
      <3>4. CASE Resolve(p)
        BY <3>3, <3>4
      <3>5. CASE Resolve(q)
        BY <3>3, <3>5
      <3>6. CASE ~Resolve(p) /\ ~Resolve(q)
        BY <3>1, <3>2, <3>6, Forward DEF CoverInv, HeadInv, Apart
      <3> QED
        BY <3>4, <3>5, <3>6
    <2>2. ASSUME NEW p \in Procs, pc'[p] \in {"resolve", "build", "touch"}
          PROVE  HeadOf(p, This(p))'
      <3>0. HeadOf(p, This(p))
        BY DEF CoverInv, HeadInv
      <3>1. CASE pc'[p] = pc[p] /\ todo'[p] = todo[p] /\ zhead'[p] = zhead[p] /\ built'[p] = built[p]
        <4>1. This(p)' = This(p) /\ This(p) \in Projects
          BY <2>0, <2>2, <3>1 DEF This, OnProject
        <4>2. built[p] \in Nat /\ live[This(p)] \in Nat /\ live'[This(p)] \in Nat
              /\ live[This(p)] <= live'[This(p)]
          BY <4>1, Forward, RegistryAssumption DEF CoverInv, Typed, TypeOK, Tree
        <4>3. CASE pc'[p] = "resolve"
          BY <3>0, <3>1, <4>1, <4>2, <4>3 DEF HeadOf
        <4>4. CASE pc'[p] = "build"
          <5>1. ASSUME This(p) \notin raced' PROVE shards'[This(p)] <= built[p]
            <6>1. This(p) \notin raced
              BY <5>1, Forward
            <6>2. ASSUME NEW r \in Procs, Build(r), This(r) = This(p) PROVE FALSE
              <7>1. r = p
                BY <3>1, <4>4, <6>1, <6>2 DEF CoverInv, HeadInv, Apart, Build
              <7>2. pc'[p] = "touch"
                BY <6>2, <7>1 DEF Build, Goto, CoverInv, Typed, TypeOK
              <7> QED
                BY <4>4, <7>2
            <6>3. shards'[This(p)] = shards[This(p)]
              BY <4>1, <6>2, Published DEF CoverInv
            <6> QED
              BY <3>0, <3>1, <4>4, <6>1, <6>3 DEF HeadOf
          <5> QED
            BY <3>0, <3>1, <4>1, <4>2, <4>4, <5>1 DEF HeadOf
        <4>5. CASE pc'[p] = "touch"
          <5>1. This(p) \notin raced' => /\ This(p) \notin raced /\ shards[This(p)] <= shards'[This(p)]
                                        /\ shards[This(p)] \in Nat /\ shards'[This(p)] \in Nat
            BY <4>1, Forward
          <5> QED
            BY <3>0, <3>1, <4>1, <4>2, <4>5, <5>1 DEF HeadOf
        <4> QED
          BY <2>2, <4>3, <4>4, <4>5
      <3>2. CASE ReadHead(p)
        <4>1. todo' = todo /\ live' = live /\ pc' = [pc EXCEPT ![p] = "resolve"] /\ pc[p] = "head"
              /\ zhead' = [zhead EXCEPT ![p] = IF This(p) \in Git THEN live[This(p)] ELSE Files]
          BY <3>2 DEF ReadHead, Goto, trees
        <4>2. This(p)' = This(p) /\ This(p) \in Projects
          BY <2>0, <4>1 DEF This, OnProject
        <4>3. live[This(p)] \in Nat
          BY <4>2, Forward
        <4> QED
          BY <4>1, <4>2, <4>3 DEF CoverInv, Typed, TypeOK, HeadOf
      <3>3. CASE Resolve(p)
        <4>1. todo' = todo /\ live' = live /\ shards' = shards /\ zhead' = zhead /\ pc[p] = "resolve"
          BY <3>3 DEF Resolve
        <4>2. This(p)' = This(p) /\ This(p) \in Projects
          BY <2>0, <4>1 DEF This, OnProject
        <4>3. live[This(p)] \in Nat /\ shards[This(p)] <= live[This(p)]
          BY <4>2, Forward
        <4>4. This(p) \in Git => zhead[p] \in 0..live[This(p)]
          BY <3>0, <4>1 DEF HeadOf
        <4>5. \/ shards[This(p)] = live[This(p)] /\ pc'[p] = "touch"
              \/ built'[p] = live[This(p)] /\ pc'[p] = "build"
          BY <3>3 DEF Resolve, Goto, CoverInv, Typed, TypeOK
        <4> QED
          BY <4>1, <4>2, <4>3, <4>4, <4>5 DEF HeadOf
      <3>4. CASE Build(p)
        <4>1. /\ todo' = todo /\ pc' = [pc EXCEPT ![p] = "touch"] /\ zhead' = zhead /\ pc[p] = "build" /\ live' = live
              /\ shards' = [shards EXCEPT ![This(p)] = built[p]]
          BY <3>4 DEF Build, Goto
        <4>2. This(p)' = This(p) /\ This(p) \in Projects
          BY <2>0, <4>1 DEF This, OnProject
        <4>3. This(p) \in Git => zhead[p] \in 0..built[p]
          BY <3>0, <4>1 DEF HeadOf
        <4>4. built[p] <= live[This(p)] /\ built[p] \in Nat /\ live[This(p)] \in Nat
          BY <3>0, <4>1, <4>2, Forward, RegistryAssumption DEF HeadOf, CoverInv, Typed, TypeOK, Tree
        <4>5. This(p) \in Git => zhead[p] \in 0..live[This(p)]
          BY <4>3, <4>4
        <4> QED
          BY <4>1, <4>2, <4>3, <4>5 DEF CoverInv, Typed, TypeOK, HeadOf
      <3> QED
        BY <2>2, <3>1, <3>2, <3>3, <3>4, HeadKept
    <2> QED
      <3>1. \A p \in Procs : HeadOf(p, This(p))'
        BY <2>2 DEF HeadOf
      <3> QED
        BY <2>1, <3>1, Forward DEF HeadInv
  <1> QED
    BY <1>1, <1>3, <1>4 DEF CoverInv

LEMMA CoverInit == Init => CoverInv
  <1>1. Init => HeadInv
    BY DEF Init, HeadInv, HeadOf, Apart, Zero
  <1>2. Init => RecordedIsCovered
    BY DEF Init, RecordedIsCovered, Covered, Content, Nothing
  <1> QED
    BY <1>1, <1>2, TypeInit DEF CoverInv, Typed

LEMMA Invariant == Spec => []CoverInv
  BY CoverInit, CoverStep, PTL DEF Spec

\* The types of the registry, the processes and the two indexes.
THEOREM TypeCorrect == Spec => []TypeOK
  BY Invariant, PTL DEF CoverInv, Typed

\* No registry claims more of a git repository than the text index covers.
THEOREM NothingOverclaimed == Spec => []RecordedIsCovered
  BY Invariant, PTL DEF CoverInv

\* What `tk sync` finds clean is searchable at the commit checked out.
THEOREM SyncIsHonest == Spec => CleanIsSearchable
  <1>1. CoverInv /\ [Next]_vars =>
          [\A q \in Procs : op'[q] = "clean" /\ op[q] # "clean" =>
               \A n \in (asked'[q] \cap Git) \ raced : shards[n] = live[n]]_vars
    <2> SUFFICES ASSUME CoverInv, Next, NEW q \in Procs, op'[q] = "clean", op[q] # "clean",
                        NEW n \in (asked'[q] \cap Git) \ raced
                 PROVE  shards[n] = live[n]
      BY DEF vars, frame
    <2>0. op \in [Procs -> {None, "register", "index", "sync", "clean", "unsaved", "search", "fleet"}]
          /\ asked \in [Procs -> SUBSET Projects] /\ reg \in [Procs -> Registries]
      BY DEF CoverInv, Typed, TypeOK
    <2>1. Sync(q)
      <3>1. ASSUME NEW p \in Procs, End(p) \/ Leave(p) PROVE op'[q] \in {op[q], None, "unsaved"}
        BY <2>0, <3>1 DEF End, Leave, Reset
      <3>2. ASSUME NEW p \in Procs, Works(p) \/ Saves(p) \/ Answers(p) \/ Die(p)
            PROVE op'[q] \in {op[q], None, "unsaved"}
        <4>1. Works(p) => op' = op \/ End(p)
          BY DEF Works, IndexGraph, GraphFails, Fails, ReadHead, Resolve, Build, RefreshFails, Touch, frame
        <4>2. Saves(p) => op' = op \/ End(p) \/ op' = [op EXCEPT ![p] = "unsaved"]
          BY DEF Saves, OpenTmp, Write, Rename, SaveFails, frame
        <4>3. Answers(p) => op' = op \/ End(p)
          BY DEF Answers, Visit, VisitFails, StopShort, Answer, Done, Fails, frame
        <4> QED
          BY <2>0, <3>1, <3>2, <4>1, <4>2, <4>3 DEF Die
      <3>3. ASSUME NEW p \in Procs, NEW o, NEW S, NEW l, Begin(p, o, S, l), o # "clean"
            PROVE op'[q] # "clean"
        BY <2>0, <3>3 DEF Begin
      <3>4. ASSUME NEW p \in Procs, Enters(p), ~Sync(p) PROVE op'[q] # "clean"
        BY <2>0, <3>3, <3>4 DEF Enters, OpenSession, Register, Index, Search, Fleet, frame
      <3>5. ASSUME NEW p \in Procs, Sync(p) PROVE p = q
        BY <2>0, <3>5 DEF Sync, Begin
      <3>6. ASSUME NEW m \in Projects, Commit(m) PROVE op' = op
        BY <3>6 DEF Commit, frame
      <3> QED
        BY <3>2, <3>4, <3>5, <3>6, RegistryAssumption DEF Next
    <2>2. syncFresh(n, Content(file)[n]) /\ n \in DOMAIN Content(file)
      <3>1. reg'[q] = Content(file)
        BY <2>0, <2>1 DEF Sync, Command, Load
      <3>2. PICK S \in SUBSET DOMAIN reg'[q] :
              LET clean == {m \in S : syncFresh(m, reg'[q][m])} IN
              \/ clean # S /\ Begin(q, "sync", S \ clean, "graph")
              \/ clean = S /\ Begin(q, "clean", S, "told")
        BY <2>1 DEF Sync
      <3>3. {m \in S : syncFresh(m, reg'[q][m])} = S /\ asked'[q] = S
        BY <2>0, <3>2 DEF Begin
      <3> QED
        BY <3>1, <3>3
    <2>3. Content(file)[n].zoekt = live[n]
      BY <2>2 DEF syncFresh
    <2>4. live[n] <= shards[n] /\ shards[n] <= live[n] /\ live[n] \in Nat /\ shards[n] \in Nat
      BY <2>2, <2>3, Forward, RegistryAssumption DEF CoverInv, RecordedIsCovered, Covered, HeadInv
    <2> QED
      BY <2>4
  <1> QED
    BY <1>1, Invariant, PTL DEF Spec, CleanIsSearchable

-----------------------------------------------------------------------------
(* What a search answers from. A project that a command has dealt with is  *)
(* covered as it was when the command began, or its refresh is noted to    *)
(* have failed, or two builds of it have met; a search begins when all it  *)
(* was asked for are.                                                      *)
Fine(q, n) == n \in noted[q] \cup raced \/ shards[n] >= base[q][n]

Current(q) ==
    /\ \A n \in Projects : base[q][n] <= live[n]
    /\ op[q] # "register" /\ pc[q] \in OnProject =>
          /\ \A n \in asked[q] \ todo[q] : Fine(q, n)
          /\ pc[q] = "build" => built[q] >= base[q][This(q)]
          /\ pc[q] \in {"touch", "open", "write", "rename"} => Fine(q, This(q))
    /\ pc[q] = "walk" => \A n \in asked[q] : Fine(q, n)

CurrentInv == \A q \in Procs : Current(q)

Acts(q) == Enters(q) \/ Works(q) \/ Saves(q) \/ Answers(q) \/ Die(q)

\* A process does not touch another's frame.
LEMMA OthersKeep ==
    ASSUME Typed, NEW q \in Procs, Acts(q), NEW p \in Procs \ {q}
    PROVE  /\ pc'[p] = pc[p] /\ op'[p] = op[p] /\ asked'[p] = asked[p] /\ todo'[p] = todo[p]
           /\ noted'[p] = noted[p] /\ base'[p] = base[p] /\ walk'[p] = walk[p]
           /\ limit'[p] = limit[p] /\ built'[p] = built[p]
  <1> USE DEF Typed, TypeOK, Goto
  <1> DEFINE Kept == /\ pc'[p] = pc[p] /\ op'[p] = op[p] /\ asked'[p] = asked[p] /\ todo'[p] = todo[p]
                     /\ noted'[p] = noted[p] /\ base'[p] = base[p] /\ walk'[p] = walk[p]
                     /\ limit'[p] = limit[p] /\ built'[p] = built[p]
  <1>1. ASSUME End(q) \/ Leave(q) PROVE Kept
    BY <1>1 DEF End, Leave, Reset
  <1>2. ASSUME NEW D, Advance(q, D) PROVE pc'[p] = pc[p] /\ todo'[p] = todo[p]
    BY <1>2 DEF Advance, PassOver, Members
  <1>3. ASSUME NEW o, NEW S, NEW l, Begin(q, o, S, l), noted'[p] = noted[p], limit'[p] = limit[p]
        PROVE  Kept
    BY <1>3 DEF Begin
  <1>4. ASSUME Enters(q) PROVE Kept
    <2>1. CASE OpenSession(q)
      BY <2>1 DEF OpenSession, frame
    <2>2. (noted'[p] = noted[p] /\ limit'[p] = limit[p]) \/ OpenSession(q)
      BY <1>4 DEF Enters, Register, Index, Sync, Search, Fleet
    <2> QED
      BY <1>3, <1>4, <2>1, <2>2 DEF Enters, Register, Index, Sync, Search, Fleet
  <1>5. ASSUME Works(q) PROVE Kept
    <2>1. CASE IndexGraph(q) \/ ReadHead(q) \/ Resolve(q) \/ Build(q)
      BY <2>1 DEF IndexGraph, ReadHead, Resolve, Build, frame
    <2>2. CASE RefreshFails(q)
      BY <1>1, <1>2, <2>2 DEF RefreshFails, Fails
    <2>3. CASE Touch(q)
      BY <1>2, <2>3 DEF Touch, Refreshed
    <2> QED
      BY <1>1, <1>5, <2>1, <2>2, <2>3 DEF Works, GraphFails, Fails
  <1>6. ASSUME Saves(q) PROVE Kept
    <2>1. CASE OpenTmp(q) \/ Write(q)
      BY <2>1 DEF OpenTmp, Write, frame
    <2>2. CASE Rename(q)
      BY <1>2, <2>2 DEF Rename
    <2>3. CASE SaveFails(q)
      BY <1>1, <1>2, <2>3 DEF SaveFails
    <2> QED
      BY <1>6, <2>1, <2>2, <2>3 DEF Saves
  <1>7. ASSUME Answers(q) PROVE Kept
    <2>1. CASE Visit(q) \/ VisitFails(q) \/ StopShort(q)
      BY <2>1 DEF Visit, VisitFails, StopShort, PassOver
    <2>2. CASE Answer(q)
      BY <2>2 DEF Answer, frame
    <2> QED
      BY <1>1, <1>7, <2>1, <2>2 DEF Answers, Done, Fails
  <1> QED
    BY <1>1, <1>4, <1>5, <1>6, <1>7 DEF Acts, Die

\* On to the next project when this one is dealt with.
LEMMA CurrentAdvance ==
    ASSUME Typed, NEW q \in Procs, NEW D, Advance(q, D), asked' = asked,
           op'[q] = op[q] \/ (op[q] = "sync" /\ op'[q] = "unsaved"),
           \A n \in Projects : base'[q][n] <= live'[n],
           op[q] # "register" => \A n \in (asked[q] \ todo[q]) \cup {This(q)} : Fine(q, n)'
    PROVE  Current(q)'
  <1> USE DEF Typed, TypeOK, Goto
  <1>1. CASE todo[q] # {This(q)}
    <2>1. /\ pc'[q] \in {"graph", "head"}
          /\ todo'[q] = todo[q] \ {This(q)}
      BY <1>1 DEF Advance, PassOver
    <2> QED
      BY <2>1 DEF Current
  <1>2. CASE todo[q] = {This(q)}
    <2>1. /\ pc'[q] \in {"told", "walk"}
          /\ pc'[q] = "walk" => op[q] # "register"
      BY <1>2 DEF Advance
    <2> QED
      BY <1>2, <2>1 DEF Current, OnProject
  <1> QED
    BY <1>1, <1>2

LEMMA CurrentStep ==
    ASSUME CoverInv, CurrentInv, [Next]_vars
    PROVE  CurrentInv'
  <1> USE DEF Goto
  <1>0. /\ Typed /\ TypeOK
        /\ raced \subseteq raced'
        /\ \A n \in Projects : /\ shards'[n] <= live'[n] /\ live[n] <= live'[n]
                               /\ shards[n] \in Nat /\ shards'[n] \in Nat /\ live[n] \in Nat /\ live'[n] \in Nat
                               /\ n \notin raced => shards[n] <= shards'[n]
        /\ \A q \in Procs, n \in Projects : base[q][n] \in Nat
        /\ \A q \in Procs : todo[q] \subseteq asked[q] /\ asked[q] \subseteq Projects
    BY Forward, RegistryAssumption DEF CoverInv, Typed, TypeOK, Tree
  <1>1. ASSUME NEW p \in Procs, pc'[p] = pc[p], op'[p] = op[p], asked'[p] = asked[p], todo'[p] = todo[p],
               noted[p] \subseteq noted'[p], base'[p] = base[p], built'[p] = built[p]
        PROVE  Current(p)'
    <2>1. \A n \in Projects : Fine(p, n) => Fine(p, n)'
      BY <1>0, <1>1 DEF Fine
    <2>2. \A n \in Projects : base'[p][n] <= live'[n]
      BY <1>0, <1>1 DEF CurrentInv, Current
    <2>3. This(p)' = This(p)
      BY <1>1 DEF This
    <2>4. pc[p] \in OnProject => This(p) \in Projects
      BY <1>0, ThisIsTodo DEF Typed, TodoInv
    <2>5. \A n \in asked[p] : n \in Projects
      BY <1>0
    <2> QED
      BY <1>1, <2>1, <2>2, <2>3, <2>4, <2>5 DEF CurrentInv, Current, OnProject
  <1>2. ASSUME NEW q \in Procs, Acts(q), Current(q)' PROVE CurrentInv'
    BY <1>0, <1>1, <1>2, OthersKeep DEF CurrentInv
  <1>3. ASSUME NEW q \in Procs, End(q) \/ Leave(q) PROVE Current(q)'
    <2>1. pc'[q] \in {"idle", "ready"} /\ base'[q] = Zero
      BY <1>0, <1>3 DEF End, Leave, Reset, TypeOK
    <2> QED
      BY <1>0, <2>1 DEF Current, OnProject, Zero
  <1>4. ASSUME NEW q \in Procs, Enters(q) PROVE Current(q)'
    <2>1. CASE OpenSession(q)
      <3>1. base' = base /\ pc'[q] = "ready"
        BY <1>0, <2>1 DEF OpenSession, frame, TypeOK
      <3> QED
        BY <1>0, <3>1 DEF CurrentInv, Current, OnProject
    <2>2. ASSUME NEW o, NEW S, NEW l, Begin(q, o, S, l),
                 \/ l \in {"graph", "head", "told"}
                 \/ l = "open" /\ o = "register"
                 \/ l = "walk" /\ S \subseteq noted'[q]
          PROVE  Current(q)'
      <3>1. /\ base'[q] = live /\ live' = live /\ pc'[q] = l /\ op'[q] = o
            /\ asked'[q] = S /\ todo'[q] = S
        BY <1>0, <2>2 DEF Begin, TypeOK, trees
      <3>2. l = "walk" => \A n \in S : Fine(q, n)'
        BY <2>2 DEF Fine
      <3> QED
        BY <1>0, <2>2, <3>1, <3>2 DEF Current, OnProject
    <2>3. ASSUME NEW n \in Projects, Search(q, n) PROVE Current(q)'
      <3>1. \/ Begin(q, "search", {n}, "head")
            \/ Begin(q, "search", {n}, "walk") /\ noted'[q] = {n}
        BY <1>0, <2>3 DEF Search, TypeOK
      <3> QED
        BY <2>2, <3>1
    <2> QED
      BY <1>4, <2>1, <2>2, <2>3 DEF Enters, Register, Index, Sync, Fleet
  <1>5. ASSUME NEW q \in Procs, Works(q) PROVE Current(q)'
    <2>0. ASSUME pc[q] \in OnProject
          PROVE  /\ This(q) \in todo[q] /\ This(q) \in Projects
                 /\ op[q] # "register" => \A n \in asked[q] \ todo[q] : Fine(q, n)
      BY <1>0, <2>0, ThisIsTodo DEF Typed, TodoInv, CurrentInv, Current
    <2>1. CASE IndexGraph(q)
      <3>1. pc[q] = "graph" /\ pc'[q] = "head" /\ UNCHANGED <<op, asked, todo, noted, base, live, shards, raced>>
        BY <1>0, <2>1 DEF IndexGraph, frame, TypeOK
      <3> QED
        BY <2>0, <3>1 DEF CurrentInv, Current, Fine, OnProject
    <2>2. CASE ReadHead(q)
      <3>1. pc[q] = "head" /\ pc'[q] = "resolve" /\ UNCHANGED <<op, asked, todo, noted, base, live, shards, raced>>
        BY <1>0, <2>2 DEF ReadHead, trees, TypeOK
      <3> QED
        BY <2>0, <3>1 DEF CurrentInv, Current, Fine, OnProject
    <2>3. CASE Build(q)
      <3>1. /\ pc[q] = "build" /\ pc'[q] = "touch" /\ UNCHANGED <<op, asked, todo, noted, base, live>>
            /\ shards' = [shards EXCEPT ![This(q)] = built[q]] /\ raced' = raced
        BY <1>0, <2>3 DEF Build, TypeOK
      <3>2. This(q) \in Projects /\ This(q)' = This(q)
        BY <2>0, <3>1 DEF This, OnProject
      <3>3. op[q] # "register" => shards'[This(q)] >= base[q][This(q)]
        BY <1>0, <3>1, <3>2 DEF CurrentInv, Current, TypeOK, OnProject
      <3>4. \A n \in asked[q] : Fine(q, n) => Fine(q, n)'
        BY <1>0, <3>1 DEF Fine
      <3>5. op[q] # "register" => Fine(q, This(q))'
        BY <3>1, <3>2, <3>3 DEF Fine
      <3> QED
        BY <2>0, <3>1, <3>4, <3>5 DEF CurrentInv, Current, OnProject
    <2>6. CASE Resolve(q)
      <3>1. /\ pc[q] = "resolve" /\ UNCHANGED <<op, asked, todo, noted, base, live, shards>>
            /\ \/ shards[This(q)] = live[This(q)] /\ pc'[q] = "touch"
               \/ built'[q] = live[This(q)] /\ pc'[q] = "build"
        BY <1>0, <2>6 DEF Resolve, TypeOK
      <3>2. This(q) \in Projects /\ This(q)' = This(q)
        BY <2>0, <3>1 DEF This, OnProject
      <3>3. base[q][This(q)] <= live[This(q)] /\ live[This(q)] \in Nat /\ base[q][This(q)] \in Nat
        BY <1>0, <3>2 DEF CurrentInv, Current
      <3>4. \A n \in asked[q] : Fine(q, n) => Fine(q, n)'
        BY <1>0, <3>1 DEF Fine
      <3>5. pc'[q] = "touch" => Fine(q, This(q))'
        BY <3>1, <3>2, <3>3 DEF Fine
      <3> QED
        BY <2>0, <3>1, <3>2, <3>3, <3>4, <3>5 DEF CurrentInv, Current, OnProject
    <2>4. CASE RefreshFails(q) /\ ~Fails(q)
      <3>1. /\ noted' = [noted EXCEPT ![q] = @ \cup {This(q)}]
            /\ UNCHANGED <<trees, op, asked, base>> /\ pc[q] \in {"resolve", "build"}
            /\ \/ \E D : Advance(q, D)
               \/ Goto(q, "open") /\ UNCHANGED todo
        BY <2>4 DEF RefreshFails
      <3>2. noted'[q] = noted[q] \cup {This(q)}
        BY <1>0, <3>1 DEF TypeOK
      <3>3. op[q] # "register" => \A n \in (asked[q] \ todo[q]) \cup {This(q)} : Fine(q, n)'
        BY <2>0, <3>1, <3>2 DEF Fine, OnProject, trees
      <3>4. \A n \in Projects : base'[q][n] <= live'[n]
        BY <3>1 DEF CurrentInv, Current, trees
      <3>5. CASE \E D : Advance(q, D)
        BY <1>0, <3>1, <3>3, <3>4, <3>5, CurrentAdvance
      <3>6. CASE Goto(q, "open") /\ UNCHANGED todo
        <4>1. pc'[q] = "open" /\ This(q)' = This(q)
          BY <1>0, <3>6 DEF TypeOK, This
        <4> QED
          BY <3>1, <3>3, <3>4, <3>6, <4>1 DEF Current
      <3> QED
        BY <3>1, <3>5, <3>6
    <2>5. CASE Touch(q)
      <3>1. UNCHANGED <<op, asked, base, noted, live, shards, raced>> /\ pc[q] = "touch" /\ Refreshed(q)
        BY <2>5 DEF Touch, trees
      <3>2. op[q] # "register" => \A n \in (asked[q] \ todo[q]) \cup {This(q)} : Fine(q, n)'
        BY <2>0, <3>1 DEF Fine, OnProject, CurrentInv, Current
      <3>3. \A n \in Projects : base'[q][n] <= live'[n]
        BY <3>1 DEF CurrentInv, Current
      <3>4. CASE Advance(q, noted[q])
        BY <1>0, <3>1, <3>2, <3>3, <3>4, CurrentAdvance
      <3>5. CASE Goto(q, "open") /\ UNCHANGED todo
        <4>1. pc'[q] = "open" /\ This(q)' = This(q)
          BY <1>0, <3>5 DEF TypeOK, This
        <4> QED
          BY <3>1, <3>2, <3>3, <3>5, <4>1 DEF Current
      <3> QED
        BY <3>1, <3>4, <3>5 DEF Refreshed
    <2> QED
      BY <1>3, <1>5, <2>1, <2>2, <2>3, <2>4, <2>5, <2>6 DEF Works, GraphFails, Fails
  <1>6. ASSUME NEW q \in Procs, Saves(q) PROVE Current(q)'
    <2>0. ASSUME pc[q] \in {"open", "write", "rename"}
          PROVE  op[q] # "register" => \A n \in (asked[q] \ todo[q]) \cup {This(q)} : Fine(q, n)
      BY <2>0 DEF OnProject, CurrentInv, Current
    <2>1. CASE OpenTmp(q) \/ Write(q)
      <3>1. /\ pc[q] \in {"open", "write"} /\ pc'[q] \in {"write", "rename"}
            /\ UNCHANGED <<op, asked, todo, noted, base, live, shards, raced>>
        BY <1>0, <2>1 DEF OpenTmp, Write, frame, trees, TypeOK
      <3>2. This(q)' = This(q)
        BY <3>1 DEF This
      <3> QED
        BY <2>0, <3>1, <3>2 DEF CurrentInv, Current, Fine, OnProject
    <2>2. CASE Rename(q)
      <3>1. /\ pc[q] = "rename" /\ UNCHANGED <<op, asked, noted, base, live, shards, raced>>
            /\ \E D : Advance(q, D)
        BY <2>2 DEF Rename, trees
      <3>2. op[q] # "register" => \A n \in (asked[q] \ todo[q]) \cup {This(q)} : Fine(q, n)'
        BY <2>0, <3>1 DEF Fine
      <3>3. \A n \in Projects : base'[q][n] <= live'[n]
        BY <3>1 DEF CurrentInv, Current
      <3> QED
        BY <1>0, <3>1, <3>2, <3>3, CurrentAdvance
    <2>3. CASE SaveFails(q) /\ ~End(q)
      <3>1. /\ pc[q] \in {"open", "write", "rename"} /\ UNCHANGED <<asked, base, live, shards, raced>>
            /\ noted' \in {noted, [noted EXCEPT ![q] = @ \cup {This(q)}]}
            /\ op' = op \/ (op[q] = "sync" /\ op' = [op EXCEPT ![q] = "unsaved"])
            /\ \E D : Advance(q, D)
        BY <2>3 DEF SaveFails, trees
      <3>2. noted[q] \subseteq noted'[q]
        BY <1>0, <3>1 DEF TypeOK
      <3>5. op'[q] = op[q] \/ (op[q] = "sync" /\ op'[q] = "unsaved")
        BY <1>0, <3>1 DEF TypeOK
      <3>3. op[q] # "register" => \A n \in (asked[q] \ todo[q]) \cup {This(q)} : Fine(q, n)'
        BY <2>0, <3>1, <3>2 DEF Fine
      <3>4. \A n \in Projects : base'[q][n] <= live'[n]
        BY <3>1 DEF CurrentInv, Current
      <3> QED
        BY <1>0, <3>1, <3>3, <3>4, <3>5, CurrentAdvance
    <2> QED
      BY <1>3, <1>6, <2>1, <2>2, <2>3 DEF Saves
  <1>7. ASSUME NEW q \in Procs, Answers(q) PROVE Current(q)'
    <2>1. CASE Visit(q) \/ VisitFails(q) \/ StopShort(q)
      <3>1. pc[q] = "walk" /\ UNCHANGED <<pc, op, asked, noted, base, live, shards, raced>>
        BY <2>1 DEF Visit, VisitFails, StopShort, trees
      <3> QED
        BY <3>1 DEF CurrentInv, Current, Fine, OnProject
    <2>2. CASE Answer(q)
      <3>1. pc'[q] = "told" /\ UNCHANGED <<base, live>>
        BY <1>0, <2>2 DEF Answer, frame, trees, TypeOK
      <3> QED
        BY <3>1 DEF CurrentInv, Current, OnProject
    <2> QED
      BY <1>3, <1>7, <2>1, <2>2 DEF Answers, Done, Fails
  <1>8. ASSUME NEW n \in Projects, Commit(n) PROVE CurrentInv'
    BY <1>1, <1>8 DEF Commit, frame, CurrentInv
  <1>9. CASE UNCHANGED vars
    BY <1>1, <1>9 DEF vars, frame, CurrentInv
  <1>10. ASSUME NEW q \in Procs, Acts(q) PROVE Current(q)'
    BY <1>3, <1>4, <1>5, <1>6, <1>7, <1>10 DEF Acts, Die
  <1> QED
    BY <1>2, <1>8, <1>9, <1>10 DEF Next, Acts

LEMMA CurrentInit == Init => CurrentInv
  BY DEF Init, CurrentInv, Current, OnProject, Zero

\* Only the search of a project adds it to what was searched.
LEMMA SearchedGrows ==
    ASSUME Typed, [Next]_vars, NEW q \in Procs, NEW n \in walk'[q].searched \ walk[q].searched
    PROVE  pc[q] = "walk" /\ n \in asked[q]
  <1> USE DEF Typed
  <1>1. ASSUME NEW p \in Procs, End(p) \/ Leave(p) PROVE FALSE
    <2>1. walk'[q] \in {walk[q], NoWalk}
      BY <1>1 DEF End, Leave, Reset, TypeOK
    <2> QED
      BY <2>1 DEF NoWalk
  <1>2. ASSUME NEW p \in Procs, Visit(p) PROVE pc[q] = "walk" /\ n \in asked[q]
    <2>1. p = q /\ pc[q] = "walk" /\ todo[q] # {} /\ todo[q] \subseteq asked[q]
      BY <1>2 DEF Visit, TypeOK
    <2>2. walk'[q].searched = walk[q].searched \cup {This(q)}
      BY <1>2, <2>1 DEF Visit, TypeOK, Walk
    <2> QED
      BY <2>1, <2>2, ThisIsTodo
  <1>3. ASSUME NEW p \in Procs, VisitFails(p) \/ StopShort(p) PROVE FALSE
    <2>1. PICK S : \/ walk' = [walk EXCEPT ![p].skipped = S]
                   \/ walk' = [walk EXCEPT ![p].unsearched = S]
      BY <1>3 DEF VisitFails, StopShort, TypeOK
    <2>2. walk \in [Procs -> Walk]
      BY DEF TypeOK
    <2>3. walk'[q].searched = walk[q].searched
      BY <2>1, <2>2 DEF Walk
    <2> QED
      BY <2>3
  <1>4. CASE UNCHANGED walk
    BY <1>4
  <1>5. ASSUME NEW p \in Procs, Acts(p), ~(Visit(p) \/ VisitFails(p) \/ StopShort(p))
        PROVE  UNCHANGED walk \/ End(p) \/ Leave(p)
    <2>1. Enters(p) => UNCHANGED walk
      BY DEF Enters, OpenSession, Register, Index, Sync, Search, Fleet, Begin, frame
    <2>2. Works(p) => UNCHANGED walk \/ End(p)
      BY DEF Works, IndexGraph, GraphFails, Fails, ReadHead, Resolve, Build, RefreshFails, Touch, frame
    <2>3. Saves(p) => UNCHANGED walk \/ End(p)
      BY DEF Saves, OpenTmp, Write, Rename, SaveFails, frame
    <2>4. Answers(p) => UNCHANGED walk \/ End(p)
      BY <1>5 DEF Answers, Answer, Done, Fails, frame
    <2> QED
      BY <1>5, <2>1, <2>2, <2>3, <2>4 DEF Acts, Die
  <1>6. ASSUME NEW m \in Projects, Commit(m) PROVE UNCHANGED walk
    BY <1>6 DEF Commit, frame
  <1> QED
    BY <1>1, <1>2, <1>3, <1>4, <1>5, <1>6 DEF Next, Acts, vars, frame

(* A text search answers from an index at least as new as the tree was     *)
(* when the search began, or says that the refresh failed, however many    *)
(* processes index, save, fail and are killed beside it, until two of them *)
(* build the text index of one project at one time.                        *)
THEOREM SearchIsCurrent == Spec => AnswerIsCurrent
  <1>1. CoverInv /\ CurrentInv /\ [Next]_vars =>
          [\A q \in Procs : \A n \in walk'[q].searched \ walk[q].searched :
               n \in noted[q] \cup raced \/ shards[n] >= base[q][n]]_vars
    BY SearchedGrows DEF CoverInv, CurrentInv, Current, Fine
  <1>2. CoverInv /\ CurrentInv /\ [Next]_vars => CurrentInv'
    BY CurrentStep
  <1> QED
    BY <1>1, <1>2, CurrentInit, Invariant, PTL DEF Spec, AnswerIsCurrent

-----------------------------------------------------------------------------
(* The file. While saves do not meet, the temporary file is what its one   *)
(* writer has, and a process that is not behind knows every project that   *)
(* is in tk.json.                                                          *)
Saver(q) ==
    /\ pc[q] \in {"write", "rename"} => fd[q] = "tmp"
    /\ pc[q] = "write" => tmp = Empty
    /\ pc[q] = "rename" => tmp = reg[q]
    /\ pc[q] # "idle" /\ ~behind[q] => Known(file) \subseteq DOMAIN reg[q]
    /\ op[q] = "register" => asked[q] \subseteq DOMAIN reg[q] /\ pc[q] \notin {"idle", "ready"}

SaveInv == ~overlap =>
    /\ \A p, q \in Saving : p = q
    /\ \A q \in Procs : Saver(q)
    /\ file \notin {Empty, Torn} /\ acked \subseteq Known(file)

\* Nor does a process touch what another has of the registry.
LEMMA OthersHold ==
    ASSUME Typed, NEW q \in Procs, Acts(q), ~Rename(q), NEW p \in Procs \ {q}
    PROVE  reg'[p] = reg[p] /\ behind'[p] = behind[p] /\ fd'[p] = fd[p]
  <1> USE DEF Typed, TypeOK, Goto
  <1> DEFINE Kept == reg'[p] = reg[p] /\ behind'[p] = behind[p] /\ fd'[p] = fd[p]
  <1>1. ASSUME End(q) \/ Leave(q) PROVE Kept
    BY <1>1 DEF End, Leave, Reset
  <1>2. ASSUME Load(q) PROVE reg'[p] = reg[p] /\ behind'[p] = behind[p]
    BY <1>2 DEF Load
  <1>3. ASSUME NEW o, NEW S, NEW l, Begin(q, o, S, l) PROVE fd'[p] = fd[p]
    BY <1>3 DEF Begin
  <1>4. ASSUME Enters(q) PROVE Kept
    <2>1. CASE OpenSession(q)
      BY <1>2, <2>1 DEF OpenSession, frame
    <2>2. ASSUME NEW n \in Projects, Register(q, n) PROVE Kept
      BY <1>3, <2>2 DEF Register
    <2>3. CASE Index(q) \/ Sync(q) \/ Fleet(q)
      BY <1>2, <1>3, <2>3 DEF Index, Sync, Fleet, Command
    <2>4. ASSUME NEW n \in Projects, Search(q, n) PROVE Kept
      BY <1>2, <1>3, <2>4 DEF Search, Command
    <2> QED
      BY <1>4, <2>1, <2>2, <2>3, <2>4 DEF Enters
  <1>5. ASSUME Works(q) PROVE Kept
    <2>1. CASE Touch(q)
      BY <2>1 DEF Touch
    <2>2. CASE IndexGraph(q) \/ ReadHead(q) \/ Resolve(q) \/ Build(q)
      BY <2>2 DEF IndexGraph, ReadHead, Resolve, Build, frame
    <2>3. CASE RefreshFails(q)
      BY <1>1, <2>3 DEF RefreshFails, Fails
    <2> QED
      BY <1>1, <1>5, <2>1, <2>2, <2>3 DEF Works, GraphFails, Fails
  <1>6. ASSUME Saves(q) PROVE Kept
    <2>1. CASE OpenTmp(q) \/ Write(q)
      BY <2>1 DEF OpenTmp, Write, frame
    <2>2. CASE SaveFails(q)
      BY <1>1, <2>2 DEF SaveFails
    <2> QED
      BY <1>6, <2>1, <2>2 DEF Saves
  <1>7. ASSUME Answers(q) PROVE Kept
    BY <1>1, <1>7 DEF Answers, Visit, VisitFails, StopShort, Answer, Done, Fails, frame
  <1> QED
    BY <1>1, <1>4, <1>5, <1>6, <1>7 DEF Acts, Die

\* A step that leaves the files alone, and after which its process is not writing.
LEMMA QuietStep ==
    ASSUME Typed, SaveInv, NEW q \in Procs, Acts(q), ~Rename(q),
           UNCHANGED <<file, tmp, acked, overlap>>,
           pc'[q] \notin {"write", "rename"},
           ~overlap => Saver(q)'
    PROVE  SaveInv'
  <1> SUFFICES ASSUME ~overlap' PROVE SaveInv'
    BY DEF SaveInv
  <1>1. \A p \in Procs \ {q} : /\ pc'[p] = pc[p] /\ op'[p] = op[p] /\ asked'[p] = asked[p]
                               /\ reg'[p] = reg[p] /\ behind'[p] = behind[p] /\ fd'[p] = fd[p]
    BY OthersKeep, OthersHold
  <1>2. \A p \in Procs : Saver(p)'
    BY <1>1 DEF SaveInv, Saver, Known, Content
  <1>3. Saving' \subseteq Saving
    BY <1>1 DEF Saving
  <1> QED
    BY <1>2, <1>3 DEF SaveInv, Known, Content

LEMMA SaverEnds ==
    ASSUME Typed, SaveInv, NEW q \in Procs, End(q) \/ Leave(q), UNCHANGED <<file, tmp>>,
           End(q) => pc[q] # "idle"
    PROVE  (~overlap => Saver(q)') /\ pc'[q] \in {"idle", "ready"}
  <1> USE DEF Typed, TypeOK, Goto
  <1>1. op'[q] # "register" /\ asked'[q] = {}
    BY RegistryAssumption DEF End, Leave, Reset
  <1>2. CASE Leave(q)
    <2>1. pc'[q] = "idle"
      BY <1>2 DEF Leave
    <2> QED
      BY <1>1, <2>1 DEF Saver
  <1>3. CASE ~Leave(q)
    <2>1. pc'[q] = "ready" /\ pc[q] # "idle" /\ UNCHANGED <<reg, behind>>
      BY <1>3 DEF End
    <2> QED
      BY <1>1, <2>1 DEF SaveInv, Saver, Known, Content
  <1> QED
    BY <1>2, <1>3

LEMMA SaveStep ==
    ASSUME Typed, SaveInv, [Next]_vars
    PROVE  SaveInv'
  <1> USE DEF Goto
  <1>0. /\ TypeOK
        /\ \A r \in Registries : r \notin {None, Empty, Torn} /\ Content(r) = r
    BY RegistryAssumption DEF Typed, Content
  <1>1. ASSUME NEW q \in Procs, End(q) \/ Leave(q), End(q) => pc[q] # "idle", Acts(q), ~Rename(q),
               UNCHANGED <<file, tmp, acked, overlap>>
        PROVE  SaveInv'
    <2>1. (~overlap => Saver(q)') /\ pc'[q] \in {"idle", "ready"}
      BY <1>1, SaverEnds
    <2>2. pc'[q] \notin {"write", "rename"}
      BY <2>1
    <2> QED
      BY <1>1, <2>1, <2>2, QuietStep
  <1>2. ASSUME NEW q \in Procs, Acts(q), ~Rename(q), UNCHANGED <<file, tmp, acked, overlap, reg, behind, op, asked>>,
               pc[q] # "idle", pc'[q] \notin {"write", "rename", "idle", "ready"}
        PROVE  SaveInv'
    <2>1. ~overlap => Saver(q)'
      BY <1>2 DEF SaveInv, Saver, Known, Content
    <2> QED
      BY <1>2, <2>1, QuietStep
  <1>3. ASSUME NEW q \in Procs, Enters(q) PROVE SaveInv'
    <2>0. Acts(q) /\ ~Rename(q) /\ UNCHANGED <<file, tmp, acked, overlap>>
      <3>1. pc[q] \in {"idle", "ready"}
        BY <1>3 DEF Enters, OpenSession, Register, Index, Sync, Search, Fleet, Command
      <3> QED
        BY <1>3, <3>1 DEF Acts, Rename, Enters, OpenSession, Register, Index, Sync, Search, Fleet,
           Begin, disk
    <2>1. ASSUME NEW o \in {"index", "sync", "clean", "search", "fleet"}, NEW S, NEW l \in {"graph", "head", "walk", "told"},
                 Begin(q, o, S, l), Load(q) \/ (pc[q] = "ready" /\ UNCHANGED <<reg, behind>>)
          PROVE  SaveInv'
      <3>1. pc'[q] = l /\ op'[q] = o
        BY <1>0, <2>1 DEF Begin, TypeOK
      <3>2. CASE Load(q)
        <4>1. reg'[q] = Content(file)
          BY <1>0, <3>2 DEF Load, TypeOK
        <4>2. Saver(q)'
          BY <2>0, <3>1, <4>1 DEF Saver, Known, Content
        <4> QED
          BY <2>0, <3>1, <4>2, QuietStep
      <3>3. CASE pc[q] = "ready" /\ UNCHANGED <<reg, behind>>
        <4>1. ~overlap => Saver(q)'
          BY <2>0, <3>1, <3>3 DEF SaveInv, Saver, Known, Content
        <4> QED
          BY <2>0, <3>1, <4>1, QuietStep
      <3> QED
        BY <2>1, <3>2, <3>3
    <2>2. CASE OpenSession(q)
      <3>1. reg'[q] = Content(file)
        BY <1>0, <2>2 DEF OpenSession, Load, TypeOK
      <3>2. pc[q] = "idle" /\ pc'[q] = "ready" /\ op' = op
        BY <1>0, <2>2 DEF OpenSession, TypeOK, frame
      <3>3. ~overlap => Saver(q)'
        BY <2>0, <3>1, <3>2 DEF SaveInv, Saver, Known, Content
      <3> QED
        BY <2>0, <3>2, <3>3, QuietStep
    <2>3. ASSUME NEW n \in Projects, Register(q, n) PROVE SaveInv'
      <3>1. reg'[q] = [m \in DOMAIN Content(file) \cup {n} |-> IF m = n THEN New ELSE Content(file)[m]]
        BY <1>0, <2>3 DEF Register, TypeOK
      <3>2. pc'[q] = "open" /\ asked'[q] = {n}
        BY <1>0, <2>3 DEF Register, Begin, TypeOK
      <3>3. DOMAIN reg'[q] = DOMAIN Content(file) \cup {n}
        BY <3>1
      <3>4. Saver(q)'
        BY <2>0, <3>2, <3>3 DEF Saver, Known, Content
      <3> QED
        BY <2>0, <3>2, <3>4, QuietStep
    <2>4. ASSUME NEW n \in Projects, Search(q, n) PROVE SaveInv'
      BY <2>1, <2>4 DEF Search, Command
    <2> QED
      BY <1>3, <2>1, <2>2, <2>3, <2>4 DEF Enters, Index, Sync, Fleet, Command
  <1>4. ASSUME NEW q \in Procs, NEW D, Advance(q, D)
        PROVE pc'[q] \in {"graph", "head", "told", "walk"}
    BY <1>0, <1>4 DEF Advance, TypeOK
  <1>5. ASSUME NEW q \in Procs, Works(q) PROVE SaveInv'
    <2>0. Acts(q) /\ ~Rename(q) /\ UNCHANGED <<file, tmp, acked, overlap>> /\ pc[q] # "idle"
      BY <1>5 DEF Acts, Rename, Works, IndexGraph, GraphFails, Fails, ReadHead, Resolve, Build, RefreshFails,
         Touch, disk
    <2>1. CASE Fails(q)
      BY <1>1, <2>0, <2>1 DEF Fails
    <2>2. CASE IndexGraph(q) \/ ReadHead(q) \/ Resolve(q) \/ Build(q)
      <3>1. pc'[q] \in {"head", "resolve", "build", "touch"} /\ UNCHANGED <<reg, behind, op, asked>>
        BY <1>0, <2>2 DEF IndexGraph, ReadHead, Resolve, Build, frame, TypeOK
      <3> QED
        BY <1>2, <2>0, <3>1
    <2>3. CASE RefreshFails(q) /\ ~Fails(q)
      <3>1. UNCHANGED <<reg, behind, op, asked>> /\ (Goto(q, "open") \/ \E D : Advance(q, D))
        BY <2>3 DEF RefreshFails
      <3>2. pc'[q] \notin {"write", "rename", "idle", "ready"}
        BY <1>0, <1>4, <3>1 DEF TypeOK
      <3> QED
        BY <1>2, <2>0, <3>1, <3>2
    <2>4. CASE Touch(q)
      <3>1. UNCHANGED <<behind, op, asked>> /\ (Goto(q, "open") \/ \E D : Advance(q, D))
        BY <2>4 DEF Touch, Refreshed
      <3>2. pc'[q] \notin {"write", "rename", "idle", "ready"}
        BY <1>0, <1>4, <3>1 DEF TypeOK
      <3>3. DOMAIN reg'[q] = DOMAIN reg[q]
        BY <1>0, <2>4 DEF Touch, TypeOK
      <3>4. ~overlap => Saver(q)'
        BY <2>0, <3>1, <3>2, <3>3 DEF SaveInv, Saver, Known, Content
      <3> QED
        BY <2>0, <3>2, <3>4, QuietStep
    <2> QED
      BY <1>5, <2>1, <2>2, <2>3, <2>4 DEF Works, GraphFails
  <1>6. ASSUME NEW q \in Procs, Answers(q) PROVE SaveInv'
    <2>0. Acts(q) /\ ~Rename(q) /\ UNCHANGED <<file, tmp, acked, overlap>> /\ pc[q] # "idle"
      BY <1>6 DEF Acts, Rename, Answers, Visit, VisitFails, StopShort, Answer, Done, Fails, disk
    <2>1. CASE Done(q)
      BY <1>1, <2>0, <2>1 DEF Done, Fails
    <2>2. CASE ~Done(q)
      <3>1. UNCHANGED <<reg, behind, op, asked>> /\ pc'[q] \in {"walk", "told"}
        BY <1>0, <1>6, <2>2 DEF Answers, Visit, VisitFails, StopShort, Answer, frame, TypeOK
      <3> QED
        BY <1>2, <2>0, <3>1
    <2> QED
      BY <2>1, <2>2
  <1>7. ASSUME NEW q \in Procs, SaveFails(q) PROVE SaveInv'
    <2>0. Acts(q) /\ UNCHANGED <<file, tmp, acked, overlap>> /\ pc[q] # "idle"
      BY <1>7 DEF Acts, Saves, SaveFails, disk
    <2>1. ~Rename(q)
      <3>1. UNCHANGED <<disk, acked>>
        BY <1>7 DEF SaveFails
      <3> QED
        BY <1>0, <3>1 DEF Rename, disk
    <2>2. CASE End(q)
      BY <1>1, <2>0, <2>1, <2>2
    <2>3. CASE ~End(q)
      <3>1. /\ UNCHANGED <<reg, behind, asked>> /\ \E D : Advance(q, D)
            /\ op' = op \/ op' = [op EXCEPT ![q] = "unsaved"]
        BY <1>7, <2>3 DEF SaveFails
      <3>2. pc'[q] \notin {"write", "rename", "idle", "ready"}
        BY <1>4, <3>1
      <3>3. op'[q] = op[q] \/ op'[q] = "unsaved"
        BY <1>0, <3>1 DEF TypeOK
      <3>4. ~overlap => Saver(q)'
        BY <2>0, <3>1, <3>2, <3>3 DEF SaveInv, Saver, Known, Content
      <3> QED
        BY <2>0, <2>1, <3>2, <3>4, QuietStep
    <2> QED
      BY <2>2, <2>3
  <1>8. ASSUME NEW q \in Procs, OpenTmp(q) \/ Write(q) PROVE SaveInv'
    <2> SUFFICES ASSUME ~overlap' PROVE SaveInv'
      BY DEF SaveInv
    <2>1. /\ Acts(q) /\ ~Rename(q) /\ UNCHANGED <<reg, behind, op, asked, acked>> /\ pc[q] # "idle" /\ ~overlap
          /\ \A p \in Procs \ {q} : pc'[p] = pc[p] /\ fd'[p] = fd[p]
      <3>1. Acts(q) /\ UNCHANGED <<reg, behind, op, asked, acked>> /\ pc[q] \in {"open", "write"}
        BY <1>8 DEF Acts, Saves, OpenTmp, Write, frame
      <3>3. ~overlap
        BY <1>0, <1>8 DEF OpenTmp, Write, TypeOK
      <3>2. ~Rename(q)
        BY <3>1 DEF Rename
      <3> QED
        BY <3>1, <3>2, <3>3, OthersKeep, OthersHold
    <2>2. CASE OpenTmp(q)
      <3>1. /\ Saving = {} /\ file' = file /\ tmp' = Empty /\ pc'[q] = "write" /\ fd'[q] = "tmp"
        BY <1>0, <2>2 DEF OpenTmp, TypeOK
      <3>2. Saving' \subseteq {q}
        BY <2>1, <3>1 DEF Saving
      <3>3. \A p \in Procs : Saver(p)'
        BY <2>1, <3>1 DEF SaveInv, Saver, Saving, Known, Content
      <3> QED
        BY <2>1, <3>1, <3>2, <3>3 DEF SaveInv, Known, Content
    <2>3. CASE Write(q)
      <3>1. /\ q \in Saving /\ fd[q] = "tmp" /\ tmp = Empty
        BY <1>0, <2>1, <2>3 DEF Write, Saving, SaveInv, Saver
      <3>2. file' = file /\ tmp' = reg[q] /\ pc'[q] = "rename" /\ fd' = fd
        BY <1>0, <2>3, <3>1 DEF Write, Onto, frame, TypeOK
      <3>3. Saving' \subseteq Saving /\ \A p \in Procs \ {q} : p \notin Saving
        BY <2>1, <3>1 DEF Saving, SaveInv
      <3>4. \A p \in Procs : Saver(p)'
        BY <2>1, <3>1, <3>2, <3>3 DEF SaveInv, Saver, Saving, Known, Content
      <3> QED
        BY <2>1, <3>2, <3>3, <3>4 DEF SaveInv, Known, Content
    <2> QED
      BY <1>8, <2>2, <2>3
  <1>9. ASSUME NEW q \in Procs, Rename(q) PROVE SaveInv'
    <2> SUFFICES ASSUME ~overlap' PROVE SaveInv'
      BY DEF SaveInv
    <2>1. /\ ~overlap /\ ~behind[q] /\ Saving = {q} /\ pc[q] = "rename" /\ file' = tmp /\ UNCHANGED <<reg, op, asked>>
          /\ acked' = IF op[q] = "register" THEN acked \cup asked[q] ELSE acked
          /\ \A p \in Procs : behind'[p] = (p # q /\ pc[p] # "idle")
      BY <1>9 DEF Rename
    <2>2. pc'[q] \in {"graph", "head", "told", "walk"} /\ \A p \in Procs \ {q} : pc'[p] = pc[p]
      BY <1>0, <1>4, <1>9, OthersKeep DEF Rename, Acts, Saves, Typed
    <2>3. tmp = reg[q] /\ reg[q] \in Registries
      BY <1>0, <2>1 DEF SaveInv, Saver, TypeOK
    <2>4. Known(file)' = DOMAIN reg[q] /\ Known(file) \subseteq DOMAIN reg[q]
      BY <1>0, <2>1, <2>3 DEF Known, Content, SaveInv, Saver
    <2>5. Saving' = {}
      BY <2>1, <2>2 DEF Saving
    <2>6. \A p \in Procs : Saver(p)'
      BY <2>1, <2>2, <2>4, <2>5 DEF SaveInv, Saver, Saving
    <2>7. acked' \subseteq DOMAIN reg[q]
      BY <2>1, <2>4 DEF SaveInv, Saver
    <2> QED
      BY <1>0, <2>1, <2>3, <2>4, <2>5, <2>6, <2>7 DEF SaveInv
  <1>10. ASSUME NEW q \in Procs, Die(q) PROVE SaveInv'
    <2>1. ~Rename(q) /\ Acts(q) /\ UNCHANGED <<file, tmp, acked, overlap>> /\ Leave(q) /\ pc[q] # "idle"
      BY <1>0, <1>10 DEF Die, Acts, Rename, disk, Leave, TypeOK
    <2> QED
      BY <1>1, <2>1
  <1>11. CASE UNCHANGED <<file, tmp, acked, overlap, pc, fd, reg, behind, op, asked>>
    BY <1>11 DEF SaveInv, Saver, Saving, Known, Content
  <1>12. ASSUME NEW n \in Projects, Commit(n) PROVE SaveInv'
    BY <1>11, <1>12 DEF Commit, disk, frame
  <1>13. CASE UNCHANGED vars
    BY <1>11, <1>13 DEF vars, disk, frame
  <1>14. ASSUME NEW q \in Procs, Saves(q) PROVE SaveInv'
    BY <1>7, <1>8, <1>9, <1>14 DEF Saves
  <1> QED
    BY <1>3, <1>5, <1>6, <1>10, <1>12, <1>13, <1>14 DEF Next

LEMMA SaveInit == Init => SaveInv
  BY RegistryAssumption DEF Init, SaveInv, Saver, Saving, Known, Content, Nothing

(* A registration that was acknowledged stays, whoever fails or is killed  *)
(* where, while no save meets another and none is made by a process that   *)
(* has not seen the last.                                                  *)
THEOREM RegistrationsStay == Spec => []AckedStays
  <1>1. SaveInv => AckedStays
    BY DEF SaveInv, AckedStays
  <1>2. CoverInv /\ SaveInv /\ [Next]_vars => SaveInv'
    BY SaveStep DEF CoverInv
  <1> QED
    BY <1>1, <1>2, SaveInit, Invariant, PTL DEF Spec

-----------------------------------------------------------------------------
(* What an index or a sync leaves behind. While saves do not meet and a    *)
(* project's tree stays as it was when the command began: once the project *)
(* is dealt with, the command's registry has it fresh; once the command    *)
(* has told, so has the file, and everybody who could still replace it.    *)
Ordered(r) == \A n \in Git \cap DOMAIN r : r[n].zoekt <= r[n].head /\ r[n].head <= live[n]
FreshIn(r, n) == n \in DOMAIN r /\ r[n].head = live[n] /\ r[n].zoekt = live[n]
Still(q, n) == live[n] = base[q][n]
Syncing(q) == op[q] \in {"index", "sync"}

Working(q) ==
    Syncing(q) =>
        /\ q \notin Sessions /\ pc[q] \in OnProject \cup {"told"}
        /\ asked[q] \subseteq DOMAIN reg[q]
        /\ pc[q] \in OnProject =>
              \A n \in (asked[q] \ todo[q]) \cap Git : Still(q, n) => FreshIn(reg[q], n)
        /\ pc[q] \in {"resolve", "build", "touch"} /\ This(q) \in Git /\ Still(q, This(q)) =>
              zhead[q] = live[This(q)]
        /\ pc[q] \in {"open", "write", "rename"} =>
              /\ todo[q] = {This(q)}
              /\ This(q) \in Git /\ Still(q, This(q)) => FreshIn(reg[q], This(q))

HasFresh(p, n) ==
    pc[p] # "idle" /\ ~behind[p] =>
        /\ FreshIn(reg[p], n)
        /\ pc[p] \in {"resolve", "build", "touch"} /\ This(p) = n => zhead[p] = live[n]

Told(q) ==
    Syncing(q) /\ pc[q] = "told" =>
        \A n \in asked[q] \cap Git : Still(q, n) =>
            FreshIn(Content(file), n) /\ \A p \in Procs : HasFresh(p, n)

ConvergeInv == ~overlap =>
    /\ Ordered(Content(file))
    /\ \A q \in Procs : Ordered(reg[q]) /\ Working(q) /\ Told(q)

AllInv == CoverInv /\ CurrentInv /\ SaveInv /\ ConvergeInv

Registered(n) == [m \in DOMAIN Content(file) \cup {n} |-> IF m = n THEN New ELSE Content(file)[m]]
Touched(p) == [reg[p] EXCEPT ![This(p)] = [head |-> live[This(p)], zoekt |-> zhead[p]]]

LEMMA OthersRegistry ==
    ASSUME Typed, NEW q \in Procs, Acts(q), NEW p \in Procs \ {q}
    PROVE  reg'[p] = reg[p] /\ zhead'[p] = zhead[p]
  <1>1. reg'[p] = reg[p]
    <2>1. Rename(q) => reg' = reg
      BY DEF Rename
    <2> QED
      BY <2>1, OthersHold
  <1>2. zhead'[p] = zhead[p]
    <2> USE DEF Typed, TypeOK
    <2>1. ASSUME End(q) \/ Leave(q) PROVE zhead'[p] = zhead[p]
      BY <2>1 DEF End, Leave, Reset
    <2>2. Enters(q) => zhead' = zhead
      BY DEF Enters, OpenSession, Register, Index, Sync, Search, Fleet, Begin, frame
    <2>3. ASSUME Works(q) PROVE zhead'[p] = zhead[p]
      <3>1. CASE ReadHead(q) \/ Touch(q)
        BY <3>1 DEF ReadHead, Touch
      <3>2. CASE ~ReadHead(q) /\ ~Touch(q)
        <4>1. zhead' = zhead \/ zhead' = [zhead EXCEPT ![q] = 0] \/ End(q)
          BY <2>3, <3>2 DEF Works, IndexGraph, GraphFails, Fails, Resolve, Build, RefreshFails, frame
        <4> QED
          BY <2>1, <4>1
      <3> QED
        BY <3>1, <3>2
    <2>4. Saves(q) => zhead' = zhead \/ End(q)
      BY DEF Saves, OpenTmp, Write, Rename, SaveFails, frame
    <2>5. Answers(q) => zhead' = zhead \/ End(q)
      BY DEF Answers, Visit, VisitFails, StopShort, Answer, Done, Fails, frame
    <2> QED
      BY <2>1, <2>2, <2>3, <2>4, <2>5 DEF Acts, Die
  <1> QED
    BY <1>1, <1>2

\* Where the registry of a process comes from.
LEMMA RegistrySource ==
    ASSUME Typed, [Next]_vars, NEW p \in Procs
    PROVE  \/ reg'[p] = reg[p] /\ (pc'[p] # "idle" => pc[p] # "idle")
           \/ reg'[p] = Content(file) /\ pc'[p] \notin {"resolve", "build", "touch"}
           \/ reg'[p] = Nothing /\ pc'[p] = "idle"
           \/ \E n \in Projects \ DOMAIN Content(file) :
                 reg'[p] = Registered(n) /\ pc'[p] \notin {"resolve", "build", "touch"}
           \/ Touch(p) /\ reg'[p] = Touched(p)
  <1> USE DEF Goto
  <1>0. TypeOK /\ reg \in [Procs -> Registries]
    BY DEF Typed, TypeOK
  <1> DEFINE Goal == \/ reg'[p] = reg[p] /\ (pc'[p] # "idle" => pc[p] # "idle")
                     \/ reg'[p] = Content(file) /\ pc'[p] \notin {"resolve", "build", "touch"}
                     \/ reg'[p] = Nothing /\ pc'[p] = "idle"
                     \/ \E n \in Projects \ DOMAIN Content(file) :
                           reg'[p] = Registered(n) /\ pc'[p] \notin {"resolve", "build", "touch"}
                     \/ Touch(p) /\ reg'[p] = Touched(p)
  <1>1. ASSUME NEW q \in Procs, Acts(q), p # q PROVE Goal
    BY <1>0, <1>1, OthersKeep, OthersRegistry DEF Typed
  <1>2. ASSUME End(p) \/ Leave(p), pc[p] # "idle" PROVE Goal
    <2>1. CASE Leave(p)
      BY <1>0, <2>1 DEF Leave, TypeOK
    <2>2. CASE ~Leave(p)
      BY <1>2, <2>2 DEF End
    <2> QED
      BY <2>1, <2>2
  <1>3. ASSUME Enters(p) PROVE Goal
    <2>1. ASSUME NEW n \in Projects, Register(p, n) PROVE Goal
      <3>1. reg'[p] = Registered(n) /\ n \notin DOMAIN Content(file) /\ pc'[p] = "open"
        BY <1>0, <2>1 DEF Register, Registered, Begin, TypeOK
      <3> QED
        BY <3>1
    <2>2. ASSUME Load(p), pc'[p] \notin {"resolve", "build", "touch"} PROVE Goal
      BY <1>0, <2>2 DEF Load
    <2>3. ASSUME NEW o, NEW S, NEW l \in {"graph", "head", "walk", "told"}, Begin(p, o, S, l),
                 Load(p) \/ (pc[p] = "ready" /\ UNCHANGED reg)
          PROVE  Goal
      <3>1. pc'[p] = l
        BY <1>0, <2>3 DEF Begin, TypeOK
      <3> QED
        BY <2>2, <2>3, <3>1
    <2>4. CASE OpenSession(p)
      <3>1. pc'[p] = "ready" /\ Load(p)
        BY <1>0, <2>4 DEF OpenSession, TypeOK
      <3> QED
        BY <2>2, <3>1
    <2>5. ASSUME NEW n \in Projects, Search(p, n) PROVE Goal
      BY <2>3, <2>5 DEF Search, Command
    <2> QED
      BY <1>3, <2>1, <2>3, <2>4, <2>5 DEF Enters, Index, Sync, Fleet, Command
  <1>4. CASE Touch(p)
    <2>1. pc[p] # "idle"
      BY <1>4 DEF Touch
    <2>2. reg' = reg \/ reg' = [reg EXCEPT ![p][This(p)] = [head |-> live[This(p)], zoekt |-> zhead[p]]]
      BY <1>4 DEF Touch
    <2>3. reg'[p] \in {reg[p], Touched(p)}
      BY <1>0, <2>2 DEF Touched
    <2> QED
      BY <1>4, <2>1, <2>3
  <1>5. ASSUME Works(p) \/ Saves(p) \/ Answers(p) \/ Die(p), ~Touch(p) PROVE Goal
    <2>1. pc[p] # "idle"
      BY <1>5 DEF Works, IndexGraph, GraphFails, ReadHead, Resolve, Build, RefreshFails,
                  Saves, OpenTmp, Write, Rename, SaveFails,
                  Answers, Visit, VisitFails, StopShort, Answer, Done, Die
    <2>2. Works(p) => reg' = reg \/ End(p)
      BY <1>5 DEF Works, IndexGraph, GraphFails, Fails, ReadHead, Resolve, Build, RefreshFails, frame
    <2>3. Saves(p) => reg' = reg \/ End(p)
      BY DEF Saves, OpenTmp, Write, Rename, SaveFails, frame
    <2>4. Answers(p) => reg' = reg \/ End(p)
      BY DEF Answers, Visit, VisitFails, StopShort, Answer, Done, Fails, frame
    <2> QED
      BY <1>2, <1>5, <2>1, <2>2, <2>3, <2>4 DEF Die
  <1>6. ASSUME NEW n \in Projects, Commit(n) PROVE Goal
    BY <1>6 DEF Commit
  <1>7. CASE UNCHANGED vars
    BY <1>7 DEF vars
  <1> QED
    BY <1>1, <1>3, <1>4, <1>5, <1>6, <1>7 DEF Next, Acts

\* Where tk.json comes from, while saves do not meet.
LEMMA FileSource ==
    ASSUME Typed, SaveInv, [Next]_vars, ~overlap'
    PROVE  /\ ~overlap
           /\ \/ file' = file
              \/ \E q \in Procs : Rename(q) /\ file' = reg[q] /\ ~behind[q]
  <1>1. ~overlap
    <2>0. overlap \in BOOLEAN
      BY DEF Typed, TypeOK
    <2>1. ASSUME NEW q \in Procs, Acts(q) PROVE ~overlap
      <3>1. Enters(q) => overlap' = overlap
        BY DEF Enters, OpenSession, Register, Index, Sync, Search, Fleet, Begin
      <3>2. Works(q) => overlap' = overlap
        BY DEF Works, IndexGraph, GraphFails, Fails, ReadHead, Resolve, Build, RefreshFails, Touch
      <3>3. Saves(q) => overlap' = overlap \/ overlap'
        BY <2>0 DEF Saves, OpenTmp, Write, Rename, SaveFails
      <3>4. Answers(q) => overlap' = overlap
        BY DEF Answers, Visit, VisitFails, StopShort, Answer, Done, Fails
      <3> QED
        BY <2>0, <2>1, <3>1, <3>2, <3>3, <3>4 DEF Acts, Die
    <2> QED
      BY <2>1 DEF Next, Acts, Commit, vars
  <1>2. ASSUME NEW q \in Procs, Acts(q), ~Rename(q) PROVE file' = file
    <2>1. Enters(q) => UNCHANGED disk
      BY DEF Enters, OpenSession, Register, Index, Sync, Search, Fleet, Begin
    <2>2. Works(q) => UNCHANGED disk
      BY DEF Works, IndexGraph, GraphFails, Fails, ReadHead, Resolve, Build, RefreshFails, Touch
    <2>3. Answers(q) => UNCHANGED disk
      BY DEF Answers, Visit, VisitFails, StopShort, Answer, Done, Fails
    <2>4. OpenTmp(q) \/ SaveFails(q) => file' = file
      BY DEF OpenTmp, SaveFails, disk
    <2>5. Write(q) => file' = file
      BY <1>1 DEF Write, SaveInv, Saver
    <2> QED
      BY <1>2, <2>1, <2>2, <2>3, <2>4, <2>5 DEF Acts, Saves, Die, disk
  <1>3. ASSUME NEW q \in Procs, Rename(q) PROVE file' = reg[q] /\ ~behind[q]
    BY <1>1, <1>3 DEF Rename, SaveInv, Saver
  <1>4. ASSUME NEW n \in Projects, Commit(n) PROVE file' = file
    BY <1>4 DEF Commit, disk
  <1> QED
    BY <1>1, <1>2, <1>3, <1>4 DEF Next, Acts, vars, disk

\* A process that goes on does not catch up.
LEMMA BehindStays ==
    ASSUME Typed, [Next]_vars, ~overlap', NEW p \in Procs,
           pc[p] # "idle", pc'[p] # "idle", ~behind'[p]
    PROVE  ~behind[p]
  <1>0. behind \in [Procs -> BOOLEAN] /\ pc \in [Procs -> Labels]
    BY DEF Typed, TypeOK
  <1>1. ASSUME NEW q \in Procs, Rename(q) PROVE ~behind[p]
    BY <1>0, <1>1 DEF Rename
  <1>2. ASSUME NEW q \in Procs, Acts(q), ~Rename(q), p # q PROVE ~behind[p]
    BY <1>2, OthersHold
  <1>3. ASSUME End(p) \/ Leave(p) PROVE ~behind[p]
    BY <1>0, <1>3 DEF End, Leave, Goto
  <1>4. ASSUME Acts(p), ~Rename(p) PROVE ~behind[p]
    <2>1. Enters(p) => behind' = behind
      BY DEF Enters, OpenSession, Register, Index, Sync, Search, Fleet, Command
    <2>2. Works(p) => behind' = behind \/ End(p)
      BY DEF Works, IndexGraph, GraphFails, Fails, ReadHead, Resolve, Build, RefreshFails, Touch
    <2>3. Saves(p) => behind' = behind \/ End(p)
      BY <1>4 DEF Saves, OpenTmp, Write, SaveFails
    <2>4. Answers(p) => behind' = behind \/ End(p)
      BY DEF Answers, Visit, VisitFails, StopShort, Answer, Done, Fails
    <2> QED
      BY <1>3, <1>4, <2>1, <2>2, <2>3, <2>4 DEF Acts, Die
  <1>5. ASSUME NEW n \in Projects, Commit(n) PROVE ~behind[p]
    BY <1>5 DEF Commit
  <1> QED
    BY <1>1, <1>2, <1>4, <1>5 DEF Next, Acts, vars

\* The numbers a step deals with.
LEMMA Numbers ==
    ASSUME CoverInv, CurrentInv, [Next]_vars
    PROVE  /\ \A n \in Projects : live[n] \in Nat /\ live'[n] \in Nat /\ live[n] <= live'[n]
           /\ \A q \in Procs, n \in Projects : base[q][n] \in Nat /\ base[q][n] <= live[n]
           /\ Git \subseteq Projects
  BY Forward, RegistryAssumption DEF CoverInv, CurrentInv, Current, Typed, TypeOK, Tree

\* A tree that is as it was has not changed in the step either.
LEMMA StillWas ==
    ASSUME CoverInv, CurrentInv, [Next]_vars, NEW q \in Procs, base'[q] = base[q],
           NEW n \in Projects, Still(q, n)'
    PROVE  Still(q, n) /\ live'[n] = live[n]
  BY Numbers DEF Still

LEMMA EntriesAreTrees ==
    ASSUME NEW r \in Registries, NEW n \in Git \cap DOMAIN r
    PROVE  r[n].head \in Nat /\ r[n] = [head |-> r[n].head, zoekt |-> r[n].zoekt]
  BY RegistryAssumption, DomainOf DEF Entry, Tree

LEMMA TouchedEntries ==
    ASSUME Typed, NEW p \in Procs
    PROVE  /\ DOMAIN Touched(p) = DOMAIN reg[p]
           /\ \A n \in DOMAIN reg[p] : Touched(p)[n] =
                 IF n = This(p) THEN [head |-> live[n], zoekt |-> zhead[p]] ELSE reg[p][n]
  <1>1. reg[p] \in Registries
    BY DEF Typed, TypeOK
  <1> QED
    BY <1>1 DEF Touched, Registries

LEMMA OrderedStep ==
    ASSUME AllInv, [Next]_vars, ~overlap'
    PROVE  Ordered(Content(file))' /\ \A p \in Procs : Ordered(reg[p])'
  <1> DEFINE Good(r) == \A n \in Git \cap DOMAIN r : r[n].zoekt <= r[n].head /\ r[n].head <= live'[n]
  <1>0. /\ Typed /\ ~overlap /\ Content(file) \in Registries
        /\ \A p \in Procs : reg[p] \in Registries /\ Ordered(reg[p])
        /\ Ordered(Content(file))
    BY FileSource, ContentIsRegistry DEF AllInv, CoverInv, ConvergeInv, Typed, TypeOK
  <1>1. \A r \in Registries : Ordered(r) => Good(r)
    BY Numbers, EntriesAreTrees DEF AllInv, Ordered
  <1>2. Good(Nothing)
    BY DEF Nothing
  <1>3. ASSUME NEW p \in Procs PROVE Good(reg'[p])
    <2>1. ASSUME NEW n \in Projects, reg'[p] = Registered(n) PROVE Good(reg'[p])
      <3>1. /\ DOMAIN reg'[p] = DOMAIN Content(file) \cup {n}
            /\ \A m \in DOMAIN reg'[p] : reg'[p][m] = IF m = n THEN New ELSE Content(file)[m]
        BY <2>1 DEF Registered
      <3>2. New.zoekt = 0 /\ New.head = 0 /\ \A m \in Git : 0 <= live'[m]
        BY Numbers DEF AllInv, New
      <3>3. Good(Content(file))
        BY <1>0, <1>1
      <3> QED
        BY <3>1, <3>2, <3>3
    <2>2. ASSUME Touch(p), reg'[p] = Touched(p) PROVE Good(reg'[p])
      <3>1. This(p) \in Git => zhead[p] <= live[This(p)]
        <4>1. todo[p] # {} /\ pc[p] = "touch" /\ This(p) \in Projects
          BY <1>0, <2>2, ThisIsTodo DEF Touch, Typed, TodoInv, OnProject
        <4>2. This(p) \in Git => zhead[p] \in 0..live[This(p)]
          BY <4>1 DEF AllInv, CoverInv, HeadInv, HeadOf
        <4> QED
          BY <4>1, <4>2, Forward DEF AllInv, CoverInv, HeadInv
      <3>2. live' = live
        BY <2>2 DEF Touch, trees
      <3>3. Good(reg[p])
        BY <1>0, <1>1
      <3>4. \A n \in Git : live[n] <= live[n]
        BY Numbers DEF AllInv
      <3>5. DOMAIN reg'[p] = DOMAIN reg[p]
        BY <1>0, <2>2, TouchedEntries
      <3>6. ASSUME NEW n \in Git \cap DOMAIN reg[p]
            PROVE  reg'[p][n].zoekt <= reg'[p][n].head /\ reg'[p][n].head <= live'[n]
        <4>1. CASE n = This(p)
          <5>1. reg'[p][n] = [head |-> live[n], zoekt |-> zhead[p]]
            BY <1>0, <2>2, <4>1, TouchedEntries
          <5>2. reg'[p][n].head = live[n] /\ reg'[p][n].zoekt = zhead[p]
            BY <5>1
          <5> QED
            BY <3>1, <3>2, <3>4, <4>1, <5>2
        <4>2. CASE n # This(p)
          <5>1. reg'[p][n] = reg[p][n]
            BY <1>0, <2>2, <4>2, TouchedEntries
          <5> QED
            BY <3>3, <5>1
        <4> QED
          BY <4>1, <4>2
      <3> QED
        BY <3>5, <3>6
    <2> QED
      BY <1>0, <1>1, <1>2, <2>1, <2>2, RegistrySource
  <1>4. Good(Content(file'))
    <2>1. CASE file' = file
      BY <1>0, <1>1, <2>1
    <2>2. ASSUME NEW q \in Procs, file' = reg[q] PROVE Good(Content(file'))
      <3>1. Content(file') = reg[q]
        BY <1>0, <2>2, RegistryAssumption DEF Content
      <3> QED
        BY <1>0, <1>1, <3>1
    <2> QED
      BY <2>1, <2>2, FileSource DEF AllInv, CoverInv
  <1> QED
    BY <1>3, <1>4 DEF Ordered, Content, Nothing

\* A step that leaves a command's frame as it is, or only moves it on.
LEMMA WorkingKept ==
    ASSUME AllInv, [Next]_vars, NEW q \in Procs, Working(q),
           UNCHANGED <<op[q], asked[q], todo[q], base[q], reg[q]>>,
           pc'[q] = pc[q] /\ zhead'[q] = zhead[q]
    PROVE  Working(q)'
  <1>1. This(q)' = This(q)
    BY DEF This
  <1>2. \A n \in Projects : Still(q, n)' => Still(q, n) /\ live'[n] = live[n]
    BY StillWas DEF AllInv
  <1>3. asked[q] \subseteq Projects /\ Git \subseteq Projects
    BY RegistryAssumption DEF AllInv, CoverInv, Typed, TypeOK
  <1>4. \A n \in Projects : Still(q, n)' /\ FreshIn(reg[q], n) => FreshIn(reg[q], n)'
    BY <1>2 DEF FreshIn
  <1> QED
    BY <1>1, <1>2, <1>3, <1>4 DEF Working, Syncing

LEMMA WorkingStep ==
    ASSUME AllInv, [Next]_vars, ~overlap', NEW q \in Procs
    PROVE  Working(q)'
  <1> USE DEF Goto
  <1>0. /\ Typed /\ TypeOK /\ ~overlap /\ Working(q) /\ Ordered(reg[q])
        /\ asked[q] \subseteq Projects /\ Git \subseteq Projects /\ reg[q] \in Registries
    BY FileSource, RegistryAssumption DEF AllInv, CoverInv, ConvergeInv, Typed, TypeOK
  <1>1. ASSUME NEW p \in Procs, Acts(p), p # q PROVE Working(q)'
    BY <1>0, <1>1, OthersKeep, OthersRegistry, WorkingKept
  <1>2. ASSUME NEW n \in Projects, Commit(n) PROVE Working(q)'
    BY <1>0, <1>2, WorkingKept DEF Commit, frame
  <1>3. CASE UNCHANGED vars
    BY <1>0, <1>3, WorkingKept DEF vars, frame
  <1>4. ASSUME End(q) \/ Leave(q) PROVE Working(q)'
    <2>1. op'[q] = None
      BY <1>0, <1>4 DEF End, Leave, Reset, TypeOK
    <2> QED
      BY <2>1, RegistryAssumption DEF Working, Syncing
  <1>5. ASSUME ~Syncing(q)' PROVE Working(q)'
    BY <1>5 DEF Working
  <1>6. ASSUME Enters(q), Syncing(q)' PROVE Working(q)'
    <2>1. ASSUME NEW o, NEW S, NEW l, Begin(q, o, S, l) PROVE op'[q] = o
      BY <1>0, <2>1 DEF Begin, TypeOK
    <2>2. CASE OpenSession(q)
      <3>1. op' = op /\ q \in Sessions
        BY <2>2 DEF OpenSession, frame
      <3> QED
        BY <1>0, <1>6, <3>1 DEF Working, Syncing
    <2>3. CASE Index(q) \/ Sync(q)
      <3>1. q \notin Sessions
        BY <2>3 DEF Index, Sync, Command
      <3>2. PICK o \in {"index", "sync", "clean"}, S \in SUBSET DOMAIN reg'[q] :
               \E l \in {"graph", "told"} : Begin(q, o, S, l) /\ (o \in {"index", "sync"} => l = "graph")
        <4>1. CASE Index(q)
          BY <4>1 DEF Index
        <4>2. CASE Sync(q)
          <5>1. PICK S \in SUBSET DOMAIN reg'[q] :
                  LET clean == {n \in S : syncFresh(n, reg'[q][n])} IN
                  \/ clean # S /\ Begin(q, "sync", S \ clean, "graph")
                  \/ clean = S /\ Begin(q, "clean", S, "told")
            BY <4>2 DEF Sync
          <5>2. \A T : S \ T \in SUBSET DOMAIN reg'[q]
            OBVIOUS
          <5> QED
            BY <5>1, <5>2
        <4> QED
          BY <2>3, <4>1, <4>2
      <3>3. o \in {"index", "sync"}
        BY <1>6, <2>1, <3>2 DEF Syncing
      <3>4. asked'[q] = S /\ todo'[q] = S /\ pc'[q] = "graph"
        BY <1>0, <3>2, <3>3 DEF Begin, TypeOK
      <3> QED
        BY <3>1, <3>2, <3>4 DEF Working, OnProject
    <2>4. ASSUME NEW n \in Projects, Register(q, n) \/ Search(q, n) PROVE Working(q)'
      BY <1>6, <2>1, <2>4 DEF Register, Search, Syncing
    <2>5. CASE Fleet(q)
      BY <1>6, <2>1, <2>5 DEF Fleet, Syncing
    <2> QED
      BY <1>6, <2>2, <2>3, <2>4, <2>5 DEF Enters
  <1>7. ASSUME Syncing(q), pc[q] \in OnProject
        PROVE  /\ This(q) \in todo[q] /\ This(q) \in Projects /\ q \notin Sessions
               /\ asked[q] \subseteq DOMAIN reg[q] /\ todo[q] \subseteq asked[q]
               /\ This(q) \in DOMAIN reg[q]
               /\ \A n \in (asked[q] \ todo[q]) \cap Git : Still(q, n) => FreshIn(reg[q], n)
    BY <1>0, <1>7, ThisIsTodo DEF Working, Typed, TypeOK, TodoInv
  <1>8. ASSUME Works(q), Syncing(q)' PROVE Working(q)'
    <2>1. CASE IndexGraph(q) \/ ReadHead(q) \/ Resolve(q) \/ Build(q)
      <3>1. /\ UNCHANGED <<op, asked, todo, base, reg, live>>
            /\ pc[q] \in {"graph", "head", "resolve", "build"}
        BY <2>1 DEF IndexGraph, ReadHead, Resolve, Build, frame, trees
      <3>2. This(q)' = This(q)
        BY <3>1 DEF This
      <3>3. /\ pc'[q] \in {"head", "resolve", "build", "touch"}
            /\ pc'[q] = "resolve" => ReadHead(q)
            /\ pc'[q] \in {"build", "touch"} => pc[q] \in {"resolve", "build"} /\ zhead' = zhead
        BY <1>0, <2>1 DEF IndexGraph, ReadHead, Resolve, Build, frame, TypeOK
      <3>4. ReadHead(q) /\ This(q) \in Git => zhead'[q] = live[This(q)]
        BY <1>0 DEF ReadHead, TypeOK
      <3> QED
        BY <1>0, <1>7, <1>8, <3>1, <3>2, <3>3, <3>4 DEF Working, Syncing, FreshIn, Still, OnProject
    <2>2. CASE RefreshFails(q)
      <3>1. ~Fails(q) => op' = op /\ op[q] \in {"fleet", "search"}
        BY <2>2 DEF RefreshFails
      <3> QED
        BY <1>4, <1>8, <3>1 DEF Fails, Syncing
    <2>3. CASE Touch(q)
      <3>1. /\ UNCHANGED <<op, asked, base, live>> /\ pc[q] = "touch" /\ Refreshed(q) /\ Syncing(q)
        BY <1>8, <2>3 DEF Touch, Syncing, trees
      <3>2. reg'[q] \in {reg[q], Touched(q)} /\ (reg'[q] = reg[q] => Touched(q) = reg[q] \/ zhead[q] = reg[q][This(q)].zoekt)
        BY <1>0, <2>3 DEF Touch, Touched, TypeOK
      <3>3. /\ DOMAIN reg'[q] = DOMAIN reg[q]
            /\ \A n \in DOMAIN reg[q] \ {This(q)} : reg'[q][n] = reg[q][n]
        BY <1>0, <3>2, TouchedEntries
      <3>4. \A n \in (asked[q] \ todo[q]) \cap Git : Still(q, n) => FreshIn(reg[q], n)'
        BY <1>7, <3>1, <3>3 DEF FreshIn, OnProject
      <3>5. This(q) \in Git /\ Still(q, This(q)) => FreshIn(reg'[q], This(q))
        <4> SUFFICES ASSUME This(q) \in Git, Still(q, This(q)) PROVE FreshIn(reg'[q], This(q))
          OBVIOUS
        <4>0. pc[q] = "touch" /\ pc[q] \in OnProject /\ Syncing(q)
          BY <3>1 DEF OnProject
        <4>1. zhead[q] = live[This(q)] /\ This(q) \in DOMAIN reg[q]
          <5>1. zhead[q] = live[This(q)]
            BY <1>0, <4>0 DEF Working
          <5> QED
            BY <1>7, <4>0, <5>1
        <4>2. CASE reg'[q] = Touched(q)
          <5>1. /\ DOMAIN Touched(q) = DOMAIN reg[q]
                /\ Touched(q)[This(q)] = [head |-> live[This(q)], zoekt |-> zhead[q]]
            BY <1>0, <4>1, TouchedEntries
          <5>2. Touched(q)[This(q)].head = live[This(q)] /\ Touched(q)[This(q)].zoekt = zhead[q]
            BY <5>1
          <5> QED
            BY <4>1, <4>2, <5>1, <5>2 DEF FreshIn
        <4>3. CASE reg'[q] = reg[q] /\ zhead[q] = reg[q][This(q)].zoekt
          <5>1. /\ live[This(q)] <= reg[q][This(q)].head /\ reg[q][This(q)].head <= live[This(q)]
                /\ live[This(q)] \in Nat /\ reg[q][This(q)].head \in Nat
            BY <1>0, <4>1, <4>3, Numbers, EntriesAreTrees DEF Ordered, AllInv
          <5>2. live[This(q)] = reg[q][This(q)].head
            BY <5>1
          <5> QED
            BY <4>1, <4>3, <5>2 DEF FreshIn
        <4> QED
          BY <3>2, <4>2, <4>3
      <3>6. CASE todo[q] = {This(q)}
        <4>1. pc'[q] = "open" /\ todo' = todo
          BY <1>0, <3>1, <3>6 DEF Refreshed, TypeOK
        <4>2. This(q)' = This(q)
          BY <4>1 DEF This
        <4> QED
          BY <1>7, <3>1, <3>3, <3>4, <3>5, <3>6, <4>1, <4>2 DEF Working, Syncing, OnProject, Still,
             FreshIn
      <3>7. CASE todo[q] # {This(q)}
        <4>1. pc'[q] = "graph" /\ todo'[q] = todo[q] \ {This(q)}
          BY <1>0, <1>7, <3>1, <3>7 DEF Refreshed, Advance, PassOver, TypeOK, Syncing, OnProject
        <4> QED
          BY <1>7, <3>1, <3>3, <3>4, <3>5, <4>1 DEF Working, Syncing, OnProject, Still, FreshIn
      <3> QED
        BY <3>6, <3>7
    <2> QED
      BY <1>4, <1>8, <2>1, <2>2, <2>3 DEF Works, GraphFails, Fails
  <1>9. ASSUME Saves(q), Syncing(q)' PROVE Working(q)'
    <2>1. CASE OpenTmp(q) \/ Write(q)
      <3>1. /\ UNCHANGED <<op, asked, todo, base, reg, live>>
            /\ pc[q] \in {"open", "write"} /\ pc'[q] \in {"write", "rename"}
        BY <1>0, <2>1 DEF OpenTmp, Write, frame, trees, TypeOK
      <3>2. This(q)' = This(q)
        BY <3>1 DEF This
      <3> QED
        BY <1>0, <1>9, <3>1, <3>2 DEF Working, Syncing, FreshIn, Still, OnProject
    <2>2. CASE Rename(q)
      <3>1. /\ UNCHANGED <<op, asked, base, reg, live>> /\ pc[q] = "rename" /\ Syncing(q)
            /\ \E D : Advance(q, D)
        BY <1>9, <2>2 DEF Rename, Syncing, trees
      <3>2. todo[q] = {This(q)}
        BY <1>0, <3>1 DEF Working
      <3>3. pc'[q] = "told"
        BY <1>0, <3>1, <3>2 DEF Advance, Syncing, TypeOK
      <3> QED
        BY <1>0, <3>1, <3>3 DEF Working, Syncing, OnProject
    <2>3. CASE SaveFails(q)
      <3>1. ~End(q) => \/ op' = op /\ q \in Sessions
                       \/ op' = [op EXCEPT ![q] = "unsaved"]
        BY <2>3 DEF SaveFails
      <3>2. op' # [op EXCEPT ![q] = "unsaved"]
        BY <1>0, <1>9 DEF Syncing, TypeOK
      <3> QED
        BY <1>0, <1>4, <1>9, <3>1, <3>2 DEF Working, Syncing
    <2> QED
      BY <1>9, <2>1, <2>2, <2>3 DEF Saves
  <1>10. ASSUME Answers(q), Syncing(q)' PROVE Working(q)'
    <2>1. CASE Done(q)
      BY <1>4, <2>1 DEF Done, Fails
    <2>2. CASE ~Done(q)
      <3>1. op' = op /\ pc[q] = "walk"
        BY <1>10, <2>2 DEF Answers, Visit, VisitFails, StopShort, Answer, frame
      <3> QED
        BY <1>0, <1>10, <3>1 DEF Working, Syncing, OnProject
    <2> QED
      BY <2>1, <2>2
  <1>11. ASSUME Acts(q) PROVE Working(q)'
    BY <1>4, <1>5, <1>6, <1>8, <1>9, <1>10, <1>11 DEF Acts, Die
  <1> QED
    BY <1>1, <1>2, <1>3, <1>11 DEF Next, Acts

\* Whoever has a project fresh, or loads a file that has, keeps it fresh while
\* its tree stays as it is.
LEMMA FreshStep ==
    ASSUME AllInv, [Next]_vars, ~overlap', NEW p \in Procs, NEW n \in Git,
           live'[n] = live[n], FreshIn(Content(file), n), HasFresh(p, n)
    PROVE  HasFresh(p, n)'
  <1>0. Typed /\ reg[p] \in Registries /\ pc \in [Procs -> Labels]
    BY DEF AllInv, CoverInv, Typed, TypeOK
  <1> SUFFICES ASSUME pc'[p] # "idle", ~behind'[p]
               PROVE  /\ FreshIn(reg'[p], n)
                      /\ pc'[p] \in {"resolve", "build", "touch"} /\ This(p)' = n => zhead'[p] = live[n]
    BY DEF HasFresh, FreshIn
  <1>1. ASSUME pc[p] # "idle"
        PROVE  FreshIn(reg[p], n) /\ (pc[p] \in {"resolve", "build", "touch"} /\ This(p) = n => zhead[p] = live[n])
    BY <1>0, <1>1, BehindStays DEF HasFresh
  <1>2. FreshIn(reg'[p], n)
    <2>1. CASE reg'[p] = reg[p] /\ (pc'[p] # "idle" => pc[p] # "idle")
      BY <1>1, <2>1
    <2>2. CASE reg'[p] = Content(file)
      BY <2>2
    <2>3. ASSUME NEW m \in Projects \ DOMAIN Content(file), reg'[p] = Registered(m)
          PROVE  FreshIn(reg'[p], n)
      <3>1. n \in DOMAIN Registered(m) /\ Registered(m)[n] = Content(file)[n]
        BY DEF FreshIn, Registered
      <3> QED
        BY <2>3, <3>1 DEF FreshIn
    <2>4. CASE Touch(p) /\ reg'[p] = Touched(p)
      <3>1. pc[p] = "touch"
        BY <2>4 DEF Touch
      <3>2. FreshIn(reg[p], n) /\ (This(p) = n => zhead[p] = live[n])
        BY <1>1, <3>1
      <3>3. /\ DOMAIN Touched(p) = DOMAIN reg[p] /\ n \in DOMAIN reg[p]
            /\ Touched(p)[n] = IF n = This(p) THEN [head |-> live[n], zoekt |-> live[n]] ELSE reg[p][n]
        BY <1>0, <3>2, TouchedEntries DEF FreshIn
      <3>4. Touched(p)[n].head = live[n] /\ Touched(p)[n].zoekt = live[n]
        BY <3>2, <3>3 DEF FreshIn
      <3> QED
        BY <2>4, <3>3, <3>4 DEF FreshIn
    <2> QED
      BY <1>0, <2>1, <2>2, <2>3, <2>4, RegistrySource
  <1>3. ASSUME pc'[p] \in {"resolve", "build", "touch"}, This(p)' = n PROVE zhead'[p] = live[n]
    <2>1. CASE pc'[p] = pc[p] /\ todo'[p] = todo[p] /\ zhead'[p] = zhead[p]
      <3>1. This(p)' = This(p)
        BY <2>1 DEF This
      <3> QED
        BY <1>1, <1>3, <2>1, <3>1
    <2>2. CASE ReadHead(p)
      <3>1. This(p)' = This(p)
        BY <2>2 DEF ReadHead, This
      <3> QED
        BY <1>0, <1>3, <2>2, <3>1 DEF ReadHead, Typed, TypeOK
    <2>3. CASE Resolve(p) \/ Build(p)
      <3>1. This(p)' = This(p) /\ zhead' = zhead /\ pc[p] \in {"resolve", "build"}
        BY <2>3 DEF Resolve, Build, This
      <3> QED
        BY <1>1, <1>3, <3>1
    <2> QED
      BY <1>3, <2>1, <2>2, <2>3, HeadKept DEF AllInv
  <1> QED
    BY <1>2, <1>3

\* An index or a sync tells when it has saved, and then stays as it is.
LEMMA Tells ==
    ASSUME AllInv, [Next]_vars, ~overlap', NEW q \in Procs, Syncing(q)', pc'[q] = "told"
    PROVE  \/ Rename(q)
           \/ UNCHANGED <<op[q], asked[q], base[q]>> /\ pc[q] = "told"
  <1> USE DEF Goto
  <1>0. /\ Typed /\ TypeOK /\ Working(q)
    BY FileSource DEF AllInv, CoverInv, ConvergeInv, Typed
  <1>1. ASSUME NEW p \in Procs, Acts(p), p # q
        PROVE  UNCHANGED <<op[q], asked[q], base[q]>> /\ pc[q] = "told"
    BY <1>0, <1>1, OthersKeep
  <1>2. ~(End(q) \/ Leave(q))
    BY <1>0 DEF End, Leave, TypeOK
  <1>3. ~Enters(q)
    <2>1. ASSUME NEW o, NEW S, NEW l, Begin(q, o, S, l) PROVE l = "told" /\ o \in {"index", "sync"}
      BY <1>0, <2>1 DEF Begin, Syncing, TypeOK
    <2>2. ~OpenSession(q)
      BY <1>0 DEF OpenSession, TypeOK
    <2>3. \A n \in Projects : ~Register(q, n) /\ ~Search(q, n)
      BY <2>1 DEF Register, Search
    <2>4. ~Index(q)
      BY <2>1 DEF Index
    <2>5. ~Sync(q)
      <3>1. ASSUME Sync(q)
            PROVE  \E S, T : Begin(q, "sync", S, "graph") \/ Begin(q, "clean", T, "told")
        BY <3>1 DEF Sync
      <3>2. \A S : ~Begin(q, "sync", S, "graph") /\ ~Begin(q, "clean", S, "told")
        BY <2>1
      <3> QED
        BY <3>1, <3>2
    <2>6. ~Fleet(q)
      BY <2>1 DEF Fleet
    <2> QED
      BY <2>2, <2>3, <2>4, <2>5, <2>6 DEF Enters
  <1>4. ASSUME Works(q) PROVE FALSE
    <2>1. pc[q] \in OnProject /\ op'[q] = op[q] /\ q \notin Sessions
      <3>1. op' = op /\ pc[q] \in OnProject
        BY <1>2, <1>4 DEF Works, IndexGraph, GraphFails, Fails, ReadHead, Resolve, Build, RefreshFails,
           Touch, frame, OnProject
      <3> QED
        BY <1>0, <3>1 DEF Working, Syncing
    <2>2. ~RefreshFails(q)
      BY <1>2, <2>1 DEF RefreshFails, Fails, Syncing
    <2>3. ~Touch(q)
      BY <1>0, <2>1 DEF Touch, Refreshed, Advance, TypeOK, Syncing
    <2> QED
      BY <1>0, <1>2, <1>4, <2>2, <2>3 DEF Works, IndexGraph, GraphFails, Fails, ReadHead, Resolve,
         Build, TypeOK
  <1>5. ASSUME Saves(q) PROVE Rename(q)
    <2>1. ~OpenTmp(q) /\ ~Write(q)
      BY <1>0 DEF OpenTmp, Write, TypeOK
    <2>2. ~SaveFails(q)
      <3>1. SaveFails(q) => \/ q \in Sessions /\ op' = op
                            \/ op' = [op EXCEPT ![q] = "unsaved"]
        BY <1>2 DEF SaveFails
      <3>2. op' # [op EXCEPT ![q] = "unsaved"]
        BY <1>0 DEF Syncing, TypeOK
      <3> QED
        BY <1>0, <3>1, <3>2 DEF Working, Syncing
    <2> QED
      BY <1>5, <2>1, <2>2 DEF Saves
  <1>6. ~Answers(q)
    <2>1. Answers(q) => op' = op /\ pc[q] = "walk"
      BY <1>2 DEF Answers, Visit, VisitFails, StopShort, Answer, Done, Fails, frame
    <2> QED
      BY <1>0, <2>1 DEF Working, Syncing, OnProject
  <1>7. ~Die(q)
    BY <1>2 DEF Die
  <1>8. ASSUME NEW n \in Projects, Commit(n)
        PROVE UNCHANGED <<op[q], asked[q], base[q]>> /\ pc[q] = "told"
    BY <1>8 DEF Commit, frame
  <1>9. CASE UNCHANGED vars
    BY <1>9 DEF vars, frame
  <1> QED
    BY <1>1, <1>3, <1>4, <1>5, <1>6, <1>7, <1>8, <1>9 DEF Next, Acts

LEMMA ToldStep ==
    ASSUME AllInv, [Next]_vars, ~overlap', NEW q \in Procs
    PROVE  Told(q)'
  <1>0. /\ Typed /\ TypeOK /\ Working(q) /\ Told(q) /\ Git \subseteq Projects
        /\ \A p \in Procs : reg[p] \in Registries
    BY FileSource, RegistryAssumption DEF AllInv, CoverInv, ConvergeInv, Typed, TypeOK
  <1> SUFFICES ASSUME Syncing(q)', pc'[q] = "told", NEW n \in asked'[q] \cap Git, Still(q, n)'
               PROVE  FreshIn(Content(file), n)' /\ \A p \in Procs : HasFresh(p, n)'
    BY DEF Told
  <1>1. CASE UNCHANGED <<op[q], asked[q], base[q]>> /\ pc[q] = "told"
    <2>1. Still(q, n) /\ live'[n] = live[n]
      BY <1>0, <1>1, StillWas DEF AllInv
    <2>2. FreshIn(Content(file), n) /\ \A p \in Procs : HasFresh(p, n)
      BY <1>0, <1>1, <2>1 DEF Told, Syncing
    <2>3. FreshIn(Content(file), n)'
      <3>1. CASE file' = file
        BY <2>1, <2>2, <3>1 DEF FreshIn, Content
      <3>2. ASSUME NEW p \in Procs, Rename(p), file' = reg[p], ~behind[p]
            PROVE FreshIn(Content(file), n)'
        <4>1. FreshIn(reg[p], n)
          BY <2>2, <3>2 DEF HasFresh, Rename
        <4>2. Content(file)' = reg[p]
          BY <1>0, <3>2, RegistryAssumption DEF Content
        <4> QED
          BY <2>1, <4>1, <4>2 DEF FreshIn
      <3> QED
        BY <1>0, <3>1, <3>2, FileSource DEF AllInv
    <2>4. ASSUME NEW p \in Procs PROVE HasFresh(p, n)'
      BY <2>1, <2>2, FreshStep
    <2> QED
      BY <2>3, <2>4
  <1>2. CASE Rename(q)
    <2>1. /\ pc[q] = "rename" /\ UNCHANGED <<op, asked, base, reg, live>>
          /\ behind' = [p \in Procs |-> p # q /\ pc[p] # "idle"]
          /\ file' = tmp
      BY <1>2 DEF Rename, trees
    <2>2. FreshIn(reg[q], n)
      <3>1. /\ Syncing(q) /\ pc[q] \in OnProject /\ Still(q, n) /\ n \in asked[q] \cap Git
        BY <2>1 DEF Syncing, OnProject, Still
      <3>2. CASE n \in todo[q]
        BY <1>0, <2>1, <3>1, <3>2 DEF Working
      <3>3. CASE n \notin todo[q]
        BY <1>0, <3>1, <3>3 DEF Working
      <3> QED
        BY <3>2, <3>3
    <2>3. FreshIn(Content(file), n)'
      <3>1. file' = reg[q]
        BY <1>0, <2>1, FileSource DEF AllInv, SaveInv, Saver
      <3>2. Content(file)' = reg[q]
        BY <1>0, <3>1, RegistryAssumption DEF Content
      <3> QED
        BY <2>1, <2>2, <3>2 DEF FreshIn
    <2>4. ASSUME NEW p \in Procs PROVE HasFresh(p, n)'
      <3>1. CASE p = q
        BY <2>1, <2>2, <3>1 DEF HasFresh, FreshIn
      <3>2. CASE p # q /\ pc[p] # "idle"
        BY <2>1, <3>2 DEF HasFresh
      <3>3. CASE p # q /\ pc[p] = "idle"
        <4>1. pc'[p] = "idle"
          BY <1>0, <1>2, <3>3, OthersKeep DEF Acts, Saves
        <4> QED
          BY <4>1 DEF HasFresh
      <3> QED
        BY <3>1, <3>2, <3>3
    <2> QED
      BY <2>3, <2>4
  <1> QED
    BY <1>1, <1>2, Tells

LEMMA ConvergeInit == Init => ConvergeInv
  <1> SUFFICES ASSUME Init PROVE ConvergeInv
    OBVIOUS
  <1>1. Ordered(Nothing)
    BY DEF Ordered, Nothing
  <1>2. Content(file) = Nothing /\ \A q \in Procs : reg[q] = Nothing /\ op[q] = None
    BY DEF Init, Content
  <1>3. \A q \in Procs : ~Syncing(q)
    BY <1>2, RegistryAssumption DEF Syncing
  <1> QED
    BY <1>1, <1>2, <1>3 DEF ConvergeInv, Working, Told

LEMMA AllStep == AllInv /\ [Next]_vars => AllInv'
  <1> SUFFICES ASSUME AllInv, [Next]_vars PROVE AllInv'
    OBVIOUS
  <1>1. CoverInv'
    BY CoverStep DEF AllInv
  <1>2. CurrentInv'
    BY CurrentStep DEF AllInv
  <1>3. SaveInv'
    BY SaveStep DEF AllInv, CoverInv
  <1>4. ASSUME ~overlap' PROVE ConvergeInv'
    BY <1>4, OrderedStep, WorkingStep, ToldStep DEF ConvergeInv
  <1>5. ASSUME overlap' PROVE ConvergeInv'
    BY <1>5 DEF ConvergeInv
  <1> QED
    BY <1>1, <1>2, <1>3, <1>4, <1>5 DEF AllInv

\* What an index or a sync leaves behind the next sync finds clean, if nobody
\* commits meanwhile.
THEOREM SyncsConverge == Spec => []SyncConverges
  <1>1. Init => AllInv
    BY CoverInit, CurrentInit, SaveInit, ConvergeInit DEF AllInv
  <1>2. AllInv => SyncConverges
    <2> SUFFICES ASSUME AllInv, ~overlap, NEW q \in Procs, pc[q] = "told", Syncing(q),
                        NEW n \in asked[q] \cap Git, Still(q, n)
                 PROVE  n \in Known(file) /\ syncFresh(n, file[n])
      BY DEF SyncConverges, Syncing, Still
    <2>1. FreshIn(Content(file), n)
      BY DEF AllInv, ConvergeInv, Told
    <2>2. n \in DOMAIN Content(file)
      BY <2>1 DEF FreshIn
    <2>3. Content(file) = file
      BY <2>2 DEF Content, Nothing
    <2> QED
      BY <2>1, <2>2, <2>3 DEF FreshIn, Known, syncFresh
  <1> QED
    BY <1>1, <1>2, AllStep, PTL DEF Spec

-----------------------------------------------------------------------------
(* Sums over sets of projects. SumFunctionOnSet is a recursive function    *)
(* over subsets: that there is one is shown with a smallest subset for     *)
(* which there is none.                                                    *)
Sum(S) == SumFunctionOnSet(Hits, S)
Any(S) == CHOOSE n \in S : TRUE
Rest(S) == S \ {Any(S)}
Step(S, f) == [s \in SUBSET S |-> IF s = {} THEN 0 ELSE Hits[Any(s)] + f[Rest(s)]]
Iter(S) == CHOOSE f : f = Step(S, f)

LEMMA SumIsIter == ASSUME NEW S PROVE Sum(S) = Iter(S)[S]
  BY DEF Sum, SumFunctionOnSet, FoldFunctionOnSet, MapThenFoldSet, Iter, Step, Rest, Any

LEMMA AnyIsOne == ASSUME NEW S, S # {} PROVE Any(S) \in S /\ Rest(S) \subseteq S /\ Rest(S) # S
  BY DEF Any, Rest

\* What is so of no set of projects smaller than one is so of none.
LEMMA Smallest ==
    ASSUME NEW B \in SUBSET SUBSET Projects, B # {}
    PROVE  \E T \in B : \A U \in SUBSET T : U # T => U \notin B
  <1>1. IsFiniteSet(Projects)
    BY RegistryAssumption
  <1>2. IsWellFoundedOn(StrictSubsetOrdering(Projects), SUBSET Projects)
    BY <1>1, FS_StrictSubsetOrderingWellFounded, FS_FiniteSubsetsOfFinite
  <1>3. PICK T \in B : \A U \in B : <<U, T>> \notin StrictSubsetOrdering(Projects)
    BY <1>2, WFMin
  <1>4. \A U \in B : U \subseteq T => U = T
    BY <1>3 DEF StrictSubsetOrdering
  <1> QED
    BY <1>4

LEMMA StepsAgree ==
    ASSUME NEW S \in SUBSET Projects, NEW T \in SUBSET Projects, NEW f, NEW g,
           f = Step(S, f), g = Step(T, g)
    PROVE  \A s \in SUBSET (S \cap T) : f[s] = g[s]
  <1> DEFINE B == {s \in SUBSET (S \cap T) : f[s] # g[s]}
  <1> SUFFICES ASSUME B # {} PROVE FALSE
    OBVIOUS
  <1>1. PICK s \in B : \A u \in SUBSET s : u # s => u \notin B
    <2>1. B \in SUBSET SUBSET Projects
      OBVIOUS
    <2> HIDE DEF B
    <2> QED
      BY <2>1, Smallest
  <1>2. /\ f[s] = IF s = {} THEN 0 ELSE Hits[Any(s)] + f[Rest(s)]
        /\ g[s] = IF s = {} THEN 0 ELSE Hits[Any(s)] + g[Rest(s)]
    <2>1. s \in SUBSET S /\ s \in SUBSET T
      OBVIOUS
    <2> QED
      BY <2>1 DEF Step
  <1>3. s # {}
    BY <1>2
  <1>4. Rest(s) \notin B
    BY <1>1, <1>3, AnyIsOne
  <1>5. f[Rest(s)] = g[Rest(s)]
    BY <1>3, <1>4, AnyIsOne
  <1> QED
    BY <1>2, <1>3, <1>5

LEMMA StepExists == \A S \in SUBSET Projects : \E f : f = Step(S, f)
  <1> DEFINE B == {S \in SUBSET Projects : ~\E f : f = Step(S, f)}
  <1> SUFFICES ASSUME B # {} PROVE FALSE
    OBVIOUS
  <1>1. PICK T \in B : \A u \in SUBSET T : u # T => u \notin B
    <2>1. B \in SUBSET SUBSET Projects
      OBVIOUS
    <2> HIDE DEF B
    <2> QED
      BY <2>1, Smallest
  <1>2. \A u \in SUBSET T : u # T => Iter(u) = Step(u, Iter(u))
    BY <1>1 DEF Iter
  <1> DEFINE g == [s \in SUBSET T |-> IF s = {} THEN 0 ELSE Hits[Any(s)] + Iter(Rest(s))[Rest(s)]]
  <1>3. ASSUME NEW s \in SUBSET T, s # {} PROVE Iter(Rest(s))[Rest(s)] = g[Rest(s)]
    <2> DEFINE u == Rest(s)
    <2>1. u \in SUBSET T /\ u # T
      BY <1>3, AnyIsOne
    <2>2. Iter(u)[u] = IF u = {} THEN 0 ELSE Hits[Any(u)] + Iter(u)[Rest(u)]
      <3>1. Iter(u) = Step(u, Iter(u))
        BY <1>2, <2>1
      <3>2. u \in SUBSET u
        OBVIOUS
      <3> HIDE DEF u
      <3> QED
        BY <3>1, <3>2 DEF Step
    <2>3. u # {} => Iter(u)[Rest(u)] = Iter(Rest(u))[Rest(u)]
      <3> SUFFICES ASSUME u # {} PROVE Iter(u)[Rest(u)] = Iter(Rest(u))[Rest(u)]
        OBVIOUS
      <3> HIDE DEF u
      <3>1. Rest(u) \in SUBSET u /\ Rest(u) # T
        BY <2>1, AnyIsOne
      <3>2. Iter(u) = Step(u, Iter(u)) /\ Iter(Rest(u)) = Step(Rest(u), Iter(Rest(u)))
        BY <1>2, <2>1, <3>1
      <3>3. u \in SUBSET Projects /\ Rest(u) \in SUBSET Projects /\ Rest(u) \in SUBSET (u \cap Rest(u))
        BY <2>1, <3>1
      <3> QED
        BY <3>2, <3>3, StepsAgree
    <2>4. g[u] = IF u = {} THEN 0 ELSE Hits[Any(u)] + Iter(Rest(u))[Rest(u)]
      BY <2>1
    <2> QED
      BY <2>2, <2>3, <2>4
  <1>4. g = Step(T, g)
    BY <1>3 DEF Step
  <1> QED
    BY <1>4

LEMMA SumUnfolds ==
    ASSUME NEW S \in SUBSET Projects
    PROVE  Sum(S) = IF S = {} THEN 0 ELSE Hits[Any(S)] + Sum(Rest(S))
  <1>1. \A T \in SUBSET Projects : Iter(T) = Step(T, Iter(T))
    BY StepExists DEF Iter
  <1>2. Iter(S)[S] = IF S = {} THEN 0 ELSE Hits[Any(S)] + Iter(S)[Rest(S)]
    <2>1. S \in SUBSET S
      OBVIOUS
    <2> QED
      BY <1>1, <2>1 DEF Step
  <1>3. S # {} => Iter(S)[Rest(S)] = Iter(Rest(S))[Rest(S)]
    <2> SUFFICES ASSUME S # {} PROVE Iter(S)[Rest(S)] = Iter(Rest(S))[Rest(S)]
      OBVIOUS
    <2>1. Rest(S) \in SUBSET Projects /\ Rest(S) \in SUBSET (S \cap Rest(S))
      BY AnyIsOne
    <2> QED
      BY <1>1, <2>1, StepsAgree
  <1> QED
    BY <1>2, <1>3, SumIsIter

LEMMA SumIsNat == \A S \in SUBSET Projects : Sum(S) \in Nat
  <1> DEFINE B == {S \in SUBSET Projects : Sum(S) \notin Nat}
  <1> SUFFICES ASSUME B # {} PROVE FALSE
    OBVIOUS
  <1>1. PICK T \in B : \A u \in SUBSET T : u # T => u \notin B
    <2>1. B \in SUBSET SUBSET Projects
      OBVIOUS
    <2> HIDE DEF B
    <2> QED
      BY <2>1, Smallest
  <1>2. Sum(T) = IF T = {} THEN 0 ELSE Hits[Any(T)] + Sum(Rest(T))
    BY SumUnfolds
  <1>3. T # {}
    BY <1>2
  <1>4. Sum(Rest(T)) \in Nat /\ Any(T) \in Projects
    BY <1>1, <1>3, AnyIsOne
  <1> QED
    BY <1>2, <1>3, <1>4, RegistryAssumption

\* Whichever of them is counted last.
LEMMA SumWithout ==
    \A S \in SUBSET Projects : \A n \in S : Sum(S) = Hits[n] + Sum(S \ {n})
  <1> DEFINE B == {S \in SUBSET Projects : ~\A n \in S : Sum(S) = Hits[n] + Sum(S \ {n})}
  <1> SUFFICES ASSUME B # {} PROVE FALSE
    OBVIOUS
  <1>1. PICK T \in B : \A u \in SUBSET T : u # T => u \notin B
    <2>1. B \in SUBSET SUBSET Projects
      OBVIOUS
    <2> HIDE DEF B
    <2> QED
      BY <2>1, Smallest
  <1>2. PICK n \in T : Sum(T) # Hits[n] + Sum(T \ {n})
    OBVIOUS
  <1> DEFINE m == Any(T)
  <1>3. m \in T /\ Rest(T) = T \ {m} /\ Sum(T) = Hits[m] + Sum(T \ {m})
    BY AnyIsOne, SumUnfolds DEF Rest
  <1> HIDE DEF m
  <1>4. m # n
    BY <1>2, <1>3
  <1>5. /\ T \ {m} \in SUBSET Projects /\ T \ {m} \notin B /\ n \in T \ {m}
        /\ T \ {n} \in SUBSET Projects /\ T \ {n} \notin B /\ m \in T \ {n}
    BY <1>1, <1>3, <1>4
  <1>6. /\ Sum(T \ {m}) = Hits[n] + Sum((T \ {m}) \ {n})
        /\ Sum(T \ {n}) = Hits[m] + Sum((T \ {n}) \ {m})
    BY <1>5
  <1>7. Sum((T \ {m}) \ {n}) = Sum((T \ {n}) \ {m})
    <2>1. (T \ {m}) \ {n} = (T \ {n}) \ {m}
      OBVIOUS
    <2> QED
      BY <2>1
  <1>8. Hits[n] \in Nat /\ Hits[m] \in Nat /\ Sum((T \ {n}) \ {m}) \in Nat
    BY <1>3, <1>5, SumIsNat, RegistryAssumption
  <1>9. ASSUME NEW t, NEW tm, NEW tn, NEW r \in Nat, NEW h \in Nat, NEW k \in Nat,
               t = k + tm, tm = h + r, tn = k + r
        PROVE  t = h + tn
    BY <1>9
  <1> HIDE DEF B
  <1> QED
    BY <1>2, <1>3, <1>6, <1>7, <1>8, <1>9

LEMMA SumWith ==
    ASSUME NEW S \in SUBSET Projects, NEW n \in Projects \ S
    PROVE  Sum(S \cup {n}) = Sum(S) + Hits[n] /\ Sum(S) \in Nat /\ Hits[n] \in Nat
  <1>1. S \cup {n} \in SUBSET Projects /\ (S \cup {n}) \ {n} = S /\ n \in S \cup {n}
    OBVIOUS
  <1>2. Sum(S \cup {n}) = Hits[n] + Sum((S \cup {n}) \ {n})
    BY <1>1, SumWithout
  <1>3. Sum(S) \in Nat /\ Hits[n] \in Nat
    BY SumIsNat, RegistryAssumption
  <1>4. Sum(S \cup {n}) = Hits[n] + Sum(S)
    BY <1>1, <1>2
  <1> QED
    BY <1>3, <1>4

LEMMA SumOfNone == Sum({}) = 0
  BY SumUnfolds

-----------------------------------------------------------------------------
(* A search of all projects. Those whose refresh failed are noted before   *)
(* the walk begins; from then on each project is in one of five places,    *)
(* and what is shown adds up as long as nothing was cut.                   *)
Parts(q) ==
    LET w == walk[q] IN
    /\ asked[q] = todo[q] \cup noted[q] \cup w.searched \cup w.skipped \cup w.unsearched
    /\ todo[q] \cap noted[q] = {}
    /\ (todo[q] \cup noted[q]) \cap w.searched = {}
    /\ (todo[q] \cup noted[q] \cup w.searched) \cap w.skipped = {}
    /\ (noted[q] \cup w.searched \cup w.skipped) \cap w.unsearched = {}
    /\ w.unsearched # {} => todo[q] = {}

Counted(q) ==
    /\ limit[q] > 0 => walk[q].shown <= limit[q]
    /\ ~walk[q].cut => walk[q].shown = Sum(walk[q].searched)

Accounting(q) ==
    op[q] = "fleet" =>
        /\ noted[q] \subseteq asked[q]
        /\ pc[q] \in OnProject => walk[q] = NoWalk
        /\ pc[q] \in {"walk", "told"} => Parts(q) /\ Counted(q)
        /\ pc[q] = "told" => todo[q] = {}

LEMMA AccountingAdvance ==
    ASSUME Typed, NEW q \in Procs, NEW D, Advance(q, D), UNCHANGED <<op, asked, walk, limit>>,
           op[q] = "fleet", walk[q] = NoWalk, noted'[q] \subseteq asked[q],
           D = noted'[q] \/ todo[q] # {This(q)}
    PROVE  Accounting(q)'
  <1> USE DEF Goto
  <1>0. TypeOK /\ q \in Procs
    BY DEF Typed
  <1>1. CASE todo[q] # {This(q)}
    <2>1. pc'[q] = "head"
      BY <1>0, <1>1 DEF Advance, TypeOK
    <2> QED
      BY <2>1 DEF Accounting
  <1>2. CASE todo[q] = {This(q)} /\ D = noted'[q]
    <2>1. pc'[q] = "walk" /\ todo'[q] = asked[q] \ noted'[q]
      BY <1>0, <1>2 DEF Advance, Members, TypeOK
    <2>2. Parts(q)'
      BY <2>1 DEF Parts, NoWalk
    <2>3. limit[q] \in Nat
      BY <1>0 DEF TypeOK
    <2>4. Counted(q)'
      BY <2>3, SumOfNone DEF Counted, NoWalk
    <2> QED
      BY <2>1, <2>2, <2>4 DEF Accounting, OnProject
  <1> QED
    BY <1>1, <1>2

LEMMA AccountingStep ==
    ASSUME Typed, NEW q \in Procs, Accounting(q), [Next]_vars
    PROVE  Accounting(q)'
  <1> USE DEF Goto
  <1>0. TypeOK
    BY DEF Typed
  <1>1. ASSUME NEW p \in Procs, Acts(p), p # q PROVE Accounting(q)'
    <2>1. /\ pc'[q] = pc[q] /\ op'[q] = op[q] /\ asked'[q] = asked[q] /\ todo'[q] = todo[q]
          /\ noted'[q] = noted[q] /\ walk'[q] = walk[q] /\ limit'[q] = limit[q]
      BY <1>1, OthersKeep
    <2> QED
      BY <2>1 DEF Accounting, Parts, Counted
  <1>2. ASSUME (\E n \in Projects : Commit(n)) \/ UNCHANGED vars PROVE Accounting(q)'
    <2>1. UNCHANGED <<pc, frame>>
      BY <1>2 DEF Commit, vars
    <2> QED
      BY <2>1 DEF frame, Accounting, Parts, Counted
  <1>3. ASSUME End(q) \/ Leave(q) PROVE Accounting(q)'
    <2>1. op'[q] = None
      BY <1>0, <1>3 DEF End, Leave, Reset, TypeOK
    <2> QED
      BY <2>1, RegistryAssumption DEF Accounting
  <1>4. ASSUME Enters(q) PROVE Accounting(q)'
    <2>1. ASSUME NEW o, NEW S, NEW l, Begin(q, o, S, l)
          PROVE  op'[q] = o /\ asked'[q] = S /\ todo'[q] = S /\ pc'[q] = l /\ walk' = walk
      BY <1>0, <2>1 DEF Begin, TypeOK
    <2>2. CASE OpenSession(q)
      <3>1. UNCHANGED <<op, asked, noted>> /\ pc'[q] = "ready"
        BY <1>0, <2>2 DEF OpenSession, frame, TypeOK
      <3> QED
        BY <3>1 DEF Accounting, OnProject
    <2>3. CASE Fleet(q)
      <3>1. /\ Begin(q, "fleet", DOMAIN reg'[q], "head")
            /\ noted' = noted /\ pc[q] \in {"idle", "ready"}
        BY <2>3 DEF Fleet, Command
      <3>2. pc'[q] = "head" /\ walk'[q] = NoWalk /\ noted'[q] = {}
        BY <2>1, <3>1 DEF Typed, TodoInv
      <3> QED
        BY <3>2 DEF Accounting
    <2>4. CASE ~OpenSession(q) /\ ~Fleet(q)
      <3>1. PICK o \in {"register", "index", "sync", "clean", "search"} : \E S, l : Begin(q, o, S, l)
        <4>1. CASE Sync(q)
          <5>1. \E S, l : Begin(q, "sync", S, l) \/ Begin(q, "clean", S, l)
            BY <4>1 DEF Sync
          <5> QED
            BY <5>1
        <4>2. CASE Index(q)
          BY <4>2 DEF Index
        <4>3. ASSUME NEW n \in Projects, Register(q, n) PROVE \E S, l : Begin(q, "register", S, l)
          BY <4>3 DEF Register
        <4>4. ASSUME NEW n \in Projects, Search(q, n) PROVE \E S, l : Begin(q, "search", S, l)
          BY <4>4 DEF Search
        <4> QED
          BY <1>4, <2>4, <4>1, <4>2, <4>3, <4>4 DEF Enters
      <3>2. op'[q] = o
        BY <2>1, <3>1
      <3> QED
        BY <3>2 DEF Accounting
    <2> QED
      BY <2>2, <2>3, <2>4
  <1>5. ASSUME op'[q] # "fleet" PROVE Accounting(q)'
    BY <1>5 DEF Accounting
  \* Before the walk.
  <1>6. ASSUME UNCHANGED <<op, asked, noted, walk>>, pc[q] \in OnProject, pc'[q] \in OnProject
        PROVE  Accounting(q)'
    BY <1>6 DEF Accounting, OnProject
  <1>7. ASSUME pc[q] \in OnProject, op[q] = "fleet"
        PROVE  This(q) \in asked[q] /\ walk[q] = NoWalk /\ noted[q] \subseteq asked[q]
    BY <1>0, <1>7, ThisIsTodo DEF Accounting, Typed, TypeOK, TodoInv
  <1>8. ASSUME Works(q) PROVE Accounting(q)'
    <2>1. CASE IndexGraph(q) \/ ReadHead(q) \/ Resolve(q) \/ Build(q)
      <3>1. UNCHANGED <<op, asked, noted, walk>>
        BY <2>1 DEF IndexGraph, ReadHead, Resolve, Build, frame
      <3>2. pc[q] \in OnProject /\ pc'[q] \in OnProject
        BY <1>0, <2>1 DEF IndexGraph, ReadHead, Resolve, Build, TypeOK, OnProject
      <3> QED
        BY <1>6, <3>1, <3>2
    <2>2. CASE RefreshFails(q) /\ ~Fails(q)
      <3>1. op[q] = "fleet" => /\ noted'[q] = noted[q] \cup {This(q)}
                               /\ pc[q] \in {"resolve", "build"} /\ UNCHANGED <<op, asked, walk, limit>>
                               /\ \/ Advance(q, noted'[q])
                                  \/ Goto(q, "open")
        BY <1>0, <2>2 DEF RefreshFails, TypeOK
      <3>2. CASE op[q] = "fleet"
        <4>1. noted'[q] \subseteq asked[q] /\ walk[q] = NoWalk
          BY <1>7, <3>1, <3>2 DEF OnProject
        <4>2. CASE Advance(q, noted'[q])
          BY <3>1, <3>2, <4>1, <4>2, AccountingAdvance
        <4>3. CASE Goto(q, "open")
          <5>1. pc'[q] = "open"
            BY <1>0, <4>3 DEF TypeOK
          <5> QED
            BY <3>1, <3>2, <4>1, <5>1 DEF Accounting
        <4> QED
          BY <3>1, <3>2, <4>2, <4>3
      <3>3. CASE op[q] # "fleet"
        <4>1. op' = op
          BY <2>2 DEF RefreshFails
        <4> QED
          BY <1>5, <3>3, <4>1
      <3> QED
        BY <3>2, <3>3
    <2>3. CASE Touch(q)
      <3>1. UNCHANGED <<op, asked, noted, walk, limit>> /\ pc[q] = "touch" /\ Refreshed(q)
        BY <2>3 DEF Touch
      <3>2. CASE op[q] = "fleet" /\ Goto(q, "open")
        <4>1. pc'[q] = "open"
          BY <1>0, <3>2 DEF TypeOK
        <4> QED
          BY <1>6, <3>1, <4>1 DEF OnProject
      <3>3. CASE op[q] = "fleet" /\ todo[q] # {This(q)} /\ Advance(q, noted[q])
        BY <1>7, <3>1, <3>3, AccountingAdvance DEF OnProject
      <3> QED
        BY <1>5, <3>1, <3>2, <3>3 DEF Refreshed
    <2> QED
      BY <1>3, <1>8, <2>1, <2>2, <2>3 DEF Works, GraphFails, Fails
  <1>9. ASSUME Saves(q) PROVE Accounting(q)'
    <2>1. CASE OpenTmp(q) \/ Write(q)
      <3>1. UNCHANGED <<op, asked, noted, walk>>
        BY <2>1 DEF OpenTmp, Write, frame
      <3>2. pc[q] \in OnProject /\ pc'[q] \in OnProject
        BY <1>0, <2>1 DEF OpenTmp, Write, TypeOK, OnProject
      <3> QED
        BY <1>6, <3>1, <3>2
    <2>2. CASE Rename(q)
      <3>1. /\ UNCHANGED <<op, asked, noted, walk, limit>> /\ pc[q] = "rename"
            /\ op[q] = "fleet" => Advance(q, noted[q])
        BY <2>2 DEF Rename
      <3> QED
        BY <1>5, <1>7, <3>1, AccountingAdvance DEF OnProject
    <2>3. CASE SaveFails(q) /\ ~End(q)
      <3>1. CASE op' = [op EXCEPT ![q] = "unsaved"]
        BY <1>0, <1>5, <3>1 DEF TypeOK
      <3>2. CASE op' # [op EXCEPT ![q] = "unsaved"]
        <4>1. /\ UNCHANGED <<op, asked, walk, limit>> /\ pc[q] \in {"open", "write", "rename"}
              /\ noted'[q] = noted[q] \cup {This(q)}
              /\ op[q] = "fleet" => Advance(q, noted'[q])
          BY <1>0, <2>3, <3>2 DEF SaveFails, TypeOK
        <4> QED
          BY <1>5, <1>7, <4>1, AccountingAdvance DEF OnProject
      <3> QED
        BY <3>1, <3>2
    <2> QED
      BY <1>3, <1>9, <2>1, <2>2, <2>3 DEF Saves
  \* The walk.
  <1>10. ASSUME Answers(q), op[q] = "fleet", ~Done(q) PROVE Accounting(q)'
    <2>1. /\ pc[q] = "walk" /\ Parts(q) /\ Counted(q) /\ noted[q] \subseteq asked[q]
          /\ UNCHANGED <<op, asked, noted, limit>>
      BY <1>10 DEF Answers, Visit, VisitFails, StopShort, Answer, frame, Accounting
    <2>2. todo[q] # {} => This(q) \in todo[q] /\ This(q) \in Projects
      BY <1>0, ThisIsTodo
    <2>3. /\ walk[q] \in Walk /\ limit[q] \in Nat
          /\ Hits \in [Projects -> Nat] /\ walk[q].searched \subseteq Projects
      BY <1>0, RegistryAssumption DEF TypeOK, Walk
    <2>4. ASSUME pc' = pc, Parts(q)', Counted(q)' PROVE Accounting(q)'
      BY <2>1, <2>4 DEF Accounting, OnProject
    <2>5. CASE Visit(q)
      <3> DEFINE n == This(q)
                 shown == IF limit[q] = 0 THEN Hits[n] ELSE Least(Hits[n], Left(q))
      <3>1. /\ todo[q] # {} /\ pc' = pc
            /\ limit[q] > 0 => Left(q) > 0
            /\ todo'[q] = todo[q] \ {n}
            /\ walk'[q] = [walk[q] EXCEPT !.searched = @ \cup {n}, !.total = @ + Hits[n],
                              !.shown = @ + shown, !.cut = @ \/ shown < Hits[n]]
        BY <1>0, <2>5 DEF Visit, PassOver, TypeOK
      <3>2. n \in todo[q] /\ n \in Projects /\ Hits[n] \in Nat
        BY <2>2, <2>3, <3>1
      <3> HIDE DEF n
      <3>3. /\ walk'[q].searched = walk[q].searched \cup {n}
            /\ walk'[q].skipped = walk[q].skipped /\ walk'[q].unsearched = walk[q].unsearched
            /\ walk'[q].shown = walk[q].shown + shown
            /\ walk'[q].cut = (walk[q].cut \/ shown < Hits[n])
        BY <2>3, <3>1 DEF Walk
      <3>4. Parts(q)'
        BY <2>1, <3>1, <3>2, <3>3 DEF Parts
      <3>5. walk[q].shown \in Nat /\ Left(q) = limit[q] - walk[q].shown
        BY <2>3 DEF Walk, Left
      <3>6. /\ limit[q] > 0 => shown <= Left(q)
            /\ shown <= Hits[n] /\ shown \in Nat
        BY <2>3, <3>1, <3>2, <3>5 DEF Least
      <3>7. limit[q] > 0 => walk'[q].shown <= limit[q]
        BY <2>3, <3>3, <3>5, <3>6
      <3>8. ASSUME ~walk'[q].cut PROVE walk'[q].shown = Sum(walk'[q].searched)
        <4>1. ~walk[q].cut /\ ~(shown < Hits[n])
          BY <3>3, <3>8
        <4>2. shown = Hits[n] /\ walk[q].shown = Sum(walk[q].searched)
          BY <2>1, <3>2, <3>6, <4>1 DEF Counted
        <4>3. n \notin walk[q].searched
          BY <2>1, <3>2 DEF Parts
        <4>4. Sum(walk[q].searched \cup {n}) = Sum(walk[q].searched) + Hits[n]
          BY <2>3, <3>2, <4>3, SumWith
        <4> QED
          BY <3>3, <4>2, <4>4
      <3>9. Counted(q)'
        BY <2>1, <3>7, <3>8 DEF Counted
      <3> QED
        BY <2>4, <3>1, <3>4, <3>9
    <2>6. CASE VisitFails(q)
      <3>1. /\ todo[q] # {} /\ pc' = pc
            /\ todo'[q] = todo[q] \ {This(q)}
            /\ walk'[q] = [walk[q] EXCEPT !.skipped = @ \cup {This(q)}]
        BY <1>0, <2>6 DEF VisitFails, PassOver, TypeOK
      <3>2. /\ walk'[q].searched = walk[q].searched /\ walk'[q].unsearched = walk[q].unsearched
            /\ walk'[q].skipped = walk[q].skipped \cup {This(q)}
            /\ walk'[q].shown = walk[q].shown /\ walk'[q].cut = walk[q].cut
        BY <2>3, <3>1 DEF Walk
      <3>3. Parts(q)'
        BY <2>1, <2>2, <3>1, <3>2 DEF Parts
      <3>4. Counted(q)'
        BY <2>1, <3>2 DEF Counted
      <3> QED
        BY <2>4, <3>1, <3>3, <3>4
    <2>7. CASE StopShort(q)
      <3>1. /\ todo[q] # {} /\ pc' = pc /\ todo'[q] = {}
            /\ walk'[q] = [walk[q] EXCEPT !.unsearched = todo[q]]
        BY <1>0, <2>7 DEF StopShort, TypeOK
      <3>2. /\ walk'[q].searched = walk[q].searched /\ walk'[q].unsearched = todo[q]
            /\ walk'[q].skipped = walk[q].skipped
            /\ walk'[q].shown = walk[q].shown /\ walk'[q].cut = walk[q].cut
        BY <2>3, <3>1 DEF Walk
      <3>3. Parts(q)'
        BY <2>1, <3>1, <3>2 DEF Parts
      <3>4. Counted(q)'
        BY <2>1, <3>2 DEF Counted
      <3> QED
        BY <2>4, <3>1, <3>3, <3>4
    <2>8. CASE Answer(q)
      <3>1. UNCHANGED <<todo, walk>> /\ todo[q] = {} /\ pc'[q] = "told"
        BY <1>0, <2>8 DEF Answer, frame, TypeOK
      <3> QED
        BY <2>1, <3>1 DEF Accounting, Parts, Counted, OnProject
    <2> QED
      BY <1>10, <2>5, <2>6, <2>7, <2>8 DEF Answers
  <1>11. ASSUME Answers(q) PROVE Accounting(q)'
    <2>1. Done(q) => End(q)
      BY DEF Done, Fails
    <2>2. ~Done(q) => op' = op
      BY <1>11 DEF Answers, Visit, VisitFails, StopShort, Answer, frame
    <2> QED
      BY <1>3, <1>5, <1>10, <1>11, <2>1, <2>2
  <1>12. ASSUME Acts(q) PROVE Accounting(q)'
    BY <1>3, <1>4, <1>8, <1>9, <1>11, <1>12 DEF Acts, Die
  <1> QED
    BY <1>1, <1>2, <1>12 DEF Next, Acts

AccountInv == \A q \in Procs : Accounting(q)

\* What a search of all projects tells is all there is, or says what is missing.
THEOREM FleetIsTruthful == Spec => []FleetTruthful
  <1>1. Init => AccountInv
    <2>1. Init => \A q \in Procs : op[q] # "fleet"
      BY RegistryAssumption DEF Init
    <2> QED
      BY <2>1 DEF AccountInv, Accounting
  <1>2. CoverInv /\ AccountInv /\ [Next]_vars => AccountInv'
    BY AccountingStep DEF CoverInv, AccountInv
  <1>3. CoverInv /\ AccountInv => FleetTruthful
    <2> SUFFICES ASSUME CoverInv, AccountInv, NEW q \in Procs, pc[q] = "told", op[q] = "fleet"
                 PROVE  LET w == walk[q] IN
                        /\ asked[q] \subseteq w.searched \cup w.skipped \cup w.unsearched \cup noted[q]
                        /\ w.searched \cap (w.skipped \cup w.unsearched) = {}
                        /\ w.skipped \cap w.unsearched = {}
                        /\ limit[q] > 0 => w.shown <= limit[q]
                        /\ w.skipped = {} /\ w.unsearched = {} /\ noted[q] = {} /\ ~w.cut
                              => w.shown = SumFunctionOnSet(Hits, asked[q])
      BY DEF FleetTruthful, FleetAccounts, FleetHonest
    <2>1. Parts(q) /\ Counted(q) /\ todo[q] = {}
      BY DEF AccountInv, Accounting
    <2> DEFINE w == walk[q]
    <2>2. asked[q] = w.searched \cup w.skipped \cup w.unsearched \cup noted[q]
      BY <2>1 DEF Parts
    <2>3. w.searched \cap (w.skipped \cup w.unsearched) = {} /\ w.skipped \cap w.unsearched = {}
      BY <2>1 DEF Parts
    <2>4. ASSUME w.skipped = {}, w.unsearched = {}, noted[q] = {}, ~w.cut
          PROVE  w.shown = SumFunctionOnSet(Hits, asked[q])
      <3>1. asked[q] = w.searched
        BY <2>2, <2>4
      <3> QED
        BY <2>1, <2>4, <3>1 DEF Counted, Sum
    <2> QED
      BY <2>1, <2>2, <2>3, <2>4 DEF Counted
  <1> QED
    BY <1>1, <1>2, <1>3, Invariant, PTL DEF Spec
=============================================================================
