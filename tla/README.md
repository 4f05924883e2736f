# true-knowledge: verification

TLA+ specifications of `tk`, checked with TLC and, where stated, proved with
TLAPS. Paths below are relative to the repository unless they name a module.

## 1. The system

`tk` is a command line (and an MCP server over stdio) that answers questions
about a code base. It keeps little state of its own and drives two external
back ends: the graph engine (CBM, spoken to over a JSON-RPC pipe or spawned for
one call) and zoekt, the text index. Around them it keeps installed binaries, a
registry of indexed projects and three kinds of durable memory: a ledger, notes
and facts.

| Component | State | Operations | Interacts with |
|---|---|---|---|
| Engine child, `internal/cbmexec/child.go` | mutex, id counter, closed flag, latched death, two pipes, a process | `StartChild`, `CallTool`, `CallTimeout`, `Close` | the engine process; owned by the resident |
| Resident server, `internal/resident/server.go` | `engine`, `quiesced`, `closed`, the slot `s.one`, a goroutine per connection, the socket, the pid file | `Serve`, tool request, `Quiesce`, `Resume`, status, `Close` | drives a Child; is driven by clients and by `tk install` |
| Resident client, `internal/resident/client.go`, `resident.go`, `cli/resident.go` | a connection | `Call`, `Control`, detached start | the resident's socket |
| One-shot runner, `internal/cbmexec/exec.go` | remembered answer format | spawn per call, envelope, format probe, rerun, budgets | the engine binary |
| Installer, `internal/installer`, `cli/admin.go`, `cli/setup.go`, `cli/daemon.go` | binaries `dest`, `.prev`, `.new`, the archive `.tmp` | download, verify, stage, probe, swap, roll back | stops the daemon and quiesces the resident around a swap |
| Ledger, `internal/memory/ledger.go` | one JSONL file per project | append, get, history, prune | CLI and MCP tools |
| Notes, `internal/memory/notes.go`, `embed.go` | markdown files, review queue, SQLite index, embedding cache | capture, approve, reject, search, reindex | CLI and MCP tools; the embedding endpoint |
| Facts, `internal/memory/facts.go`, `secdetect.go` | SQLite tables of values and of reviews | save, recall, approve, reject | CLI and MCP tools |
| Registry and freshness, `internal/store`, `cli/projects.go`, `cli/sourcesearch.go` | `tk.json`, rewritten whole; shards; the graph | register, index, sync, search one project or all | git, both back ends |
| Read path, `cli/root.go`, `cli/query.go`, `cli/validate.go`, `internal/mcp` | none for a command; for an MCP server its registry and format memo | search, outline, explain, validate, with budgets | resident, one-shot runner |

Which of these are modelled, and how far, is in `PROJECT.json`, `components`.

### What is hard

* **Deadlines over a shared pipe.** A caller of the child gives up; its
  goroutine stays, with the mutex and a reply still to come.
* **The swap.** `tk install` replaces the engine's binary under a serving
  resident with a quiesce and a resume, two requests on two connections, while
  readers are at any point of theirs; the binary itself moves by two renames.
* **Critical sections that do not add up.** `Quiesce`, `Resume`, `Close` and
  `serveConn` each read or write `s.engine` under `s.mu` and go on afterwards
  with what they read.
* **One address for many.** A socket file outlives its process; whoever finds
  one dials, removes and binds in three steps, and a listener that closes
  removes the file at its path whoever bound it last.
* **Files rewritten from what was read.** Review queue, registry and ledger are
  shared by processes without locks; crashes tear lines and interrupt pairs of
  renames. A session writes back a registry it read when it opened.
* **Heads read apart from the work they describe.** A commit may land between
  the read of HEAD, the build of the shards and the record of both.
* **Absence.** Nothing found may mean that there is nothing, that the index does
  not cover it, that the call failed, that an old engine said nothing, or that a
  budget took it away.

### What makes each component correct

* Child: a call never returns another call's answer; nothing enters a closed or
  dead child; every caller and every `Close` gets out; together: it is a serial
  engine (`SerialEngine`).
* Resident: serving implies an engine; one request at a time; the engine is
  gone between an answered quiesce and the resume; no engine process is
  forgotten; every request is answered.
* Endpoint: who serves can be addressed and stopped; a stale socket stops
  nobody; every call, and every detached start, ends.
* Installer: at every instant, crash included, a binary that passed its probe
  can be reached; what was stopped is given back; together: the binary is
  replaced or not (`Replacement`).
* Ledger: an acknowledged entry stays in the history; damage of one line never
  hides another (`LedgerLog`).
* Notes: a captured note is pending, approved or rejected, and a decided one is
  never pending again; the index can be rebuilt from the files.
* Facts: an approval stores the fact and closes the review, or neither; a
  decision is final; no secret is stored unasked (`FactStore`).
* Registry: no registration is lost; what it says an index covers is covered; a
  search of all projects accounts for each.
* Read path: an absence is reported with its grounds and is one; a refusal is
  not an absence; a budget takes rows and nothing else.

## 2. Plan

Done: `SerialEngine`, `Child`, `Resident`, `Endpoint`, `LedgerLog`, `Ledger`,
`Notes`, `FactStore`, `Facts`, `Registry`, `Replacement`, `Install`, `Payload`,
`Reads` and `Replies`, checked and their safety proved.

Left, in order:

1. The configuration file, which `config set` reads, changes and writes back as
   the registry is, and `migrate`.
2. Embeddings of notes and their cache.

## 3. Modules

| Module | What it is |
|---|---|
| `SerialEngine` | What one warm engine promises to the calls that share it. |
| `Child` | `cbmexec.Child`: callers, abandoned goroutines, pipes, `Close`. Implements `SerialEngine`. |
| `Resident` | The resident, its connections, its engines and the installers. Drives each engine as `SerialEngine` says. |
| `Endpoint` | Socket and pid file under residents that start, stop and are killed; callers; the detached start. |
| `Replacement` | What installing promises of the binary. |
| `Install` | `tk install` and `tk setup` of one backend, every system call a step, with the daemon and the resident around it. Implements `Replacement` when commands do not overlap. |
| `LedgerLog` | What a ledger promises to those who use it one at a time. |
| `Ledger` | The JSONL file of one project under overlapping appends, prunes and torn writes. Implements `LedgerLog` until a first overlap or tear. |
| `Notes` | Review queues, note files and the SQLite index, with every system call and statement a step. |
| `FactStore` | A store of values with a review queue, each operation atomic. |
| `Facts` | The same over SQLite's statements and transactions, by several processes. Implements `FactStore`. |
| `Registry` | `tk.json`, both indexes and the commands and sessions that keep and search them, while commits land. |
| `Reads` | One reader, from a terminal, with `--json` or over MCP: the calls it makes, and what it concludes. |
| `Payload` | The pure functions on an engine's payload: is it empty, which of its lists may be cut and in which order. |
| `Replies` | `Reads` with the loop of `BudgetResult`, list by list and batch by batch, between what is said and its being written. Implements `Reads`. |
| `ChildProofs`, `ResidentProofs`, `LedgerProofs`, `NotesProofs`, `FactsProofs`, `RegistryProofs`, `InstallProofs`, `ReadsProofs` | Theorems and their proofs; those about `SerialEngine` are in `ChildProofs`, through an instance with variables of its own, and those about `Endpoint` in `ResidentProofs`, which extends both modules of the resident (so the two share no name). |
| `MC...` | Values of the structured constants and symmetry sets for TLC; the bounds are in the `.cfg` files. |

An operator whose comment begins with "Mutant of" is not part of a model: it is
the model's definition with one plausible mistake in it, and stands beside it to
show which property would notice.

### Child and the code

`CallTimeout` is two threads. `waiter[c]` is the frame of the caller: it waits
in the `select` of child.go:247 for the channel (`Receive`) or the timer
(`TimeOut`). `pc[c]` is the goroutine that runs `CallTool`: `"lock"` before
`c.mu.Lock()`, `"read"` in the loop that reads lines. `mu`, `id`, `closed` and
`dead` are the fields of those names. `stdin` holds the ids of requests the
engine has not answered, `stdout` the lines nobody has read.

Taking the mutex, the two checks and the write (child.go:140-154) are one step:
every field they touch is guarded by that mutex or by it alone is stdin
written. Each line read is a step of its own, since the engine writes between
them. `Close` is four: the flag under the mutex, end of file on stdin, the
kill after two seconds, and the return once the process is gone.

A line is a record of the id it carries, the request it answers and whether the
engine reports success; everything the loop skips (blank lines, log lines, an
id that is not a number) is one `Noise`. Noise may have no meaning to any call,
so one value is enough.

### Resident and the code

A connection is a goroutine of `serveConn`; its `pc` names the statement it is
at. A critical section of `s.mu` is one step (`Gate`, `QuiesceMark`,
`QuiesceClear`, `ResumeAttach`, `ResumeServe`, `StopMark`), and what was read
in it is kept in `eng[r]`, exactly as the local `eng` of the code. `one` is
`s.one`. An engine is a process (`proc`), its child's flags (`shut`, `dead`) and
mutex (`cmu`): `Child` seen through `SerialEngine`. `call[r]` is the goroutine
inside the child, which survives the request when the deadline passes.

An installer is the other side of a swap (`Ctx.quiesceResident`,
`Ctx.resumeResident`): it resumes once, if its quiesce was answered, unless it is
killed in between (`InstallerDies`). It may also be killed, or give up at its
deadline (client.go:92), while its action runs (`InstallerLeaves`): the goroutine
in the server goes on to its end, `gone` remembers that nobody hears its reply, and
a later install comes on top of it. `met` records that control actions of two
installs have met in the server, one of them running or owed its resume, or one
and the `Close`; what then happens to `s.engine` is in the model and outside the
properties of the swap (section 6). The context being cancelled is `StopMark`,
possible at any time. `Exit` is `Serve` returning and with it the
process: every goroutine ends where it stands, engines do not.

Not in `Resident`: the address, which is `Endpoint`'s, and malformed requests
(answered before any shared state is read).

### Endpoint and the code

`sock` says whose socket is at the path and `pidfile` whose pid is in the file;
a name that leads to a dead process is a stale file. A start is `Serve` one
system call at a time: `Bind` and `Listen` are the two halves of `net.Listen`,
`Alive` the dial, `Remove` and `Rebind` what follows when nobody answers
(server.go:443-468), then the pid file and the engine. `RemovePid` and
`CloseListener` are the deferred calls of a start that fails. Closing a listener
sets `sock` to nothing whoever holds it, as Go's unlinks the path. The kernel
completes a dial from `listen` on (`Listening`), before anything reads it;
`Answer` needs the accept loop. A call that gets no answer meets the end of its
connection (`Hangup`) or its own deadline.

`upset` records that a start has overlapped another start or a stop. From then on
the path may lead nowhere, or to another resident than the pid file does.

### Install and the code

Four names (`dest`, `prev`, `new`, `tmp`) lead to files, and a file keeps the
content it has whatever its name becomes: `name` and `data`. Opening for
writing truncates the file the name leads to. The content is the version it
reports; a file not written to its end is `Partial`. `Inspect` to
`QuiesceUnanswered` are cmdInstall's head (admin.go:270-361) and, without the
resident, cmdSetup's; `OpenBlob` to `ProbeStaged` are download and extraction;
`ClearPrev`, `Retain` and `Publish` are the system calls of `swap`, `Confirm` and
`Rollback` what follows. A failing system call is an action of its own beside the
one that succeeds. `Die` kills the command anywhere: its deferred calls do not
run. Failures that harm (a kill, a rename that fails while the path is empty)
are counted in `cuts`; all others are free.

A resident never refuses to quiesce (server.go:262-268), so what the installer sees
fail is the transport: the deadline passes while the resident lets go of its
engine, or the resident has ended. `QuiesceUnanswered` takes that quiesce to its
end in one step; what happens when it is still under way as the next install comes
is `Resident`'s subject (`InstallerLeaves`, `met`).

`excused` names what is not as it was found for a reason the code gives: the
daemon after a failed install, the resident whose quiesce was not answered or whose
resume failed, an engine that `tk setup` replaced under it.

### Ledger and the code

`lines` is the file split at its newlines, `open` says that the last line has
none. An append is a frame with three steps: `ReadSeq` (the guard and `lastSeq`,
ledger.go:75-96), `Open` (O_CREATE and O_APPEND) and `Write`. O_APPEND puts the
line at the end of the file as it then is, so one `Write` is one step; `Tear`
is the write of which only a prefix arrives, its error returned or its process
gone. What lies beyond a torn line merges with it (`WithLine`): the bytes of two
lines without a newline between them are no JSON object, hence `Garbage`; only a
line torn exactly before its newline still parses. `Prune` removes the file;
whoever has it open writes to a file nobody can reach (`fd`). An entry is its
seq, its key and the call that wrote it; text and reference are not modelled.

### Notes and the code

A queue is the set of its lines. A capture opens it and appends (`SaveOpens`,
`SaveAppends`); a review finds its note, an approval writes the file
(`WriteNote`) and the row (`Index`), and both end in `dropLine`, which is four
steps: read, empty the `.tmp` file, write it, rename it over the queue. `fd`
says which file a frame holds: renaming turns `.tmp` into the queue and the old
queue into a file without a name, for every frame that has them open.

A rebuild is one step per statement of `Reindex`, each of which commits for
itself, one per directory it walks and one for its transaction. `rows` and `fts`
are the two tables: FTS rows are joined on rowids, and `INSERT OR REPLACE` gives
a note a new one, so rowids are modelled. A failed call and a killed process look
alike to the others and are one action each.

Three variables only record history: `mixed`, the projects whose queue two calls
have used at the same time; `owed`, the projects whose rows some rebuild has
dropped and none put back; `sole`, the rebuild that has had the tables to itself.

`Overlap` bounds how many calls use the queues at the same time. With more than
one, a capture between the read and the rename of a `dropLine` is lost, in the
model as in the code; what holds is stated for the queues outside `mixed`.

### Facts and the code

A statement outside a transaction is one step (`Save`, `Reject`). `Approve` is a
deferred transaction of three: `ReadReview` takes its snapshot, `Upsert` takes
the write lock and writes the fact, `MarkApproved` the status; `Commit` makes the
draft the store. A commit by somebody else in between makes the snapshot old
(`stale`), and SQLite then refuses the write: only `Rollback` is left. A process
that is killed rolls back too. Values are split into those `DetectSecret`
(secdetect.go) reports and those it does not; topic, scope and project are one
key.

### Registry and the code

What a tree looks like is a number: `live` grows with every commit (an edit, in a
plain directory), `graph` and `shards` are the numbers the two indexes cover.
`reg[q]` is what a process holds of `tk.json`: a command loads it when it begins,
a session when it opens, and each writes back all of it. Indexing one project is
`IndexGraph` (index and sync only), `ReadHead`, `Resolve`, `Build` and `Touch`. HEAD
is read three times, steps apart: for the record (sourcesearch.go:80), by the text
index for itself (`Resolve`, zoekttext.go:87: nothing is built when the shards
already cover it) and for the graph (sourcesearch.go:88). `Build` publishes what
`Resolve` saw (`built[q]`), over whatever another process has published meanwhile:
no lock keeps two of them apart. A refresh that fails does so before it publishes;
one that is cut off after its publication, but before its return, leaves what a
process killed there leaves (`Die`). `SaveFails` ends a command with an error, is a
note in a session, and is nothing at all to `tk sync` (projects.go:251), which goes
on and says that it is done (`op` is then `"unsaved"`). A save is `OpenTmp`, `Write`
and `Rename` over one temporary name; `fd` follows the file through other processes'
renames as in `Notes`. Sessions save after every project, commands once.
`walk` is the account of a search (`FleetResult`), `noted` the refreshes that failed.
`Advance` walks the projects in the order of `Registry.Names`.

History: `raced`, the projects two builds of whose text index have met; `behind`,
who holds a registry that has been replaced since; `overlap`, whether a save has met
another one or came from one who was behind; `acked`, the projects whose registration
was reported.

### Payload, Reads, Replies and the code

A payload is a function from the paths of its nodes (`rowPath`: keys and indexes)
to objects, arrays, numbers and scalars, so that what the code computes by walking
a decoded value is a set of paths: what `scanEvidence` walks into and reads is
`Counter`, what `walkRows` registers is `rowContainers`, the order it registers in
is `Before`. Bytes are abstracted to nodes, a member of an object being one more
(`Size`); the two markers of a cut add four (`markedSize`). The operators carry the
names of exec.go's functions.

`Reads` judges a payload by it (`emptyResult`). In `Replies`, a reply with a
payload is written through `BudgetResult` (exec.go:1024-1078): `Measure` is what
happens before the loop, `NextList` its outer iteration, `DropBatch` its inner one,
`Exceed` its end without success, `Written` the print of what came out. `root`,
`left`, `step` and `dropped` are the loop's variables (`left` is `n`), `todo` the
rest of `lists`, `full` the payload before; an error carries no payload. Nothing
else happens to the reader meanwhile: it is one goroutine, and what changes around
it no longer matters to a reply. What is put together from several calls (explain,
validate) is cut in the same way with the payload one object deeper, and is not
modelled apart.

In `Reads`, one call of the engine is `residentTry`, then `runEnvelope` of a
spawned engine, with the rerun of an answer without an envelope and the legacy
call after a bad exit (exec.go:177-234). `memo` is
`formatProbed`/`formatOK`: of one command, or of the whole MCP session. An engine
is new, old (no `format`) or oldest (no `--json`). `Take...` actions are what a
command does with the Result: `TakeRead` of a gated search asks for the coverage
when nothing was found, `TakeVerdict` concludes. `Wedge` is an engine that never
ends, `Deadline` MCP's request timeout, `Interrupt` the user of a terminal. The
index, the engine and the resident change between any two steps
(`MaxChanges` times in a command).

## 4. Runs

| Run | Question | Answer |
|---|---|---|
| `child` | Does every caller get its own answer, is the child a serial engine, and does every call and every `Close` end if the engine answers? | yes |
| `child_close_hangs` | Is `Close` bounded, as child.go:256 says? | no: it waits for the mutex first |
| `resident_safety` | Does the swap keep its promises through installs that give up or are killed at any moment? Is the resident that serves the one that is addressed? | yes, until control actions meet in the server; yes, until a start overlaps a start or a stop |
| `resident_liveness` | Is every tool request answered, whatever the engine does, and every quiesce, if the engine answers? Does every call and every detached start end? | yes |
| `install` | What can failures and kills cost, one command at a time? | nothing a retry does not mend after one; the image is replaced, left or, after a rename that fails, retained beside an empty path |
| `install_swap` | Does a failed install leave the previous image, as 01-ARCHITECTURE.md:59-61 says? | no: after a failed second rename there is nothing at the path |
| `ledger` | What can overlap and torn writes cost, and is a ledger without them a numbered log? | one acknowledged entry and one line per torn write; yes |
| `notes` | Does a queue lose a note or take one back when a review is killed anywhere, and is an approved note found again? | no, if one call uses it at a time; yes, after a rebuild that had the tables to itself |
| `facts` | Do several processes over SQLite make an atomic store? | yes |
| `registry` | Is what the registry says of the text index true, does a sync converge, does a search account for all projects? | yes, of the index until two builds of it meet, of a sync if it could save |
| `registry_sync` | Does a clean sync mean that both back ends cover the tree, as projects.go:259 says? | no: the graph may be behind |
| `reads` | Is what is reported absent absent, with its verdict, on every face and path? | yes, under the premises `ConclusionsHold` names |

The three runs answered "no" are recorded under `findings` with the sentence of
the source each contradicts and the interleaving.

### Bounds

`child` has two callers, so that one can be abandoned and the other meet its late
answer, and two closers, so that one finds the child closed by the other; three
ids let a caller call again after its own call was abandoned; one line of noise
ahead of a reply is enough to be read in its place. `ChildProofs` removes all of
these bounds for the safety properties.

`resident_safety` has two readers, which is what contention for the slot
takes, with an abandoned call beside them, and two engines, one on each side of
a swap. Its two installers may go round again and again; when the engines are used
up a resume can only fail, which it may do at any time. `MaxOpen` lets two
connections be served at one time, any two: two control actions, or one and a
request, or two requests. A third would add an action behind two that have met. The
liveness run has one installer and a single engine, so that a resume always fails
or waits: a quiesce and a request never depend on a later engine; all three
connections may be open.

The resident and its address share no state, and `MCResident` explores them side by
side: a behaviour is about one server's inside or about the address of many
(`side`). Of the address there are three residents: one that was killed, one that
takes over, one that meets either (two for liveness); one caller and one detached
start each meet all of them. `ResidentProofs` removes all these bounds for the
safety properties.

`install` has three commands: one that is cut short, one that is cut short in
what the first left behind, and one that must cope; two pins tell the old binary
from the new. `Overlap = 1`: with two at once the shared names let one publish
what the other is writing, and no property here holds, see section 6.
`install_swap` needs one command and one failing rename.

`ledger` has four appends, three in progress at once: two torn writes may
each swallow the append after it, and one more append finds an interior line
damaged. Two keys are enough for a later entry to supersede one key and not the
other. `notes` has two notes in two projects, so that one review can bring back
what another has decided and a rebuild of one project can drop the other's rows;
two reviews, so that one can be killed and retried; two rebuilds, so that one may
drop what another has filled while an approval stands between file and row.

`facts` has three processes, so that two approvals of one entry meet a third
writer, two keys, and three reviews. One second may pass: an approval then moves
a value's time back.

`registry` has one git repository and one plain directory, one process that runs
commands again and again and one session; three commands let an index be
followed by a search and a sync; two commits land anywhere; one process is killed
or one write fails, a sync's among them. Two matches in one project and one in the
other meet no limit and a limit of one, spent within the first project so that the
second is never reached.
`RegistryProofs` removes the bounds for the properties it has.

`reads` has three names under two qualifiers, one a leaf of another's name, four
indexes (empty and whole, empty and partial, with one name that only ends like
the wanted one, with more names than the limit of rows), and two changes around a
command: one between the lookup and its coverage, one more before the verdict. Of
the budgets, none, 10 and 17, one leaves every payload alone, one is exceeded even
when no row is left, and one is met after rows have been taken from one list
or, with two groups, from both and then a group. `ReadsProofs` removes these bounds.

Deadlock checking is off where a system may really stop: a child whose calls have
returned, a resident that has exited, commands that were each made once, a
registry whose bounds are reached.

### Fairness

Goroutines that can run do, and timers fire: weak fairness of each frame's own
step. A waiter for a `sync.Mutex` gets it when it is released again and again
(Go hands the lock to a waiter that has starved for a millisecond): strong
fairness of the steps that take `c.mu` and `s.one`. Nobody is obliged to send a
request, to install or to stop. Nothing is assumed of the engine in `FairSpec`;
`EngineFairness` adds that a live engine answers what it was given: part of the
specification in `child` (`AnsweringSpec`), the premise of `QuiesceAnswered` in
`resident_liveness`, absent in `child_close_hangs`. A start is never fair: the
handshake (child.go:109) has no deadline. In `Endpoint` accordingly: system calls
and deadlines are fair, `EnsureEngine` is not. In `Reads` what the reader itself
does and MCP's deadline are fair; an engine that is wedged stays so, so at a
terminal nothing is promised to end. That the deadline's kill makes `cmd.Run` return
is assumed: exec.go:440-443 collects the output in buffers and sets no `WaitDelay`,
so a descendant of the engine that keeps the pipe open would hold it.

## 5. Proofs

All theorems hold for every value of the constants, from the named assumptions
of the modules: sentinels are not members of the sets they stand beside, and
what is walked in an order is finite or has a first element.

* `ChildProofs!OneAtATime`: in the contract no two calls run at once, and none in
  a shut engine.
* `ChildProofs`: the inductive invariant `IInv` adds to the types: nobody calls
  before the handshake (`HandshakeInv`); the goroutine that reads is the holder
  of the mutex (`LockInv`); and each request is on the pipes at most once, as
  itself or as its reply, and is the holder's (`WireInv`). `OwnAnswer` is not
  inductive without `WireInv`: that the reply with the awaited id answers the
  awaited request is a fact about everything in the pipe. From it
  `NoStolenAnswer`, `CloseFinishesWork`, `DrivenOneAtATime`, and
  `ChildIsSerialEngine`, the refinement, one step per action.
* `ResidentProofs`: `SlotIsExclusive` from an invariant that ties `s.one` to the
  reader that waits; `EnginesAreSerial` from one that ties an engine's mutex to
  the call inside it, whatever meets. Three more are about what holds until control
  actions meet (`met`), and rest on `AloneInv`: until then at most one installer has
  an action running or is owed a resume, whatever became of the others, which is a
  fact about every way an install can end. `ServingImpliesEngine` adds where that one
  stands in its resume (`ServeInv`). `HandInv`, that between the release of an engine
  and the attachment of the next none is attached, so that neither assignment to
  `s.engine` overwrites one that runs, gives `EnginesAreKept`; `WindowInv`, that until
  the resident is closed an engine that runs is attached or about to be, and one whose
  child is closed has ended or is awaited by the quiesce that closed it, gives
  `SwapIsSafe`.
* `ResidentProofs`, of `Endpoint`: `AddressInv` says that while starts do not
  overlap one resident at most is on its way in or out (`Unsettled`), and what
  each step of it finds: from `Alive` to `Remove` there is a name at the path,
  at `Rebind` there is none, from `Listen` on the name is its own, and from the
  moment it has found its address free nobody serves (`NobodyServes`).
  `ServingIsAddressed` alone is not inductive: that the path leads to a resident
  when it comes to serve was settled five steps before. It gives `ServingIsFound`
  and, since a start is refused only after a dial that somebody answered,
  `StaleNeverRefuses`.
* `LedgerProofs`: `LossIsBounded` from an invariant that charges each lost entry
  to the torn write before it: the acknowledged entries that are not stored, and
  the line that is open, together never exceed `tears`. `DamageIsBounded` charges
  each unreadable line to a tear in the same way: a torn write pays for the line
  it damaged, or for the one that will be put behind it. `SerialLedgerIsLog`, the
  refinement: until the first overlap or tear, the one append in progress has
  read the file as it still is.
  `CalmLedgerReadsBack` says what that is worth to a reader: the numbers are 1, 2,
  3, ..., no acknowledged append is missing (`LossIsBounded` at no tears), and
  `get` gives the last value of each key.
* `NotesProofs`: every safety property of `Notes`, in three layers. `Base`: whoever
  names a note names a captured one, there is a largest rowid, a rebuild has read
  each note once; it gives `TextsMatch`. `QueueInv`: a queue that is not in
  `mixed` has one frame at most (`Alone`), and what that frame keeps is the queue
  without the note it decides (`FrameInv`); without it a killed review's `.tmp`
  could hold anything. It gives `NotesAreKept` and `DecisionsStand`. `IndexInv`:
  each indexed note is found or owed, and the rebuild that will pay has read it
  or has its directory before itself; it gives `ApprovalsAreFound`. Assumed:
  finitely many notes (a directory is walked as a list), and ids, calls and
  sentinels that are distinct.
* `FactsProofs`: the whole of `Facts`. What makes the refinement inductive is what
  a snapshot is worth: while a process's read is not `stale`, the row it has read
  is the row in the store, and the writer's draft is the store and what it has
  itself written. From it `Implementation` (every commit is one operation of
  `FactStore`, every other step a stutter), `DecisionsAreFinal` and
  `SecretsAreApproved`, which needs in addition that a draft's secret is the one
  whose review the same draft closes, and that an approved review stays so.
* `RegistryProofs`: `NothingOverclaimed` needs the frames: what is being built is no
  older than the head that was read, from `Build` to `Touch` that head is one the
  shards cover, the shards of a project no two builds of which have met never go back,
  and whatever a process, `tk.json` or the temporary file holds, torn or whole, was
  some process's registry. `SyncIsHonest` follows from it: a recorded head that
  equals the live one is covered, and no shards are ahead of the tree.
  `SearchIsCurrent` adds what a command has behind it (`CurrentInv`): a project it
  has dealt with is covered as of its beginning, or noted. `RegistrationsStay`
  rests on `SaveInv`: while saves do not meet, the temporary file is what its one
  writer left of it, and a process that is not behind has every project of
  `tk.json`. `SyncsConverge` needs all three and `ConvergeInv`: what a command has
  dealt with is fresh in its registry while the tree stays as it was, the head
  recorded for the text index is never past the one recorded for the graph (so
  the case in which `ensureZoektAndTouch` records nothing is fresh already), and
  from the rename on the project is fresh in the file and with everyone who may
  still replace it. `FleetIsTruthful` rests on `Accounting`: once the walk has
  begun each project asked for is in one of five places (still to come, its refresh
  failed, searched, skipped, unsearched), and while nothing was cut
  what is shown is the matches of those searched. The matches are a sum over a set,
  whose definition is recursive: that the sum exists, is a natural number and does
  not depend on the order (`StepExists`, `SumIsNat`, `SumWithout`) is proved by
  taking a smallest set that is a counterexample (`Smallest`), for which the
  projects must be finite, as the keys of a JSON object are.
* `InstallProofs`: the whole of `Install`. Three things hold for any overlap: no
  file has two names and an archive's name is no binary's (`NameInv`), a command
  keeps what it needs where it needs it (`FrameInv`), and what is stopped has
  somebody in progress who will start it again, or an excuse (`GiveInv`). While
  commands do not overlap, `CalmInv` has `Position`, which says step by step what
  is at each name; from it `TargetIsProbed`. `SafeInv` counts the cuts: before the
  first the binary is at the target but for the moment between the two renames;
  after one it is at the target or retained, until the candidate that replaces it
  is whole. It gives `BinaryIsRecoverable`. `ServeInv`, with `GiveInv`, gives
  `FoundIsRestored`; `InstallIsReplacement` maps each step to one of
  `Replacement`'s or to a stutter.
* `ReadsProofs`: `ReplyInv`, what is said of a reply, cannot be carried from the
  lookup to the reply without knowing what the lookup was worth. An answer is
  `Faithful` when its rows are names of the index, and all of them unless the limit
  has cut, and `Sound` when in addition its coverage is that of the index; every
  way an answer can come by is (`AnswerIsSound`, `HollowIsSound`), a rerun and a
  resident's included. `GroundInv` keeps it: while the index has not moved, what
  was read for the reply is faithful and the verdict in hand is the index's.
  `ClaimIsJustified`, `MissIsJustified` and `HitIsJustified` then take each
  conclusion from its grounds; the last needs that a name is what its group's
  qualifier and its own leaf say (`NamesAreRead`). `CallInv` counts the engines a
  call starts by where the call stands. `ReplyInv` gives `AbsencesHaveVerdicts`
  and `ConclusionsAreTrue`. `JudgedAsNames` says, of what any
  cut leaves of a lookup's payload, that it is judged empty when there were no names
  and only then: one of the two totals is not zero when there are, and the arrays
  of rows are empty when there are none.
* `ReadsProofs`, of `Replies`: `RepliesImplementReads`, that the cut only adds
  steps that leave the reader alone; and `BudgetTakesOnlyRows`, for every payload
  of a lookup and every budget. `BudgetTakesRows` is not inductive: that a batch is
  counted right depends on nothing droppable being within the elements it takes,
  which holds because the lists within a list come before it and are empty by
  then. `CutInv` says so: what is left is the payload without ends of its lists
  (`Pruned`), a list that has had its turn is empty, `left` is the length of the
  one at hand, and rows left and rows counted make up the rows there were
  (`Cutting`, `Shortened`, `Ended`). It needs that what comes before a list is not
  around it (`BeforeIsNotAround`), that what is left of a finite tree is one, and that
  its lists are those it had. That the payload of any names is such a tree
  (`PayloadTree`) comes from its table (`TableTree`). Assumed: the names are a
  finite set, `KeyOrder` has each key once and the five of a lookup, the totals and
  `rows` are evidence while `groups` and `qualifier` are not (`evidenceKey`,
  exec.go:656), budgets are natural numbers.

A property that is a theorem for all constants and says little beside the others
has no run: the types of `Child`, `Resident`, `Ledger`, `Notes`, `Facts` and
`Registry`, and the lemmas an invariant is built from.

Some properties are conjunctions of two named parts, two halves of one
promise: `Restored` (`GivenBack`, `ServesInstalled`), `FleetTruthful`
(`FleetAccounts`, `FleetHonest`), `ConclusionsHold` (`AbsenceIsProved`,
`ValidIsTrue`), `BudgetTakesRows` (`BudgetSpentOnRows`, `CountersSurvive`).

Only model-checked: all liveness (`EveryCallEnds`, `CloseReturns`,
`RequestAnswered`, `QuiesceAnswered`, `CallsEnd`, `McpAnswers`), which under
fairness is outside what the installed prover does.

## 6. Not modelled

See the notes in `PROJECT.json`. In short: the configuration file and `migrate`;
embeddings, their cache and ranking, which never decide whether a note is
stored; zoekt's queries and their parsing; the resolution of the engine's path;
formatting, logging, tracing and progress display, which nothing reads back;
path and git helpers, which keep no state; pickers and entry points; JSON-RPC's
framing over stdio, and the tools' schemas.

A crash of the machine that takes back what the kernel had not yet written is
not modelled: the code syncs nothing and says so (ledger.go:12). A capture that
tears its line is not in `Notes`; `appendLine` is the ledger's, and what follows
from a torn line is in `Ledger`. A HEAD that goes back (a checkout of an older
commit) is not in `Registry`, whose trees only grow.

### Seen in the models, without a run of its own

What the code does here is in the models; the properties are stated around it.

* Child and resident. Behind an engine that never answers nothing marks the child
  dead (child.go:232 expects it). A request that passed the gate before a quiesce
  and takes the slot after it is refused by the closed child (server.go:352 says
  none is in flight). The process may exit before `Close` has reaped the engine
  (server.go:415). An install that gives up or is killed leaves its action running in
  the server, and the next one meets it there: when its quiesce overlaps a resume the
  resident serves without an engine (server.go:359 and 369) and the engine that was
  dropped runs on; it may be told `released` while the first is still reaping the
  engine; and a late resume may attach an engine in its swap window, or after
  `Close`. `ServingHasEngine`, `NoEngineLost` and `SwapWindow` are stated until then.
* Endpoint. Two residents that start over one stale socket may both serve, the
  displaced one unreachable, although server.go:441 says that a live resident
  is never displaced; when the displaced one stops it unlinks the other's socket
  and pid file. `tk mcp --detach` says "already running" of a resident that may
  still wait for its engine.
* Install. An install whose quiesce is not answered in time fails and does not
  resume: the resident, which has let its engine go, refuses every read until some
  other install succeeds (admin.go:543-545 calls it a refusal of the resident,
  server.go:262-268 has none). Two installs of one backend at once may report success and leave
  no binary. A daemon that was stopped is not started again when the install
  fails. `tk setup` does not quiesce a resident.
* Ledger and notes. The append after a torn line is acknowledged and in no
  history, and the one after that makes the ledger unreadable, although
  ledger.go:10 says a torn line is dropped. A note whose approval failed half way
  can be rejected and stays searchable, although cli/note.go:240 says nothing is
  indexed.
* Facts. Approving an old proposal puts its value and its time over a newer one.
* Registry. A session's save erases what was registered since it opened. A plain
  directory is dirty for ever after its first edit: its recorded shards are
  "files" before and after, so nothing is recorded again. `tk sync` says that it is
  done when its save failed (projects.go:251): nothing is recorded, and the next one
  does the work again, which is why `SyncConverges` leaves it out. Of two processes
  that build the text index of one project, the one that resolved an older HEAD may
  publish last (zoekttext.go:87-96), after the newer HEAD was recorded: a recorded
  commit the shards lack, that sync calls clean. `RecordedIsCovered`,
  `CleanIsSearchable` and `AnswerIsCurrent` are stated until two builds meet.
  Projects whose refresh failed are left out of a search of all projects
  (05-INDEXING.md:92 says a failed refresh still searches what it has) and are in
  its notes, not, as sourcesearch.go:247-249 says, among those skipped;
  `FleetTruthful` asks for one or the other.
* Reads. During a swap a read fails instead of taking the spawn path
  (03-COMMANDS.md:66-68, server.go:82-86 and admin.go:537-539 expect a fallback;
  root.go returns the refusal as an error). A payload that exceeds its budget without
  any row is returned as trimmed, with `budget_exceeded` (exec.go:1055-1058), where
  04-MCP.md:149-150 and exec.go:1021-1022 say that it is returned whole; the
  properties take no side. `validate --json` over an engine without
  `format` says invalid of any symbol; so does `validate` when its limit is
  filled by near misses; over MCP a lookup that failed is reported as a miss.
  `explain` reports an empty traversal without asking for the coverage.
