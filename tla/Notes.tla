------------------------------- MODULE Notes -------------------------------
(***************************************************************************)
(* Notes (internal/memory/notes.go): captured notes wait in a review queue *)
(* per project, approved ones are markdown files, and an SQLite index is   *)
(* derived from the files. Processes share all three without locks.        *)
(*                                                                         *)
(* A step is one system call on a shared file, or one SQLite statement or  *)
(* transaction on the index. A call may fail, and its process may be       *)
(* killed, between any two. A queue is the set of its lines; the note file *)
(* of an id is written by atomicWrite under a name of its own, in one step.*)
(***************************************************************************)
EXTENDS Naturals, Sequences, FiniteSets

CONSTANTS
    Ids,            \* notes that may be captured: newID gives each an id of its own
    Projects,
    Reviews,        \* calls of Approve or Reject, each made once
    Rebuilds,       \* calls of Reindex, each made once
    None,           \* no project, no note, no rebuild
    Overlap         \* bound: captures and reviews that may be in progress at the same time

ASSUME NotesAssumption ==
    /\ None \notin Ids \cup Projects \cup Rebuilds
    /\ Ids \cap Reviews = {}
    /\ IsFiniteSet(Ids)
    /\ Overlap \in Nat \ {0}

VARIABLES
    home,           \* [Ids -> Projects] the project a note was captured for
    queue,          \* [Projects -> SUBSET Ids] review/<project>.jsonl
    tmp,            \* [Projects -> SUBSET Ids] review/<project>.jsonl.tmp
    written,        \* projects whose .tmp file is there
    mixed,          \* projects whose queue two calls have used at the same time
    fd,             \* [Ids \cup Reviews -> ...] the file a frame writes to
    save,           \* [Ids -> ...] the frame of SaveToReview
    pc,             \* [Reviews -> ...] the frame of Approve or Reject
    verdict,        \* [Reviews -> {"approve", "reject"}]
    about,          \* [Reviews -> Ids] the id it was given
    kept,           \* [Reviews -> SUBSET Ids] the lines dropLine keeps
    decided,        \* [{"approve", "reject"} -> SUBSET Ids] calls that returned without error
    files,          \* notes/<project>/*.md
    tables,         \* the tables that exist
    rows,           \* [Ids -> Nat] the rowid of a note in `notes`, or 0
    fts,            \* the rows of `notes_fts`: a function from rowids to notes
    step,           \* [Rebuilds -> ...] the frame of Reindex
    scope,          \* [Rebuilds -> SUBSET Projects] one project, or all
    left,           \* [Rebuilds -> SUBSET Projects] directories still to be walked
    entries,        \* [Rebuilds -> Seq(Ids)] the notes it has read
    owed,           \* projects whose rows were dropped and have not been put back
    sole            \* the last Reindex that dropped a table, if all drops since its first are its own

queueVars == <<queue, tmp, written, mixed, fd>>
reviewVars == <<pc, verdict, about, kept, decided>>
indexVars == <<tables, rows, fts, owed, sole>>
rebuildVars == <<step, scope, left, entries>>
vars == <<home, save, files, queueVars, reviewVars, indexVars, rebuildVars>>

Busy == {"file", "index", "read", "trunc", "write", "rename"}
Rebuilding == {"dropnotes", "create", "walk", "fill"}
Verdicts == {"approve", "reject"}

TypeOK ==
    /\ home \in [Ids -> Projects \cup {None}]
    /\ queue \in [Projects -> SUBSET Ids]
    /\ tmp \in [Projects -> SUBSET Ids]
    /\ written \subseteq Projects
    /\ mixed \subseteq Projects
    /\ fd \in [Ids \cup Reviews -> {"none", "tmp", "queue", "gone"}]
    /\ save \in [Ids -> {"idle", "write", "done", "failed"}]
    /\ pc \in [Reviews -> Busy \cup {"idle", "over"}]
    /\ verdict \in [Reviews -> Verdicts]
    /\ about \in [Reviews -> Ids \cup {None}]
    /\ kept \in [Reviews -> SUBSET Ids]
    /\ decided \in [Verdicts -> SUBSET Ids]
    /\ files \subseteq Ids
    /\ tables \subseteq {"notes", "fts"}
    /\ rows \in [Ids -> Nat]
    /\ DOMAIN fts \subseteq Nat /\ \A i \in DOMAIN fts : fts[i] \in Ids
    /\ step \in [Rebuilds -> Rebuilding \cup {"idle", "over"}]
    /\ scope \in [Rebuilds -> SUBSET Projects]
    /\ left \in [Rebuilds -> SUBSET Projects]
    /\ entries \in [Rebuilds -> Seq(Ids)]
    /\ owed \subseteq Projects
    /\ sole \in Rebuilds \cup {None}

\* OpenNotes has made the directories and migrate the tables.
Init ==
    /\ home = [n \in Ids |-> None]
    /\ queue = [p \in Projects |-> {}]
    /\ tmp = [p \in Projects |-> {}]
    /\ written = {}
    /\ mixed = {}
    /\ fd = [f \in Ids \cup Reviews |-> "none"]
    /\ save = [n \in Ids |-> "idle"]
    /\ pc = [v \in Reviews |-> "idle"]
    /\ verdict = [v \in Reviews |-> "reject"]
    /\ about = [v \in Reviews |-> None]
    /\ kept = [v \in Reviews |-> {}]
    /\ decided = [d \in Verdicts |-> {}]
    /\ files = {}
    /\ tables = {"notes", "fts"}
    /\ rows = [n \in Ids |-> 0]
    /\ fts = <<>>
    /\ step = [x \in Rebuilds |-> "idle"]
    /\ scope = [x \in Rebuilds |-> {}]
    /\ left = [x \in Rebuilds |-> {}]
    /\ entries = [x \in Rebuilds |-> <<>>]
    /\ owed = {}
    /\ sole = None

InQueues == {n \in Ids : save[n] = "write"} \cup {v \in Reviews : pc[v] \in Busy}

\* The project of a capture or a review that has been given one.
ProjectOf(f) ==
    IF f \in Ids THEN home[f] ELSE IF about[f] \in Ids THEN home[about[f]] ELSE None

\* A call begins to use the queue of p.
Enters(p) ==
    /\ Cardinality(InQueues) < Overlap
    /\ mixed' = IF \E f \in InQueues : ProjectOf(f) = p THEN mixed \cup {p} ELSE mixed

-----------------------------------------------------------------------------
(* SaveToReview.                                                           *)

SaveOpens(n, p) ==
    /\ save[n] = "idle" /\ Enters(p)
    /\ save' = [save EXCEPT ![n] = "write"]
    /\ home' = [home EXCEPT ![n] = p]
    /\ fd' = [fd EXCEPT ![n] = "queue"]
    /\ UNCHANGED <<files, queue, tmp, written, reviewVars, indexVars, rebuildVars>>

\* O_APPEND: the line lands at the end of the file that was opened.
SaveAppends(n) ==
    /\ save[n] = "write"
    /\ save' = [save EXCEPT ![n] = "done"]
    /\ queue' = IF fd[n] = "queue" THEN [queue EXCEPT ![home[n]] = @ \cup {n}] ELSE queue
    /\ fd' = [fd EXCEPT ![n] = "none"]
    /\ UNCHANGED <<home, files, tmp, written, mixed, reviewVars, indexVars, rebuildVars>>

SaveFails(n) ==
    /\ save[n] = "write"
    /\ save' = [save EXCEPT ![n] = "failed"]
    /\ fd' = [fd EXCEPT ![n] = "none"]
    /\ UNCHANGED <<home, files, queue, tmp, written, mixed, reviewVars, indexVars, rebuildVars>>

-----------------------------------------------------------------------------
(* Approve and Reject of one id. Approve writes the file and the index     *)
(* first; both end in dropLine.                                            *)

Goes(v, place) == pc' = [pc EXCEPT ![v] = place]
Returns(v) ==
    /\ pc' = [pc EXCEPT ![v] = "over"]
    /\ about' = [about EXCEPT ![v] = None]
    /\ verdict' = [verdict EXCEPT ![v] = "reject"]
    /\ kept' = [kept EXCEPT ![v] = {}]
File(v) == home[about[v]]

\* findReview.
Find(v, n, d) ==
    /\ pc[v] = "idle" /\ save[n] # "idle" /\ Enters(home[n])
    /\ \/ /\ n \in queue[home[n]]
          /\ Goes(v, IF d = "approve" THEN "file" ELSE "read")
          /\ about' = [about EXCEPT ![v] = n]
          /\ verdict' = [verdict EXCEPT ![v] = d]
          /\ UNCHANGED kept
       \/ n \notin queue[home[n]] /\ Returns(v)
    /\ UNCHANGED <<home, save, files, queue, tmp, written, fd, decided, indexVars, rebuildVars>>

\* The markdown file.
WriteNote(v) ==
    /\ pc[v] = "file"
    /\ files' = files \cup {about[v]}
    /\ Goes(v, "index")
    /\ UNCHANGED <<home, save, queueVars, verdict, about, kept, decided, indexVars, rebuildVars>>

\* The rowid INSERT OR REPLACE gives: one more than the largest there is,
\* that of the row it replaces included.
LastRow == CHOOSE i \in {0} \cup {rows[n] : n \in Ids} : \A n \in Ids : rows[n] <= i

\* A row of an FTS5 table is set, whether it was there or not.
WithEntry(f, i, n) == [j \in DOMAIN f \cup {i} |-> IF j = i THEN n ELSE f[j]]

\* indexNote: one transaction. Without the tables it is an error (ReviewFails).
Index(v) ==
    /\ pc[v] = "index" /\ tables = {"notes", "fts"}
    /\ rows' = [rows EXCEPT ![about[v]] = LastRow + 1]
    /\ fts' = WithEntry(fts, LastRow + 1, about[v])
    /\ Goes(v, "read")
    /\ UNCHANGED <<home, save, files, queueVars, verdict, about, kept, decided, tables, owed, sole, rebuildVars>>

\* dropLine reads the queue and keeps the other lines.
ReadQueue(v) ==
    /\ pc[v] = "read"
    /\ kept' = [kept EXCEPT ![v] = queue[File(v)] \ {about[v]}]
    /\ Goes(v, "trunc")
    /\ UNCHANGED <<home, save, files, queueVars, verdict, about, decided, indexVars, rebuildVars>>

\* Mutant of Truncate: without O_TRUNC, what a killed call left is still there.
OpenTmp(v) ==
    /\ pc[v] = "trunc"
    /\ written' = written \cup {File(v)}
    /\ fd' = [fd EXCEPT ![v] = "tmp"]
    /\ Goes(v, "write")
    /\ UNCHANGED <<home, save, files, queue, tmp, mixed, verdict, about, kept, decided, indexVars, rebuildVars>>

\* Mutant of Truncate: the queue is rewritten in place.
TruncateQueue(v) ==
    /\ pc[v] = "trunc"
    /\ queue' = [queue EXCEPT ![File(v)] = {}]
    /\ tmp' = [tmp EXCEPT ![File(v)] = {}]
    /\ written' = written \cup {File(v)}
    /\ fd' = [fd EXCEPT ![v] = "tmp"]
    /\ Goes(v, "write")
    /\ UNCHANGED <<home, save, files, mixed, verdict, about, kept, decided, indexVars, rebuildVars>>

\* atomicWrite, opening: the .tmp file of the queue is made or emptied.
Truncate(v) ==
    /\ pc[v] = "trunc"
    /\ tmp' = [tmp EXCEPT ![File(v)] = {}]
    /\ written' = written \cup {File(v)}
    /\ fd' = [fd EXCEPT ![v] = "tmp"]
    /\ Goes(v, "write")
    /\ UNCHANGED <<home, save, files, queue, mixed, verdict, about, kept, decided, indexVars, rebuildVars>>

\* atomicWrite, writing from the start of the file it opened; if another call
\* has written there, lines beyond what this one writes may survive.
Write(v) ==
    /\ pc[v] = "write"
    /\ Goes(v, "rename")
    /\ \/ /\ fd[v] = "tmp"
          /\ \E tail \in SUBSET tmp[File(v)] : tmp' = [tmp EXCEPT ![File(v)] = kept[v] \cup tail]
          /\ UNCHANGED queue
       \/ /\ fd[v] = "queue"
          /\ \E tail \in SUBSET queue[File(v)] : queue' = [queue EXCEPT ![File(v)] = kept[v] \cup tail]
          /\ UNCHANGED tmp
       \/ fd[v] = "gone" /\ UNCHANGED <<queue, tmp>>
    /\ fd' = [fd EXCEPT ![v] = "none"]
    /\ kept' = [kept EXCEPT ![v] = {}]
    /\ UNCHANGED <<home, save, files, written, mixed, verdict, about, decided, indexVars, rebuildVars>>

\* The files that frames hold open, once .tmp is the queue of p.
AfterRename(p) ==
    [f \in Ids \cup Reviews |->
        CASE ProjectOf(f) = p /\ fd[f] = "tmp" -> "queue"
          [] ProjectOf(f) = p /\ fd[f] = "queue" -> "gone"
          [] OTHER -> fd[f]]

\* atomicWrite, renaming: the call is done.
Rename(v) ==
    /\ pc[v] = "rename" /\ File(v) \in written
    /\ queue' = [queue EXCEPT ![File(v)] = tmp[File(v)]]
    /\ tmp' = [tmp EXCEPT ![File(v)] = {}]
    /\ written' = written \ {File(v)}
    /\ fd' = AfterRename(File(v))
    /\ decided' = [decided EXCEPT ![verdict[v]] = @ \cup {about[v]}]
    /\ Returns(v)
    /\ UNCHANGED <<home, save, files, mixed, indexVars, rebuildVars>>

\* A system call or a statement fails, or the process is killed.
ReviewFails(v) ==
    /\ pc[v] \in Busy
    /\ Returns(v)
    /\ fd' = [fd EXCEPT ![v] = "none"]
    /\ UNCHANGED <<home, save, files, queue, tmp, written, mixed, decided, indexVars, rebuildVars>>

-----------------------------------------------------------------------------
(* Reindex: four statements that commit each for itself, around a walk of  *)
(* the files.                                                              *)

Then(x, place) == step' = [step EXCEPT ![x] = place]
Ends(x) ==
    /\ step' = [step EXCEPT ![x] = "over"]
    /\ scope' = [scope EXCEPT ![x] = {}]
    /\ left' = [left EXCEPT ![x] = {}]
    /\ entries' = [entries EXCEPT ![x] = <<>>]

DropFts(x, s) ==
    /\ step[x] = "idle"
    /\ Then(x, "dropnotes")
    /\ scope' = [scope EXCEPT ![x] = s]
    /\ tables' = tables \ {"fts"}
    /\ fts' = <<>>
    /\ owed' = Projects
    /\ sole' = x
    /\ UNCHANGED <<home, save, files, queueVars, reviewVars, rows, left, entries>>

DropNotes(x) ==
    /\ step[x] = "dropnotes"
    /\ Then(x, "create")
    /\ tables' = tables \ {"notes"}
    /\ rows' = [n \in Ids |-> 0]
    /\ owed' = Projects
    /\ sole' = IF sole = x THEN x ELSE None
    /\ UNCHANGED <<home, save, files, queueVars, reviewVars, fts, scope, left, entries>>

\* notesSchema: every CREATE says IF NOT EXISTS.
CreateTables(x) ==
    /\ step[x] = "create"
    /\ Then(x, "walk")
    /\ tables' = {"notes", "fts"}
    /\ left' = [left EXCEPT ![x] = Projects]
    /\ UNCHANGED <<home, save, files, queueVars, reviewVars, rows, fts, owed, sole, scope, entries>>

\* The notes of a set in the order of their file names, which may be any.
Listings(S) ==
    {s \in [1..Cardinality(S) -> S] : \A i, j \in 1..Cardinality(S) : s[i] = s[j] => i = j}

\* walkProjects, one directory.
Walk(x, p) ==
    /\ step[x] = "walk" /\ p \in left[x]
    /\ left' = [left EXCEPT ![x] = @ \ {p}]
    /\ \E s \in Listings({n \in files : home[n] = p /\ p \in scope[x]}) :
          entries' = [entries EXCEPT ![x] = @ \o s]
    /\ Then(x, IF left[x] = {p} THEN "fill" ELSE "walk")
    /\ UNCHANGED <<home, save, files, queueVars, reviewVars, indexVars, scope>>

\* The rows of Fill's transaction, in the order the notes were read.
RowOf(x, n) == LastRow + CHOOSE i \in DOMAIN entries[x] : entries[x][i] = n
NewRows(x) == {LastRow + i : i \in DOMAIN entries[x]}

\* Mutant of Fill: the rows of other notes are deleted first.
FillFromScratch(x) ==
    /\ step[x] = "fill" /\ tables = {"notes", "fts"}
    /\ rows' = [n \in Ids |-> IF \E i \in DOMAIN entries[x] : entries[x][i] = n
                              THEN RowOf(x, n) ELSE 0]
    /\ fts' = [i \in NewRows(x) |-> entries[x][i - LastRow]]
    /\ owed' = IF sole = x THEN owed \ scope[x] ELSE owed
    /\ Ends(x)
    /\ UNCHANGED <<home, save, files, queueVars, reviewVars, tables, sole>>

\* Mutant of Fill: rowids notes_fts already has are skipped.
FillIgnoring(x) ==
    /\ step[x] = "fill" /\ tables = {"notes", "fts"}
    /\ rows' = [n \in Ids |-> IF \E i \in DOMAIN entries[x] : entries[x][i] = n
                              THEN RowOf(x, n) ELSE rows[n]]
    /\ fts' = [i \in DOMAIN fts \cup NewRows(x) |->
                  IF i \in DOMAIN fts THEN fts[i] ELSE entries[x][i - LastRow]]
    /\ owed' = IF sole = x THEN owed \ scope[x] ELSE owed
    /\ Ends(x)
    /\ UNCHANGED <<home, save, files, queueVars, reviewVars, tables, sole>>

\* A rowid notes_fts already has is a constraint error (RebuildFails).
Fill(x) ==
    /\ step[x] = "fill" /\ tables = {"notes", "fts"}
    /\ NewRows(x) \cap DOMAIN fts = {}
    /\ rows' = [n \in Ids |-> IF \E i \in DOMAIN entries[x] : entries[x][i] = n
                              THEN RowOf(x, n) ELSE rows[n]]
    /\ fts' = [i \in DOMAIN fts \cup NewRows(x) |->
                  IF i \in DOMAIN fts THEN fts[i] ELSE entries[x][i - LastRow]]
    /\ owed' = IF sole = x THEN owed \ scope[x] ELSE owed
    /\ Ends(x)
    /\ UNCHANGED <<home, save, files, queueVars, reviewVars, tables, sole>>

\* A statement fails, a note file does not parse, or the process is killed.
RebuildFails(x) ==
    /\ step[x] \in Rebuilding
    /\ Ends(x)
    /\ UNCHANGED <<home, save, files, queueVars, reviewVars, indexVars>>

-----------------------------------------------------------------------------
Review(v) ==
    \/ \E n \in Ids, d \in Verdicts : Find(v, n, d)
    \/ WriteNote(v) \/ Index(v) \/ ReadQueue(v)
    \/ Truncate(v) \/ Write(v) \/ Rename(v) \/ ReviewFails(v)

Reindex(x) ==
    \/ \E s \in {{p} : p \in Projects} \cup {Projects} : DropFts(x, s)
    \/ DropNotes(x) \/ CreateTables(x) \/ Fill(x) \/ RebuildFails(x)
    \/ \E p \in Projects : Walk(x, p)

Next ==
    \/ \E n \in Ids :
          \/ \E p \in Projects : SaveOpens(n, p)
          \/ SaveAppends(n) \/ SaveFails(n)
    \/ \E v \in Reviews : Review(v)
    \/ \E x \in Rebuilds : Reindex(x)

Spec == Init /\ [][Next]_vars

-----------------------------------------------------------------------------
Pending(n) == home[n] # None /\ n \in queue[home[n]]
Found(n) == rows[n] \in DOMAIN fts /\ fts[rows[n]] = n

(* A captured note stays in its queue until a review has made something of *)
(* it: whatever fails and whoever is killed, it is pending, or a file, or  *)
(* a Reject got to its last step (notes.go, Approve, Reject, dropLine).    *)
(* For a queue that one call uses at a time.                               *)
NoNoteLost ==
    \A n \in Ids : save[n] = "done" /\ home[n] \notin mixed =>
        Pending(n) \/ n \in files \cup decided["reject"]

(* What was decided stays decided: no later review, of this note or of     *)
(* another one of the project, puts it back into the queue (dropLine), if  *)
(* one call uses it at a time.                                             *)
DecidedIsGone ==
    \A d \in Verdicts : \A n \in decided[d] : home[n] \notin mixed => ~Pending(n)

(* A note whose approval was reported is found by Search, unless a Reindex *)
(* has dropped its project's rows and not put them back: an approval that  *)
(* runs beside a rebuild is not lost between the walk and the fill.        *)
ApprovedIsFound ==
    \A n \in decided["approve"] : home[n] \notin owed => Found(n)

(* Search joins the two tables on the rowid: no note is found under the    *)
(* text of another one. A rebuild may drop one of the tables, and another  *)
(* rebuild make it anew, while the other table keeps its rows (notes.go,   *)
(* Reindex, indexNote).                                                    *)
RowsMatchTexts ==
    \A n \in Ids : rows[n] # 0 /\ rows[n] \in DOMAIN fts => fts[rows[n]] = n
=============================================================================
