--------------------------- MODULE IndexPipeline ---------------------------
(***************************************************************************)
(* Indexing of one resource: the initial scan and its per-file tasks       *)
(* (index_resource and index_one_file, src/src/resource.rs), the watcher   *)
(* that reconciles changed paths (src/src/watcher.rs), both writing        *)
(* through the ChunkWriter, while a user edits the files, the resource may *)
(* be stopped, and the daemon may crash and be started again.              *)
(*                                                                         *)
(* The scan's task for file f is the caller f of the writer; the watcher   *)
(* loop is the caller Watcher.  A content is the sequence of its chunks    *)
(* (chunk_file is deterministic), a file that is gone has the content      *)
(* Absent and an empty one <<>>; the index shows both as no rows.  Every   *)
(* save has an mtime of its own.  A file is read in one step.  A task runs *)
(* from one await, or one check of the cancellation token, to the next: a  *)
(* stop can fall between a check and what is done on the strength of it.   *)
(***************************************************************************)
EXTENDS ChunkWriter, FiniteSets

CONSTANTS
    File,
    Watcher,
    Hidden,          \* files the walk passes over that no .gitignore names
    Absent,
    Versions,        \* contents the user may save
    MaxConcurrency,  \* permits of the scan's semaphore (4 in the code)
    Watched,         \* the run has a watcher
    Orphans,         \* files may have been deleted while the daemon was down
    EditStages,      \* stages of the run in which the user edits: see Stage
    MaxEdits, MaxIgnores, MaxFaults, MaxStops, MaxCrashes  \* bounds of a run

ASSUME PipelineAssumption ==
    /\ Watcher \notin File
    /\ Hidden \subseteq File
    /\ Key = File
    /\ Caller = File \cup {Watcher}
    /\ Versions \subseteq Seq(Piece)
    /\ Absent \notin Seq(Piece)
    /\ MaxConcurrency \in Nat \ {0}
    /\ {Watched, Orphans} \subseteq BOOLEAN
    /\ EditStages \subseteq 0 .. 2
    /\ {MaxEdits, MaxIgnores, MaxFaults, MaxStops, MaxCrashes} \subseteq Nat

VARIABLES
    \* the project directory
    disk,       \* disk[f]: content of f, or Absent
    mtime,      \* mtime[f]: when f was last saved
    ignored,    \* files the .gitignore files exclude now
    \* the task that walks the directory
    walk,       \* files it has not come to yet
    scan,       \* "walking" until every file task has ended, then "done"
    \* each task in index_one_file
    pc,         \* pc[c]: where it stands
    text,       \* text[c]: the content it read
    recs,       \* recs[c]: the chunk records it has built
    \* the watcher
    watching,   \* the OS watch is registered
    dirty,      \* paths with an event not yet handed to reconcile
    batch,      \* paths of the running reconcile still to visit
    matcher,    \* its ignore matcher: the files excluded when it was built
    seen,       \* seen_mtimes: mtime recorded for a file, 0 for none
    alive,      \* its loop has not panicked
    cancelled,  \* the resource's cancellation token
    \* bounds, and two history variables no guard reads
    edits, ignores, faults, stops, crashes,
    had,        \* had[f]: contents f has had, <<>> when absent
    late        \* late[c]: files read and jobs sent by c since the stop

diskVars == <<disk, mtime, ignored, edits, ignores, had>>
scanVars == <<walk, scan>>
taskVars == <<pc, text, recs>>
watchVars == <<watching, dirty, batch, matcher, seen, alive>>
ctlVars == <<cancelled, stops, crashes, late>>
vars == <<writerVars, diskVars, scanVars, taskVars, watchVars, ctlVars, faults>>

\* Where a task can stand: not started or a watcher between two files; waiting
\* for a permit; a watcher come to a path; the steps of index_one_file; and ended
\* with true or false.
Ended == {"ok", "failed"}
Working == {"open", "read", "lookup", "embed", "write"}

Vectors(v) == [i \in DOMAIN v |-> [hash |-> v[i], emb |-> v[i]]]

Hashes(fps) == [i \in DOMAIN fps |-> fps[i].hash]

\* The chunks of a content.
Texts == Versions \cup {<<>>}
ChunksOf(v) == IF v = Absent THEN <<>> ELSE v

NewCache == cache' = [k \in {} |-> <<>>]

Init ==
    /\ disk \in [File -> Versions \cup {Absent}]
    /\ mtime = [f \in File |-> 1]
    /\ ignored = {}
    /\ \E prior \in [File -> Texts] :
        /\ Orphans \/ \A f \in File : disk[f] = Absent => prior[f] = <<>>
        /\ table = UNION {Batch(f, Vectors(prior[f])) : f \in File}
        /\ had = [f \in File |-> {<<>>, prior[f], ChunksOf(disk[f])}]
    /\ WriterInit
    /\ walk = File /\ scan = "walking"
    /\ pc = [c \in Caller |-> "idle"]
    /\ text = [c \in Caller |-> <<>>]
    /\ recs = [c \in Caller |-> <<>>]
    /\ watching = FALSE
    /\ dirty = {} /\ batch = {} /\ matcher = {}
    /\ seen = [f \in File |-> 0]
    /\ alive = TRUE
    /\ cancelled = FALSE
    /\ edits = 0 /\ ignores = 0 /\ faults = 0 /\ stops = 0 /\ crashes = 0
    /\ late = [c \in Caller |-> 0]
----------------------------------------------------------------------------
Advance(c, where) == pc' = [pc EXCEPT ![c] = where]

\* An event for f reaches the debouncer.
Notify(f) == dirty' = IF watching THEN dirty \cup {f} ELSE dirty

CanFail == faults < MaxFaults
CountFault == faults' = faults + 1

\* c reads a file, or hands the writer a job.
Work(c) ==
    /\ late' = IF cancelled THEN [late EXCEPT ![c] = @ + 1] ELSE late
    /\ UNCHANGED <<cancelled, stops, crashes>>

\* index_one_file returns, and with it the file task; the watcher ignores the
\* result and goes on to the next path of its batch.
Finish(c, result) ==
    /\ Advance(c, IF c = Watcher THEN "idle" ELSE result)
    /\ text' = [text EXCEPT ![c] = <<>>]
    /\ recs' = [recs EXCEPT ![c] = <<>>]

\* It returns without having called the writer, dropping what it had read.
Leave(c, result) ==
    /\ Finish(c, result)
    /\ st' = [st EXCEPT ![c] = "idle"]
    /\ arg' = [arg EXCEPT ![c] = <<>>]
    /\ UNCHANGED <<tableVars, key>>
----------------------------------------------------------------------------
(* index_resource: the walk, the permits, and the join of the tasks.       *)

\* WalkBuilder yields a file that is there unless a .gitignore excludes it, or
\* it is hidden (a dotfile, or in a directory such as .github).
Walkable(f) == disk[f] # Absent /\ f \notin ignored \cup Hidden

\* The walk comes to a path: it spawns a task for a file it yields.
WalkVisit(f) ==
    /\ scan = "walking"
    /\ ~cancelled
    /\ f \in walk
    /\ walk' = walk \ {f}
    /\ IF Walkable(f)
       THEN Advance(f, "permit")
       ELSE UNCHANGED pc
    /\ UNCHANGED <<writerVars, diskVars, scan, text, recs, watchVars, ctlVars, faults>>

WalkStops ==
    /\ scan = "walking"
    /\ cancelled
    /\ walk # {}
    /\ walk' = {}
    /\ UNCHANGED <<writerVars, diskVars, scan, taskVars, watchVars, ctlVars, faults>>

Acquire(f) ==
    /\ pc[f] = "permit"
    /\ Cardinality({g \in File : pc[g] \in Working}) < MaxConcurrency
    /\ Advance(f, "open")
    /\ key' = [key EXCEPT ![f] = f]
    /\ UNCHANGED <<tableVars, st, arg, diskVars, scanVars, text, recs, watchVars, ctlVars, faults>>

ScanDone ==
    /\ scan = "walking"
    /\ walk = {}
    /\ \A f \in File : pc[f] \in {"idle"} \cup Ended
    /\ scan' = "done"
    /\ UNCHANGED <<writerVars, diskVars, walk, taskVars, watchVars, ctlVars, faults>>
----------------------------------------------------------------------------
(* index_one_file, for a file task and for the watcher alike.              *)

\* The cancellation check.
OpenStopped(c) ==
    /\ pc[c] = "open"
    /\ cancelled
    /\ Leave(c, "failed")
    /\ UNCHANGED <<diskVars, scanVars, watchVars, ctlVars, faults>>

Open(c) ==
    /\ pc[c] = "open"
    /\ ~cancelled
    /\ Advance(c, "read")
    /\ UNCHANGED <<writerVars, diskVars, scanVars, text, recs, watchVars, ctlVars, faults>>

\* The read of the file.  It opens the file, if it is there, which the OS watch
\* reports as an event on it, also when the read then fails.
ReadFails(c) ==
    /\ pc[c] = "read"
    /\ \/ disk[key[c]] = Absent /\ UNCHANGED <<dirty, faults>>
       \/ disk[key[c]] # Absent /\ CanFail /\ CountFault /\ (Notify(key[c]) \/ UNCHANGED dirty)
    /\ Leave(c, "failed")
    /\ UNCHANGED <<diskVars, scanVars, watching, batch, matcher, seen, alive, ctlVars>>

\* Mutant of Read: a file that is gone is taken for one that can be read.
ReadGone(c) ==
    /\ pc[c] = "read"
    /\ text' = [text EXCEPT ![c] = disk[key[c]]]
    /\ Notify(key[c])
    /\ Advance(c, "lookup")
    /\ Work(c)
    /\ UNCHANGED <<writerVars, diskVars, scanVars, recs, watching, batch, matcher,
                   seen, alive, faults>>

Read(c) ==
    /\ pc[c] = "read"
    /\ disk[key[c]] # Absent
    /\ text' = [text EXCEPT ![c] = disk[key[c]]]
    /\ Notify(key[c])
    /\ Advance(c, "lookup")
    /\ Work(c)
    /\ UNCHANGED <<writerVars, diskVars, scanVars, recs, watching, batch, matcher,
                   seen, alive, faults>>

\* Lookup of the existing fingerprints; a failed read counts as "none".
LookupHit(c) ==
    /\ pc[c] = "lookup"
    /\ CacheHit(c, key[c])
    /\ Advance(c, "embed")
    /\ UNCHANGED <<diskVars, scanVars, text, recs, watchVars, ctlVars, faults>>

LookupMiss(c) ==
    /\ pc[c] = "lookup"
    /\ CacheMiss(c, key[c])
    /\ UNCHANGED <<diskVars, scanVars, taskVars, watchVars, ctlVars, faults>>

LookupReads(c) ==
    /\ FetchRows(c)
    /\ UNCHANGED <<diskVars, scanVars, taskVars, watchVars, ctlVars, faults>>

LookupFails(c) ==
    /\ CanFail /\ CountFault
    /\ FetchFails(c)
    /\ Advance(c, "embed")
    /\ UNCHANGED <<diskVars, scanVars, text, recs, watchVars, ctlVars>>

LookupFills(c) ==
    /\ FillCache(c)
    /\ Advance(c, "embed")
    /\ UNCHANGED <<diskVars, scanVars, text, recs, watchVars, ctlVars, faults>>

\* chunk_file panics, which ends the task of the file, or the watcher's loop.
ChunkingPanics(c) ==
    /\ pc[c] = "embed"
    /\ recs[c] = <<>> /\ text[c] # <<>>
    /\ CanFail /\ CountFault
    /\ Leave(c, "failed")
    /\ IF c = Watcher
       THEN alive' = FALSE /\ batch' = {}
       ELSE UNCHANGED <<alive, batch>>
    /\ UNCHANGED <<diskVars, scanVars, watching, dirty, matcher, seen, ctlVars>>

\* The next chunk: its embedding is reused if the file had the same chunk at
\* the same index, and asked for otherwise.
NextChunk(c) == text[c][Len(recs[c]) + 1]
MoreChunks(c) == pc[c] = "embed" /\ Len(recs[c]) < Len(text[c])
\* Mutant of Reusable: the hashes are not compared.
ReusableByIndex(c) == Len(recs[c]) + 1 \in DOMAIN arg[c]

Reusable(c) ==
    /\ Len(recs[c]) + 1 \in DOMAIN arg[c]
    /\ arg[c][Len(recs[c]) + 1].hash = NextChunk(c)

Record(c, emb) ==
    recs' = [recs EXCEPT ![c] = Append(@, [hash |-> NextChunk(c), emb |-> emb])]

Reuse(c) ==
    /\ MoreChunks(c)
    /\ Reusable(c)
    /\ Record(c, arg[c][Len(recs[c]) + 1].emb)
    /\ UNCHANGED <<writerVars, diskVars, scanVars, pc, text, watchVars, ctlVars, faults>>

\* The model answers; in a fault, with a vector of the wrong length.
Embed(c) ==
    /\ MoreChunks(c)
    /\ ~Reusable(c)
    /\ ~cancelled
    /\ \/ Record(c, NextChunk(c)) /\ UNCHANGED faults
       \/ CanFail /\ CountFault /\ Record(c, WrongDim)
    /\ UNCHANGED <<writerVars, diskVars, scanVars, pc, text, watchVars, ctlVars>>

EmbedFails(c) ==
    /\ MoreChunks(c)
    /\ ~Reusable(c)
    /\ \/ cancelled /\ UNCHANGED faults
       \/ CanFail /\ CountFault
    /\ Leave(c, "failed")
    /\ UNCHANGED <<diskVars, scanVars, watchVars, ctlVars>>

\* Mutant of Unchanged: the numbers of chunks are not compared.
UnchangedSoFar(c) ==
    /\ Len(recs[c]) <= Len(arg[c])
    /\ \A i \in DOMAIN recs[c] : recs[c][i].hash = arg[c][i].hash

\* After the last chunk: cancelled, nothing to write, or a write.
Built(c) == pc[c] = "embed" /\ Len(recs[c]) = Len(text[c])
Unchanged(c) == Hashes(recs[c]) = Hashes(arg[c])

Cancelled(c) ==
    /\ Built(c)
    /\ cancelled
    /\ Leave(c, "failed")
    /\ UNCHANGED <<diskVars, scanVars, watchVars, ctlVars, faults>>

SkipWrite(c) ==
    /\ Built(c)
    /\ ~cancelled
    /\ Unchanged(c)
    /\ Leave(c, "ok")
    /\ UNCHANGED <<diskVars, scanVars, watchVars, ctlVars, faults>>

\* Mutant of Write: the last cancellation check is missing.
WriteUnchecked(c) ==
    /\ Built(c)
    /\ ~Unchanged(c)
    /\ CallReplace(c, key[c], recs[c])
    /\ Advance(c, "write")
    /\ UNCHANGED <<diskVars, scanVars, text, recs, watchVars, ctlVars, faults>>

\* What lies between the check and the sending of the job is the task's own: a
\* stop in between is one that comes before Send.
Write(c) ==
    /\ Built(c)
    /\ ~cancelled
    /\ ~Unchanged(c)
    /\ CallReplace(c, key[c], recs[c])
    /\ Advance(c, "write")
    /\ UNCHANGED <<diskVars, scanVars, text, recs, watchVars, ctlVars, faults>>

Send(c) ==
    /\ \/ SendJob(c) /\ Work(c)
       \/ SendFails(c) /\ UNCHANGED ctlVars
    /\ UNCHANGED <<diskVars, scanVars, taskVars, watchVars, faults>>

\* The caller is woken with the writer's answer.
Answered(c) ==
    /\ pc[c] = "write"
    /\ st[c] \in Returned
    /\ Leave(c, IF st[c] = "ok" THEN "ok" ELSE "failed")
    /\ UNCHANGED <<diskVars, scanVars, watchVars, ctlVars, faults>>

IndexOneFile(c) ==
    \/ OpenStopped(c) \/ Open(c) \/ ReadFails(c) \/ Read(c)
    \/ LookupHit(c) \/ LookupMiss(c) \/ LookupReads(c) \/ LookupFails(c) \/ LookupFills(c)
    \/ ChunkingPanics(c) \/ Reuse(c) \/ Embed(c) \/ EmbedFails(c)
    \/ Cancelled(c) \/ SkipWrite(c) \/ Write(c)
    \/ Send(c) \/ Answered(c)

\* The writer's background task; a storage error is a fault.
Background ==
    /\ \/ (Commit \/ Panic \/ Publish) /\ UNCHANGED faults
       \/ CanFail /\ CountFault /\ CommitFails
    /\ UNCHANGED <<diskVars, scanVars, taskVars, watchVars, ctlVars>>
----------------------------------------------------------------------------
(* The watcher: registration, then the reconcile loop.                     *)

\* The scan's task is spawned before the OS watch is registered.
StartWatch ==
    /\ Watched
    /\ ~watching
    /\ watching' = TRUE
    /\ UNCHANGED <<writerVars, diskVars, scanVars, taskVars, dirty, batch, matcher,
                   seen, alive, ctlVars, faults>>

Idle == pc[Watcher] = "idle" /\ batch = {}

\* The debouncer hands over some of the paths with events, and reconcile
\* reads the .gitignore files.
Receive ==
    /\ Idle
    /\ ~cancelled
    /\ alive
    /\ \E paths \in (SUBSET dirty) \ {{}} :
        /\ batch' = paths
        /\ dirty' = dirty \ paths
    /\ matcher' = ignored
    /\ UNCHANGED <<writerVars, diskVars, scanVars, taskVars, watching, seen, alive, ctlVars,
                   faults>>

\* An error instead of events (the queue of inotify overflowed): the changes
\* behind it are never looked at.
LoseEvents ==
    /\ CanFail /\ CountFault
    /\ \E lost \in (SUBSET dirty) \ {{}} : dirty' = dirty \ lost
    /\ UNCHANGED <<writerVars, diskVars, scanVars, taskVars, watching, batch, matcher,
                   seen, alive, ctlVars>>

DropBatch ==
    /\ pc[Watcher] = "idle"
    /\ cancelled
    /\ batch # {}
    /\ batch' = {}
    /\ UNCHANGED <<writerVars, diskVars, scanVars, taskVars, watching, dirty, matcher,
                   seen, alive, ctlVars, faults>>

\* The cancellation check before each path.
Visit(f) ==
    /\ pc[Watcher] = "idle"
    /\ ~cancelled
    /\ f \in batch
    /\ batch' = batch \ {f}
    /\ key' = [key EXCEPT ![Watcher] = f]
    /\ Advance(Watcher, "visit")
    /\ UNCHANGED <<tableVars, st, arg, diskVars, scanVars, text, recs, watching, dirty,
                   matcher, seen, alive, ctlVars, faults>>

\* What is done with the path, whether or not a stop has come since.
At(f) ==
    /\ pc[Watcher] = "visit"
    /\ key[Watcher] = f
    /\ UNCHANGED <<diskVars, scanVars, text, recs, watching, dirty, batch, matcher, alive,
                   ctlVars>>

\* Mutant of VisitSkips: a file seen once is skipped whatever its mtime.
VisitSkipsSeen(f) ==
    /\ At(f)
    /\ f \in matcher \/ (disk[f] # Absent /\ seen[f] # 0)
    /\ Advance(Watcher, "idle")
    /\ UNCHANGED <<writerVars, seen, faults>>

\* Ignored, or saved no later than the mtime seen last.
VisitSkips(f) ==
    /\ At(f)
    /\ f \in matcher \/ (disk[f] # Absent /\ seen[f] = mtime[f])
    /\ Advance(Watcher, "idle")
    /\ UNCHANGED <<writerVars, seen, faults>>

\* reconcile calls index_one_file.
Reindex(f) ==
    /\ At(f)
    /\ f \notin matcher
    /\ disk[f] # Absent
    /\ Advance(Watcher, "open")
    /\ UNCHANGED writerVars

\* Mutant of VisitIndexes: the mtime is not recorded.
VisitForgets(f) ==
    /\ Reindex(f)
    /\ seen[f] # mtime[f]
    /\ UNCHANGED <<seen, faults>>

\* The mtime is recorded before the file is indexed.
VisitIndexes(f) ==
    /\ Reindex(f)
    /\ seen[f] # mtime[f]
    /\ seen' = [seen EXCEPT ![f] = mtime[f]]
    /\ UNCHANGED faults

\* The mtime cannot be read: the file is indexed all the same.
VisitIndexesUnseen(f) ==
    /\ CanFail /\ CountFault
    /\ Reindex(f)
    /\ UNCHANGED seen

\* is_file is false for a file that is gone, and for one it cannot stat.
VisitPrunes(f) ==
    /\ At(f)
    /\ f \notin matcher
    /\ \/ disk[f] = Absent /\ UNCHANGED faults
       \/ disk[f] # Absent /\ CanFail /\ CountFault
    /\ seen' = [seen EXCEPT ![f] = 0]
    /\ CallReplace(Watcher, f, <<>>)
    /\ Advance(Watcher, "write")

Reconcile(f) ==
    Visit(f) \/ VisitSkips(f) \/ VisitIndexes(f) \/ VisitIndexesUnseen(f) \/ VisitPrunes(f)
----------------------------------------------------------------------------
(* The environment: the user, ResourceManager.stop, a crash of the daemon. *)

\* 0 before the watch is registered, 1 until the scan is done, 2 after it.
Stage ==
    IF ~watching THEN 0 ELSE IF scan = "walking" THEN 1 ELSE 2

Edit(f, v) ==
    /\ Stage \in EditStages
    /\ edits < MaxEdits
    /\ {v, disk[f]} # {Absent}
    /\ disk' = [disk EXCEPT ![f] = v]
    /\ mtime' = [mtime EXCEPT ![f] = edits + 2]
    /\ had' = [had EXCEPT ![f] = @ \cup {ChunksOf(v)}]
    /\ edits' = edits + 1
    /\ Notify(f)
    /\ UNCHANGED <<writerVars, ignored, ignores, scanVars, taskVars, watching, batch,
                   matcher, seen, alive, ctlVars, faults>>

\* The user changes a .gitignore file; that path itself is not indexable.
Ignore(f) ==
    /\ Stage \in EditStages
    /\ ignores < MaxIgnores
    /\ f \notin ignored
    /\ ignored' = ignored \cup {f}
    /\ ignores' = ignores + 1
    /\ UNCHANGED <<writerVars, disk, mtime, edits, had, scanVars, taskVars, watchVars,
                   ctlVars, faults>>

\* ResourceManager.stop finds the resource once its watcher is in `active`.
Stop ==
    /\ ~cancelled
    /\ watching = Watched
    /\ stops < MaxStops
    /\ cancelled' = TRUE
    /\ stops' = stops + 1
    /\ UNCHANGED <<writerVars, diskVars, scanVars, taskVars, watchVars, crashes, late, faults>>

\* The process dies and is started again on the same table: the resource is
\* resumed with a new writer, scan and watcher.  A stopped one is inactive
\* and not resumed.
Crash ==
    /\ ~cancelled
    /\ crashes < MaxCrashes
    /\ crashes' = crashes + 1
    /\ NewCache
    /\ queue' = <<>> /\ job' = NoCaller /\ up' = TRUE
    /\ st' = [c \in Caller |-> "idle"]
    /\ arg' = [c \in Caller |-> <<>>]
    /\ walk' = File /\ scan' = "walking"
    /\ pc' = [c \in Caller |-> "idle"]
    /\ text' = [c \in Caller |-> <<>>]
    /\ recs' = [c \in Caller |-> <<>>]
    /\ watching' = FALSE
    /\ dirty' = {} /\ batch' = {} /\ matcher' = {}
    /\ seen' = [f \in File |-> 0]
    /\ alive' = TRUE
    /\ cancelled' = FALSE
    /\ late' = [c \in Caller |-> 0]
    /\ UNCHANGED <<table, key, diskVars, stops, faults>>

User ==
    \/ \E f \in File, v \in Versions \cup {Absent} : Edit(f, v)
    \/ \E f \in File : Ignore(f)

\* Nothing is left to do: the daemon waits for a request or a change.
AtRest ==
    /\ scan = "done"
    /\ watching = Watched
    /\ Idle
    /\ cancelled \/ ~alive \/ dirty = {}
    /\ queue = <<>> /\ job = NoCaller
    /\ UNCHANGED vars

Next ==
    \/ \E f \in File : WalkVisit(f) \/ Acquire(f)
    \/ WalkStops \/ ScanDone
    \/ \E c \in Caller : IndexOneFile(c)
    \/ Background
    \/ StartWatch \/ Receive \/ LoseEvents \/ DropBatch
    \/ \E f \in File : Reconcile(f)
    \/ User \/ Stop \/ Crash
    \/ AtRest

\* Every task of the daemon that can run is run by the tokio scheduler, the
\* channel and the semaphore serve their waiters in order, and a request to
\* the model ends by its 120 s timeout (openai_client.rs:58).  Nothing is
\* assumed of the user, of stops, of faults and of crashes.
Fairness ==
    /\ \A f \in File : WF_vars(WalkVisit(f)) /\ WF_vars(Acquire(f))
    /\ WF_vars(WalkStops) /\ WF_vars(ScanDone)
    /\ \A c \in Caller :
        /\ WF_vars(IndexOneFile(c))
        /\ SF_vars(SendJob(c) /\ Send(c))
    /\ WF_vars(Background)
    /\ WF_vars(StartWatch) /\ WF_vars(Receive) /\ WF_vars(DropBatch)
    /\ \A f \in File : WF_vars(Reconcile(f))

Spec == Init /\ [][Next]_vars /\ Fairness
----------------------------------------------------------------------------
TypeOK ==
    /\ WriterTypeOK
    /\ disk \in [File -> Versions \cup {Absent}]
    /\ mtime \in [File -> Nat]
    /\ had \in [File -> SUBSET Texts]
    /\ walk \subseteq File /\ scan \in {"walking", "done"}
    /\ pc \in [Caller -> {"idle", "permit", "visit"} \cup Working \cup Ended]
    /\ text \in [Caller -> Texts]
    /\ recs \in [Caller -> Seq(Fingerprint)]
    /\ watching \in BOOLEAN /\ alive \in BOOLEAN /\ cancelled \in BOOLEAN
    /\ ignored \subseteq File /\ matcher \subseteq File
    /\ dirty \subseteq File /\ batch \subseteq File
    /\ seen \in [File -> Nat]
    /\ {edits, ignores, faults, stops, crashes} \subseteq Nat
    /\ late \in [Caller -> Nat]

\* What the table shows of a file is one version the file really had, whole,
\* with the vectors the model gave for those very chunks; or nothing.  At
\* risk from a vector reused by index when another version's chunk stood
\* there, a stale cache, a shorter version that leaves a tail, a write half
\* done at a crash, and a vector of the wrong length.
IndexShowsRealVersion ==
    \A f \in File : \E v \in had[f] : FileRows(table, f) = Batch(f, Vectors(v))

\* The same promise, and that a step changes what is shown of one file at
\* most, as an implementation of FileIndex.
Shown(f) == Hashes(FetchFingerprints(table, f))

Index == INSTANCE FileIndex WITH
    Text <- Texts,
    had <- had,
    shown <- [f \in File |-> Shown(f)]

IndexSpec == Index!Spec

\* watcher.rs:130: after a stop what is being done to a single file finishes, and
\* no new work is picked up.  A stop can fall between any check of the token and
\* what the check allows (resource.rs:282 and 286, 334 and 352, watcher.rs:161 and
\* 218), so a task may still read one file or send one job, but no task does more:
\* not a write after a late read, nor a second path of the batch.
OneStepAfterStop == \A c \in Caller : late[c] <= 1

\* resource.rs:338: the write is skipped only where "nothing actually changed".
\* As long as no watcher works on the same files, the fingerprints a task was
\* given are still current when it compares, over its awaits and whatever the
\* other tasks, the writer, faults, stops and crashes do; but a look-up that
\* failed counts as "no chunks" (resource.rs:298), so that after one a file that
\* is empty now is skipped and keeps showing its old chunks.
SkipsUntilWatched ==
    [][~watching =>
        \A c \in Caller : SkipWrite(c) =>
            Shown(key[c]) = text[c] \/ (st[c] = "err" /\ text[c] = <<>>)]_vars

\* The initial scan always comes to its end (the row must leave `indexing`,
\* resource.rs:422-424), whatever fails: reads, requests, storage, the writer
\* task itself, and whether it is cancelled or not.
ScanFinishes == <>[](scan = "done")

\* watcher.rs:104: reconciling a file reads it, which is an event on it; the
\* watcher does not go on like that forever.
WatcherQuiesces == <>[](Idle /\ (Watched => cancelled \/ ~alive \/ dirty = {}))

\* README: edits, creates and deletes are picked up.  Once the user is done,
\* the index comes to show, for good, what is on disk of each file that may be
\* indexed (resource.rs:253, watcher.rs:61), and nothing of the others.
Wanted(f) == IF f \in ignored \cup Hidden THEN <<>> ELSE ChunksOf(disk[f])

UpToDate(f) == Shown(f) = Wanted(f)

Converges == <>[](\A f \in File : UpToDate(f))
----------------------------------------------------------------------------
(* The inductive invariant behind TypeOK and IndexShowsRealVersion.        *)

Faithful(fps) == \A i \in DOMAIN fps : fps[i].emb = fps[i].hash

\* fps are records of the first chunks of v, as the model answered for them.
RecordsOf(fps, v) ==
    /\ Len(fps) <= Len(v)
    /\ \A i \in DOMAIN fps :
        /\ fps[i].hash = v[i]
        /\ fps[i].emb \in {v[i], WrongDim}

\* Where the task of c and its call of the writer can stand together.
StatusOK(c) ==
    /\ pc[c] \in {"idle", "permit", "visit", "open", "read"} \cup Ended => st[c] = "idle"
    /\ pc[c] = "lookup" => st[c] \in {"idle", "fetch", "fill"}
    /\ pc[c] = "embed" => st[c] \in {"got", "err"}
    /\ pc[c] = "write" => st[c] \in {"send", "wait", "ok", "err"}

\* What c holds between two steps was, or comes from, a content of its file;
\* a vector it may reuse belongs to the chunk it is stored with.
TaskOK(c) ==
    /\ pc[c] \in {"lookup", "embed"} => text[c] \in had[key[c]]
    /\ pc[c] \notin {"embed", "write"} => recs[c] = <<>>
    /\ pc[c] = "embed" => RecordsOf(recs[c], text[c]) /\ Faithful(arg[c])
    /\ st[c] = "fill" => Faithful(arg[c])
    /\ st[c] \in {"send", "wait"} =>
        \E v \in had[key[c]] : RecordsOf(arg[c], v) /\ Len(arg[c]) = Len(v)

\* A caller waits once for each of its jobs.
QueueOK ==
    /\ \A i \in DOMAIN queue : st[queue[i]] = "wait" /\ queue[i] # job
    /\ \A i, j \in DOMAIN queue : queue[i] = queue[j] => i = j
    /\ job # NoCaller => st[job] = "wait" /\ Faithful(arg[job])

\* A file the walk has still to come to has no task yet.
WalkOK == \A f \in walk : pc[f] = "idle"

CacheFaithful == \A k \in DOMAIN cache : Faithful(cache[k])

HadOK == \A f \in File : {<<>>, ChunksOf(disk[f])} \subseteq had[f]

IInv ==
    /\ TypeOK
    /\ \A c \in Caller : StatusOK(c) /\ TaskOK(c)
    /\ QueueOK
    /\ WalkOK
    /\ CacheFaithful
    /\ HadOK
    /\ IndexShowsRealVersion

\* A task that has read or sent since the stop stands at no other such step.
LateOK(c) ==
    /\ ~cancelled => late[c] = 0
    /\ late[c] <= 1
    /\ late[c] = 1 => pc[c] \notin {"visit", "read"} /\ st[c] # "send"

LateInv == \A c \in Caller : LateOK(c)
============================================================================
