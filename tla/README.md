# ragd: specifications

TLA+ models of `ragd`, a daemon that indexes directories into a table of embedded
chunks, keeps the table current, and answers questions from it. The models are checked
with TLC on small instances; the theorems are checked with TLAPS for every value of
the constants. File names and line numbers refer to `src/src/` of the repository
unless a path says otherwise.

## The system

| component | state it keeps | operations | correct when |
| --- | --- | --- | --- |
| chunk store (`db.rs`) | the `chunks` table | replace the chunks of a file in one `merge_insert`, delete those of a resource, read fingerprints, vector search | one gapless chunk list per file; a write touches one file |
| chunk writer (`resource.rs` 40-173) | a channel of 256 jobs, one background task, a fingerprint cache | `replace_file_chunks`, `get_file_chunk_fingerprints`, `delete_resource_chunks` | writes are serialized; every call is answered; the cache differs from the table only where a look-up was overtaken |
| scan (`resource.rs` 182-356) | a walk, 4 permits, one task per file | `index_resource`, `index_one_file` | the table shows whole versions; unchanged chunks are not embedded again; the scan ends |
| watcher (`watcher.rs`) | OS watch, debounced events, `seen_mtimes` | `spawn`, `reconcile`, `stop` | edits, creations and deletions reach the index; it does not wake itself; a stop stops |
| resource lifecycle (`resource.rs` 380-491, `server.rs` 112-196, `main.rs` 73-85, `db.rs` 328-379) | the `resources` table, the manager's map of watchers | add, remove, start, stop, resume, the report of a scan | names are unique but where insertions clash; removed means stopped; what runs can be stopped; a restart resumes what was active |
| chunker (`chunker.rs`) | none | `chunk_file` | every row with text in a chunk; both budgets kept; ends; no panic |
| query (`server.rs` 245-297) | a handler per request | `POST /query` | quotes one version of a file; "no match" exactly where nothing is indexed; always a reply |
| model client (`openai_client.rs`) | none | `embed`, `chat` | a vector, an answer or an error within 120 s |
| configuration, errors, crate root | none | | |

How they interact. `POST /resources` and `main` call `ResourceManager::start`, which
spawns a scan and a watcher that share a cancellation token. Both run `index_one_file`
on a path: read the file, read the stored fingerprints through the cache, embed what
changed, send the new chunk list to the writer task and await its answer. Nothing
orders two such runs on one path but the writer task, and only for the last step.
Handlers and scans also share the `resources` table, which they update by reading a
row, changing it and writing it back.

What is hard: the interleaving of scan, watcher and writer on one file; state read
before an await and used after it (fingerprints, resource rows, the ignore matcher);
cancellation between checks; one step of several failing (an embedding, a storage
error, a vector of the wrong length, which kills the writer task); crashes between a
commit and what follows it; and an event source that the program itself triggers.
`PROJECT.json` lists these hazards line by line.

## The modules

| module | what it is |
| --- | --- |
| `ChunkStore` | the `chunks` table as operators on a set of rows |
| `ChunkWriter` | the writer task, its channel, the cache and the calls on them, in the steps between awaits |
| `FileIndex` | abstract: what the index promises a reader |
| `IndexPipeline` | scan, watcher and writer on one resource, with user, faults, stop and crash; implements `FileIndex` |
| `ResourceLifecycle` | add, remove, start, stop, report and resume, over the `resources` table |
| `Chunker` | the window loops of `chunk_code` and `chunk_text`, one step per window |
| `QueryHandler` | `POST /query` and its requests to the model, composed with `IndexPipeline` |
| `ChunkStoreProofs`, `ChunkWriterProofs`, `IndexPipelineProofs`, `ResourceLifecycleProofs`, `ChunkerProofs`, `QueryHandlerProofs` | lemmas and theorems |
| `MC*` | instances for TLC |

**ChunkStore and ChunkWriter.** `table` is the set of rows, `cache` the `HashMap`,
`queue` the mpsc channel, `job` the job whose write is committed and whose answer is
not yet sent, `up` whether the task lives. A caller stands at `st[c]` with its file
`key[c]` and its chunks or fingerprints `arg[c]`. A look-up is `CacheHit`, or
`CacheMiss`, `FetchRows`, `FillCache`, the three steps the code makes with awaits
between. A replacement is `CallReplace`, `SendJob` (which waits for room), then the
task's `Commit` and `Publish`. `Panic` is the dimension assertion of `db.rs:403`: the
task dies, the channel closes, queued callers get an error. Any caller may make any
call at any time, also on a file that another call is working on, as scan and watcher
do. `merge_insert` is one step, and writes nothing if it fails (LanceDB commits a new
table version or none).

**IndexPipeline.** The task of file `f` is the caller `f`, the watcher loop the caller
`Watcher`. A content is the sequence of its chunks, `Absent` when the file is gone.
`pc[c]` names the step of `index_one_file`: `open` (the cancellation check), `read`,
`lookup`, `embed` (one step per chunk, reused or asked for; at its end the second
check), `write`. A check of the token and what it allows are two steps: a stop may
fall between `Open` and `Read`, between `Write` and `Send`, and between `Visit` and
what is done with the path. A read opens the file and so raises an event on it, as
inotify does, also if it then fails. `late` counts what a task has done since the
stop, for the properties only. `dirty` stands for the debouncer and the unbounded
channel: paths with an event not yet handled. `Receive` takes any part of it as a
batch and reads the ignore files; `Visit` checks the token and takes up a path;
`VisitSkips`, `VisitIndexes` and `VisitPrunes` are the three outcomes of one turn of
the loop of `reconcile`. A file whose mtime cannot be read is indexed all the same
(`VisitIndexesUnseen`), and one that cannot be examined at all counts as gone. Two
things go wrong outside of any request: `LoseEvents` drops events that the debouncer
reports as an error (`watcher.rs:111-116`), and `ChunkingPanics` is a panic of
`chunk_file`, which ends the task of one file in the scan and the whole loop in the
watcher (`alive`). `Crash` restarts the process on the same table.

**ResourceLifecycle.** A request stands at `task[q].pc`, one step per await: `by_uri`,
`by_name`, `insert` for an add, `find`, `deactivate`, `halt` for a removal, and
`stop`, `load`, `mark`, `spawn`, `register` for `start`, which `main` runs too. A run
is what a start spawns; its scan reads the row (`ScanReads`) and writes it back
(`ScanReports`) in two steps. Requests overlap as they like, also on one resource.
`Disconnect` drops a handler at any of its awaits, as axum does when the client closes
its connection. A watcher dropped before `register` leaves its loop on a closed
channel, which `watcher.rs:116` turns into a busy loop (`"spinning"`); an entry
overwritten by `register` does the same. Two history variables, read by properties
only, remember what the code does not: `lapses`, the places at which this process
dropped a request half done, and stops that came while the resource was being started;
and `clashed`, the names of two adds of which one inserted its row after the other had
looked the name or the URI up.

**Chunker.** A file is its rows, the bytes before each, and the rows on which its
top-level nodes end: what the loops read of it. A node that includes the last line
break (a `///` or `//!` comment at the end of a Rust file) ends on the row after the
last. `Window` and `OversizedWindow` are a turn of the outer loop of `chunk_code`,
with its inner loop as the choice of the last node that fits (`Packs`); `TextWindow`
is a turn of `chunk_text`, on a whole file or on an oversized window. `Panic` is what
the subtractions (if overflow is checked) and row ranges do where they are out of
bounds; `Checked` and `WordSize` tell a debug build from one that wraps.

**QueryHandler.** `ask[q]` is where the handler of a query stands, or its reply.
`Search` reads one version of the table and takes as many rows as asked for, or all
there are, whichever they be: the distance is left out. The model's failures are
`ModelFails`, `TimesOut` and `WrongLength` (the assertion of `db.rs:572`, which
`CatchPanicLayer` turns into a reply); the first two can strike at either request, the
last one in the search. `Indexing` is any step of `IndexPipeline`.

Steps taken as one, and why nothing is lost. Receiving a job and committing it, and
updating the cache and answering: the task is alone, and nobody sees the state
between. Building a job after its cancellation check: this is the task's own, and a
stop in between is one that comes before `Send`. Reading a file: a torn read raises
another event. Simplifications of data: hashes are injective on the contents of a run;
every save has an mtime of its own; a chunk's line numbers and timestamps are left
out.

Definitions named as mutants in a comment are variants of the next definition with one
plausible mistake. No specification uses them; substituted for it, they show that the
property is sensitive to that code.

## The runs

| run | instance | what it shows |
| --- | --- | --- |
| `writer` | 2 callers, 2 files, 1 slot, chunk lists of 0, 1, 2 chunks and one with a wrong vector | `TableWellFormed`, `CommitTouchesOneFile`, `OnlyOvertakenSpoil`, `EveryCallReturns`, for callers that may share a file |
| `scan` | 2 files, 2 permits, contents absent, empty, 1 or 2 chunks, 1 edit, 1 ignore, 1 crash | the table shows whole real versions and implements `FileIndex` |
| `watch` | 1 file, scan and watcher, contents absent, empty or 2 chunks, 1 edit, 1 ignore, 1 fault, 1 stop | the same under faults and a stop; at most one more step of each task after a stop; skips are right until the watch is registered; the scan ends; the watcher comes to rest |
| `converge` | 2 files, 1 permit, contents absent, 1 or 2 chunks, 2 edits after the scan | the index comes to show what is on disk |
| `requests` | 2 URIs, 2 names, 2 adds and 1 removal, 2 at a time, 1 fault, 1 crash | names unique but where insertions clash, removed resources stopped but where the stop came during a start, nothing runs that cannot be stopped but in three named cases, resumption complete, status reported |
| `split` | every file of up to 4 rows (empty, short, or longer than the character budget), up to 3 nodes ending anywhere, also past the end; windows of 2 rows with an overlap of 2; overflow checked | budgets, no loss, no panic on orderly files, bounded work |
| `query` | 1 query with `top_k` 0, 3 or none (clamped to 1..2), 1 file of 1 or 3 chunks, 1 edit, 1 fault, 1 crash | what is quoted is one version; "no match" exactly if nothing is indexed; a reply always comes |

The bounds. Two files are the least that can share permits, channel and writer; one
file is enough where scan and watcher meet on it, since they meet per file. Two
contents that share a chunk at different positions, of different lengths, are the
least that tell reuse by hash from reuse by index, and a replaced list from an
extended one. A channel of one slot makes senders wait. One edit with the file's
content and the table's prior content chosen freely gives three versions of a file in
play. One fault is any of: read or stat error, embedding error, vector of the wrong
length, storage error on read or write, lost events, a panic of the chunker; in
`requests` a storage error, a watch that cannot be registered, or a client that
leaves. There two adds are the least that can clash, and with a removal the least in
which a stop can meet a start; a third add would only repeat the look-ups of the
second. In `split` the overlap is as large as a window, the case in which a loop could
stand still, and three nodes allow two on one row before or after a third. Symmetry
(of files) is used only for safety. `AtRest` is the state in which the daemon waits;
it stutters, so that deadlock checking stays on for every other state.

Fairness. Weak fairness of each task: the tokio scheduler runs every task that can
run. Strong fairness of a send: the channel's semaphore serves waiters in order.
`Embed` is taken eventually because a request ends by its 120 s timeout
(`openai_client.rs:58`); for the same reason `Handle` of a query is fair. Edits,
faults, stops, requests and crashes are never assumed to happen or not to.

### Where the code and its documentation disagree

In five places a run refutes what is promised; the finding in `PROJECT.json` quotes
the line.

| run | what happens |
| --- | --- |
| `race` | The scan reads a file, the watcher indexes a newer save, the scan then writes the older chunks; the mtime is recorded, so nothing repairs it. |
| `retry` | `reconcile` records the mtime before it indexes, and ignores the result: one failure (a read, an embedding, a storage error) leaves the file stale until the next save. |
| `resurrect` | A scan that ends during a removal writes the old row back: the resource is active again. |
| `readd` | A removed resource that is added again is answered "ok" and stays inactive. |
| `overlap` | A removal during an add stops nothing, and the watcher runs on (`RemovedIsStopped`). |

In five more a promise fails in known cases only. The property states these cases, so
that the run, and the theorem, show that there is no other; each is a finding too.

| promise | property | where it fails |
| --- | --- | --- |
| The cache "can never observe a chunk set the DB doesn't also have" (`resource.rs:65`). | `OnlyOvertakenSpoil` | A fill inserts rows that were replaced while it awaited them, or the writer caches what was deleted in between. |
| A write is skipped where "nothing actually changed" (`resource.rs:338`). | `SkipsUntilWatched` | A failed fingerprint read counts as "no chunks", so that an emptied file is taken as unchanged; and, not covered by the property, the fingerprints are old once a watcher works on the file. |
| A name "must be unique" (`README.md:141` of the repository). | `NamesUnique` | Two adds both look up before either inserts. |
| Dropping a watcher stops its task (`watcher.rs:51-53`). | `RunsHeld` | An entry overwritten by a clashing start, or a handler dropped before it registers the watcher, leaves a spinning loop. A failed watch also leaves a scan nobody can stop. |
| If nothing indexed is relevant, a query says so (`README.md:214-215` of the repository). | `NoMatchIffNothingIndexed` | The search has no threshold of relevance: only an empty index gives no sources. |

More follow from the same models, seen by changing one constant of a run, and have no
run of their own.

- `Converges`, with the change: an edit between the walk and the registration of
  the OS watch is lost (`EditStages = {0}`); a file deleted while the daemon was
  down is never pruned (`Orphans = TRUE`); a file that a `.gitignore` names only after
  it was indexed keeps its chunks, although `watcher.rs:61` says they are pruned
  (`MaxIgnores = 1`); the watcher indexes a hidden file, which the scan passes
  over, although `resource.rs:255` says they cannot diverge (`Hidden = {f1}`); lost
  events are not made up for, and a panic of the chunker ends the watcher
  (`MaxFaults = 1`). This is why `converge` starts its edits when the scan is done, and
  has no faults and no prior orphans: these are the conditions under which the
  promise holds.
- `SplitsCleanly` without `Orderly`: a file whose last top-level node ends past its
  last row makes `chunk_file` panic in every build, although `error.rs:26` keeps
  panics for broken invariants of the program; so does, where overflow is
  checked, a row that holds the ends of two nodes and is over the budget by
  itself. In a release build (`Checked = FALSE`) the latter yields a chunk without
  rows (`HasContent`), and rows between the nodes that follow may be skipped.

A stale cache entry is harmless for what the table shows (see the theorems): a
fingerprint pairs a hash with its own vector, and a stale one can only cause a write
or a skip.

## The theorems

Proofs need no bound on a run: every constant is arbitrary, under the assumption named
in its module.

`ChunkStoreProofs` proves what the table operators do: after a replacement a file
shows exactly the new list, other files show what they did, a fingerprint read of a
list returns that list.

`ChunkWriterProofs` proves, for any callers, on one file or several, any channel size
and any chunk lists (`StoreAssumption`, `WriterAssumption`, `ListsAssumption`):

- `WriterTypeCorrect` and `TableCorrect`: `WriterTypeOK` and `TableWellFormed` are
  invariants of `WriterSpec`.
- `OneFileAtATime`: `WriterSpec => CommitTouchesOneFile`. Every step leaves rows and
  cache entries alone outside one file, or is part of a deletion.
- `CacheSpoiledByOvertaken`: `WriterSpec => OnlyOvertakenSpoil`.

The cache and the table agree on a file (`Agrees`) but where its job is committed and
not published, or its resource deleted and not evicted (`Unsettled`). The last theorem
says which steps end this agreement: a `FillCache` or a `Publish` whose chunks are no
longer what the table shows (`Overtaken`), and none other. It rests on `WriterInv`:
`TableShowsLists` is the inductive form of `TableWellFormed` and gives the type of
what a read returns, and `JobsOK` says that the job in hand is that of a caller which
waits, so that its file is the one published.

`IndexPipelineProofs` proves, for any finite or infinite set of files, versions,
permits, channel size and bounds, from `StoreAssumption`, `WriterAssumption` and
`PipelineAssumption`:

- `TypeCorrect`: `Spec => []TypeOK`.
- `IndexCorrect`: `Spec => []IndexShowsRealVersion`. What the table shows of a
  file is one whole version it really had, whatever interleaves.
- `Refinement`: `Spec => IndexSpec`. Every step shows one more real version of at
  most one file, or changes nothing shown.
- `StopLeavesOneStep`: `Spec => []OneStepAfterStop`. A task that has read a file or
  sent a job since the stop stands at no step from which it could do so again
  without a check (`LateOK`), wherever the stop fell.
- `SkipsRightUntilWatched`: `Spec => SkipsUntilWatched`. Until the OS watch is
  registered, a write is skipped only for a file that is shown as just read, or for
  an emptied one whose look-up failed.
- `CallersServed`: who waits for the writer has a job in the channel or in hand, and
  the writer lives. This is the part of `EveryCallReturns` and `ScanFinishes` that is
  about states.

The invariant. `IndexShowsRealVersion` is not inductive: a commit keeps it only if the
job holds a whole version. `IInv` adds what each task holds: the content it read is
one the file had (`TaskOK`), its records are those of the first chunks of that
content, with a vector that is either of that chunk or of the wrong length
(`RecordsOf`), and a job in the queue holds all of them. Records can be reused from
fingerprints, so the cache and the fingerprints a task has read must pair each hash
with its own vector (`CacheFaithful`, `Faithful`), which a commit provides because a
wrong vector never gets past the assertion. `QueueOK` says a caller waits once for
each job, so a job's content is not changed while it waits. Faults, stops and crashes
only drop such state. The proof has one lemma per action; most actions leave all but
one task alone, and share `QuietStep`.

That a skip is right needs more than faithful fingerprints: they must be current.
`SkipInv` says so while the scan's tasks are alone, each on its own file (`Alone`):
what a task has read is what the table still shows (`ReadsFresh`), and so is what is
cached, but for the file of the job in hand (`JobShown`, `CacheSettled`). It holds
until a watch is registered, and again after a restart (`UntilWatched`). With a
watcher on the same file it fails: this is the place where the two share a file
without a lock.

`ResourceLifecycleProofs` proves, from `LifecycleAssumption`, for any URIs, names,
requests that overlap in any way, faults, disconnects and crashes:

- `TypeCorrect`: `Spec => []TypeOK`.
- `NamesStayUnique`, `RemovedStops` and `RunsAreHeld`: `NamesUnique`, `RemovedIsQuiet`
  and `RunsHeld` are invariants, with no exception but those they state.
- `LoopsAreHeld`: a loop that can still see an event is held by the manager or about
  to be, whatever has clashed or been dropped.
- `ServesResumed`: `Spec => ServingResumed`.

The invariants. `TypeOK` needs that the table of runs is large enough: every run is
paid for by an add, or by a resource that `main` found active, and the starts made and
still owed never exceed these (`Budget` in `TInv`, with what each place of a task
implies).

`NInv` says what look-ups and copies are worth later. A name looked up and not found
is still free at the insertion, and a row that a start, a removal or a scan has read
still has that name (`Shares`), unless an insertion has come in between; then both
names are in `clashed`, which never forgets. So a whole row written back from an old
copy restores the name that is there, and only an insertion can give a name twice.

`RInv` follows a run from the start that spawns it into the manager: while it is
registered it is live, not cancelled, of this start alone and in no entry. A stop
reaches only the loop the manager holds, so `RemovedIsQuiet` needs that every loop
that can still watch is held (`LiveHeld`).

`OneStart` says that a name no two insertions have disputed is started once in a
process: the add that inserted its row starts it, or `main` does, and no other add
passes the look-ups. This is why `register` overwrites an entry only after a clash,
and `LostKnown` that what has lost its handle is due to a lapse or to a clash.

`Resuming` says of `main` that, before it serves, rows keep name and status, what is
on its list has not been started and what is not is watched. `CopiesInactive` says a
copy that shows a row inactive is not older than the row, so that no start or report
makes a resource inactive whose removal is still to come; with it `Removed` (the form
of `RemovedIsQuiet` from the stop on) is inductive.

`ChunkerProofs` proves, for any file, node ends, windows, overlap and word size, with
overflow checked or not, from `ChunkerAssumption`:

- `TypeCorrect` and `WorkIsBounded`: `TypeOK` and `BoundedWork`. `Spent` counts, for
  each state, the chunks there can be: every chunk begins on a row of its own
  in the pass of its node.
- `BudgetKept`: `WithinBudget`.
- `CleanSplit` and `NoTextLost`: `SplitsCleanly` and `NothingLost`. `CInv` says that on
  an orderly file a window begins no later than where the last one ended, and no
  later than the end of the next node (`InPlace`), and that the rows behind it
  are covered (`NoGap`). `PackStops` is the point of the proof: where a window
  stops before a node that ends on the window's own last row, the window has more
  than that row, so the next can begin on it.

`QueryHandlerProofs` extends `IndexPipelineProofs` with the handlers, from
`QueryAssumption`: `QueryTypeCorrect`, `AnswersCorrect` and `NoMatchCorrect`. `QInv`
is `IInv` with the two invariants: a search takes rows of a table that shows real
versions, and a version a file has had is never unsaid (`HadGrows`), so rows held
while the model is asked stay quotable.

Only model-checked: all liveness (`EveryCallReturns`, `ScanFinishes`,
`WatcherQuiesces`, `Converges`, `ScanReported`, `EveryQueryAnswered`). TLAPS 1.4
proves no liveness under fairness. Every other property of a passing run is a theorem.

## Not modelled

Directories as watched paths (an event on one is skipped, so files moved with it
depend on their own events), saves that keep the mtime, the line numbers stored with a
chunk, which rows are nearest to a question, the parser (node ends are an input of
`Chunker`) and the tables of extensions and lock files, `GET /health` and
`GET /resources` (they read and change nothing), the wire format of the requests,
configuration, errors and logging.

## Plan

Done first, because it is what the daemon is for: the write path, then scan and
watcher on it, then the promise to readers and its proof, then the lifecycle.

Then the chunker and the query handler, with their proofs, and the faults that come
from outside: lost events, a panicking chunker, clients that leave.

Then the lifecycle's proofs, and what a skipped write relies on.

1. What `ScanReported` and `Converges` rest on as invariants, as `CallersServed` is for
   the writer: a row that says "indexing" has a scan still to report on it; a file
   not shown as it is has an event, a task or a later save to come.
2. An abstract specification of the lifecycle (a set of names, each watched or
   not) that `ResourceLifecycle` implements up to the findings.
3. `ResourceLifecycle` with the pipeline's stop and restart composed in; saves that
   keep the mtime.
