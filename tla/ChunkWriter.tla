---------------------------- MODULE ChunkWriter ----------------------------
(***************************************************************************)
(* ChunkWriter of src/src/resource.rs: one background task that applies    *)
(* every replace_file_chunks in turn, and a write-through cache of each    *)
(* file's fingerprints that callers read, and on a miss fill, without      *)
(* going through that task.                                                *)
(*                                                                         *)
(* Each caller has at most one call in progress.  A WriteJob is named by   *)
(* the caller that sent it: while the job is queued the caller waits, so   *)
(* key[c] and arg[c] are the job's contents.                               *)
(***************************************************************************)
EXTENDS ChunkStore

CONSTANTS
    Caller,     \* tasks that use the writer
    NoCaller,   \* the background task holds no job
    QueueCap    \* capacity of the mpsc channel (256 in the code)

ASSUME WriterAssumption ==
    /\ NoCaller \notin Caller
    /\ QueueCap \in Nat \ {0}

VARIABLES
    table,  \* the chunks table: a set of rows
    cache,  \* HashMap<FileKey, fingerprints>: a function on the cached keys
    queue,  \* callers whose WriteJob is in the channel
    job,    \* caller whose job is committed but not yet cached and answered
    up,     \* the background task has not panicked
    st,     \* st[c]: where the call of c stands
    key,    \* key[c]: the file of that call
    arg     \* arg[c]: chunks to write, or fingerprints read

tableVars == <<table, cache, queue, job, up>>
callVars == <<st, key, arg>>
writerVars == <<table, cache, queue, job, up, st, key, arg>>

\* "got": fingerprints returned; "ok"/"err": the call returned Ok/Err.
Returned == {"idle", "got", "ok", "err"}
Pending == {"fetch", "fill", "send", "wait", "evict"}

Free(c) == st[c] \in Returned

WriterTypeOK ==
    /\ table \subseteq Row
    /\ DOMAIN cache \subseteq Key
    /\ \A k \in DOMAIN cache : cache[k] \in Seq(Fingerprint)
    /\ queue \in Seq(Caller)
    /\ job \in Caller \cup {NoCaller}
    /\ up \in BOOLEAN
    /\ st \in [Caller -> Returned \cup Pending]
    /\ key \in [Caller -> Key]
    /\ arg \in [Caller -> Seq(Fingerprint)]

\* A freshly spawned writer on a table left by an earlier run.
WriterInit ==
    /\ cache = [k \in {} |-> <<>>]
    /\ queue = <<>>
    /\ job = NoCaller
    /\ up = TRUE
    /\ st = [c \in Caller |-> "idle"]
    /\ \E k \in Key : key = [c \in Caller |-> k]
    /\ arg = [c \in Caller |-> <<>>]

Set(c, status) == st' = [st EXCEPT ![c] = status]

\* The call of c returns "ok" or "err"; what it was given is dropped.
Return(c, status) ==
    /\ Set(c, status)
    /\ arg' = [arg EXCEPT ![c] = <<>>]

CacheInsert(k, chunks) ==
    cache' = [x \in DOMAIN cache \cup {k} |-> IF x = k THEN chunks ELSE cache[x]]

CacheKeep(S) == cache' = [x \in DOMAIN cache \cap S |-> cache[x]]
----------------------------------------------------------------------------
(* get_file_chunk_fingerprints: a cache look-up, then, on a miss, a read of *)
(* the table and an insertion into the cache, with an await between them.   *)

CacheHit(c, k) ==
    /\ Free(c)
    /\ k \in DOMAIN cache
    /\ Set(c, "got")
    /\ key' = [key EXCEPT ![c] = k]
    /\ arg' = [arg EXCEPT ![c] = cache[k]]
    /\ UNCHANGED tableVars

CacheMiss(c, k) ==
    /\ Free(c)
    /\ k \notin DOMAIN cache
    /\ Set(c, "fetch")
    /\ key' = [key EXCEPT ![c] = k]
    /\ arg' = [arg EXCEPT ![c] = <<>>]
    /\ UNCHANGED tableVars

GetFingerprints(c, k) == CacheHit(c, k) \/ CacheMiss(c, k)

FetchRows(c) ==
    /\ st[c] = "fetch"
    /\ Set(c, "fill")
    /\ arg' = [arg EXCEPT ![c] = FetchFingerprints(table, key[c])]
    /\ UNCHANGED <<tableVars, key>>

FetchFails(c) ==
    /\ st[c] = "fetch"
    /\ Return(c, "err")
    /\ UNCHANGED <<tableVars, key>>

FillCache(c) ==
    /\ st[c] = "fill"
    /\ CacheInsert(key[c], arg[c])
    /\ Set(c, "got")
    /\ UNCHANGED <<table, queue, job, up, key, arg>>
----------------------------------------------------------------------------
(* replace_file_chunks, the caller's half: send a job, await the answer.   *)

CallReplace(c, k, chunks) ==
    /\ Free(c)
    /\ Set(c, "send")
    /\ key' = [key EXCEPT ![c] = k]
    /\ arg' = [arg EXCEPT ![c] = chunks]
    /\ UNCHANGED tableVars

SendJob(c) ==
    /\ st[c] = "send"
    /\ up
    /\ Len(queue) < QueueCap
    /\ queue' = Append(queue, c)
    /\ Set(c, "wait")
    /\ UNCHANGED <<table, cache, job, up, key, arg>>

SendFails(c) ==
    /\ st[c] = "send"
    /\ ~up
    /\ Return(c, "err")
    /\ UNCHANGED <<tableVars, key>>
----------------------------------------------------------------------------
(* The background task.  It handles one job to its end, the cache update   *)
(* and the answer included, before it receives the next.                   *)

HasWrongDim(chunks) == \E i \in DOMAIN chunks : chunks[i].emb = WrongDim

Receiving == up /\ job = NoCaller /\ queue # <<>>

\* Mutant of Commit: the dimensions are not asserted.
CommitUnchecked ==
    /\ Receiving
    /\ table' = ReplaceFileChunks(table, key[Head(queue)], arg[Head(queue)])
    /\ job' = Head(queue)
    /\ queue' = Tail(queue)
    /\ UNCHANGED <<cache, up, callVars>>

Commit ==
    /\ Receiving
    /\ LET c == Head(queue)
       IN  /\ ~HasWrongDim(arg[c])
           /\ table' = ReplaceFileChunks(table, key[c], arg[c])
           /\ job' = c
    /\ queue' = Tail(queue)
    /\ UNCHANGED <<cache, up, callVars>>

\* merge_insert returns an error: nothing is written, nothing is cached.
CommitFails ==
    /\ Receiving
    /\ ~HasWrongDim(arg[Head(queue)])
    /\ queue' = Tail(queue)
    /\ Return(Head(queue), "err")
    /\ UNCHANGED <<table, cache, job, up, key>>

\* Mutant of Panic: the callers whose jobs are lost keep waiting.
PanicStrands ==
    /\ Receiving
    /\ HasWrongDim(arg[Head(queue)])
    /\ up' = FALSE
    /\ queue' = <<>>
    /\ UNCHANGED <<table, cache, job, callVars>>

\* The dimension assertion fails: the task dies, the channel closes, and
\* every job in it is dropped, which its sender sees as an error.
Panic ==
    /\ Receiving
    /\ HasWrongDim(arg[Head(queue)])
    /\ up' = FALSE
    /\ queue' = <<>>
    /\ st' = [c \in Caller |-> IF st[c] = "wait" THEN "err" ELSE st[c]]
    /\ arg' = [c \in Caller |-> IF st[c] = "wait" THEN <<>> ELSE arg[c]]
    /\ UNCHANGED <<table, cache, job, key>>

\* Mutant of Publish: a prune leaves the file's cache entry.
PublishKeepsPruned ==
    /\ job # NoCaller
    /\ IF arg[job] = <<>> THEN UNCHANGED cache ELSE CacheInsert(key[job], arg[job])
    /\ Return(job, "ok")
    /\ job' = NoCaller
    /\ UNCHANGED <<table, queue, up, key>>

\* An empty chunk set evicts the file, any other is cached; then the caller
\* is answered.
Publish ==
    /\ job # NoCaller
    /\ IF arg[job] = <<>>
       THEN CacheKeep(Key \ {key[job]})
       ELSE CacheInsert(key[job], arg[job])
    /\ Return(job, "ok")
    /\ job' = NoCaller
    /\ UNCHANGED <<table, queue, up, key>>
----------------------------------------------------------------------------
(* delete_resource_chunks: on the table directly, then on the cache.       *)

DeleteRows(c, k) ==
    /\ Free(c)
    /\ table' = DeleteResource(table, Owner[k])
    /\ Set(c, "evict")
    /\ key' = [key EXCEPT ![c] = k]
    /\ arg' = [arg EXCEPT ![c] = <<>>]
    /\ UNCHANGED <<cache, queue, job, up>>

DeleteFails(c, k) ==
    /\ Free(c)
    /\ Return(c, "err")
    /\ key' = [key EXCEPT ![c] = k]
    /\ UNCHANGED tableVars

EvictResource(c) ==
    /\ st[c] = "evict"
    /\ CacheKeep({k \in Key : Owner[k] # Owner[key[c]]})
    /\ Return(c, "ok")
    /\ UNCHANGED <<table, queue, job, up, key>>
----------------------------------------------------------------------------
(* The writer under any callers: each may make any call on any file at any *)
(* time, also on one that another call is working on, as the scan and the  *)
(* watcher do.  (In the repository only tests call the deletion.)          *)

CONSTANT ChunkLists  \* chunk lists a caller may submit (bounds the runs)

ASSUME ListsAssumption == ChunkLists \subseteq Seq(Fingerprint)

Call(c, k) ==
    \/ GetFingerprints(c, k)
    \/ \E chunks \in ChunkLists : CallReplace(c, k, chunks)
    \/ DeleteRows(c, k) \/ DeleteFails(c, k)

Continue(c) ==
    \/ FetchRows(c) \/ FetchFails(c) \/ FillCache(c)
    \/ SendJob(c) \/ SendFails(c)
    \/ EvictResource(c)

WriterTask == Commit \/ CommitFails \/ Panic \/ Publish

WriterNext ==
    \/ \E c \in Caller, k \in Key : Call(c, k)
    \/ \E c \in Caller : Continue(c)
    \/ WriterTask

\* A caller's own steps and the background task are run by the tokio
\* scheduler, and the channel serves its senders in order; making a call at
\* all is the caller's choice.
WriterFairness ==
    /\ \A c \in Caller :
        /\ WF_writerVars(FetchRows(c) \/ FetchFails(c))
        /\ WF_writerVars(FillCache(c))
        /\ SF_writerVars(SendJob(c))
        /\ WF_writerVars(SendFails(c))
        /\ WF_writerVars(EvictResource(c))
    /\ WF_writerVars(WriterTask)

\* The chunks table as open_or_create_table first creates it.
EmptyInit == table = {} /\ WriterInit

WriterSpec ==
    /\ EmptyInit
    /\ [][WriterNext]_writerVars
    /\ WriterFairness
----------------------------------------------------------------------------
\* The index a reader of the table sees is a function of the file and the
\* chunk number: no chunk_key occurs twice, and the chunks of a file are
\* numbered without a gap.  merge_insert from several writers at once, or a
\* replacement that leaves a shorter version's tail behind, would break it.
TableWellFormed ==
    /\ UniqueKeys(table)
    /\ \A row \in table : \A i \in 1 .. row.index :
          \E other \in FileRows(table, row.key) : other.index = i

\* Replacing one file's chunks (db.rs:425-435: the delete of merge_insert is
\* scoped by resource and path), pruning it, or filling the cache with it leaves
\* the rows and the cache entry of every other file alone; a deletion, those of
\* every other resource.
Untouched(k) ==
    /\ FileRows(table', k) = FileRows(table, k)
    /\ k \in DOMAIN cache <=> k \in DOMAIN cache'
    /\ k \in DOMAIN cache => cache'[k] = cache[k]

Deletes(k) ==
    \E c \in Caller :
        (st[c] = "evict" /\ Owner[key[c]] = Owner[k]) # (st'[c] = "evict" /\ Owner[key'[c]] = Owner[k])

CommitTouchesOneFile ==
    [][\E k \in Key : \A l \in Key \ {k} : Untouched(l) \/ Deletes(l)]_writerVars

\* The cache may differ from the table on a file whose job is committed and not
\* yet published, or of a resource deleted and not yet evicted.
Unsettled(k) ==
    \/ job # NoCaller /\ key[job] = k
    \/ \E c \in Caller : st[c] = "evict" /\ Owner[key[c]] = Owner[k]

Agrees(k) == k \in DOMAIN cache => Unsettled(k) \/ cache[k] = FetchFingerprints(table, k)

\* The table has changed since c read these rows, or since its job committed them.
Overtaken(c) == arg[c] # FetchFingerprints(table, key[c])

\* resource.rs:63-65: the cache "can never observe a chunk set the DB doesn't
\* also have".  It can, but in two ways only, whichever calls overlap on a file
\* and fail: a fill (lines 130-136) inserts rows that were replaced while it
\* awaited them, and the writer caches chunks that were deleted before it did.
OnlyOvertakenSpoil ==
    [][\A k \in Key : Agrees(k) /\ ~Agrees(k)' =>
        \E c \in Caller : /\ key[c] = k /\ Overtaken(c)
                          /\ FillCache(c) \/ (c = job /\ Publish)]_writerVars

\* Every call of the writer is answered, whatever fails: a read or a write
\* error, a full channel, and also the death of the background task, which
\* must release both the callers waiting for room in the channel and those
\* whose job it will never reach (resource.rs:166-171).
EveryCallReturns == \A c \in Caller : ~Free(c) ~> Free(c)
----------------------------------------------------------------------------
(* The inductive invariant behind TableWellFormed and OnlyOvertakenSpoil.    *)

\* The rows of a file are those of a chunk list.
TableShowsLists ==
    \A k \in Key :
        LET chunks == FetchFingerprints(table, k)
        IN  chunks \in Seq(Fingerprint) /\ FileRows(table, k) = Batch(k, chunks)

\* A job in the channel, or committed, belongs to a caller that waits.
JobsOK ==
    /\ \A i \in DOMAIN queue : st[queue[i]] = "wait" /\ queue[i] # job
    /\ \A i, j \in DOMAIN queue : queue[i] = queue[j] => i = j
    /\ job # NoCaller => st[job] = "wait"

WriterInv == WriterTypeOK /\ TableShowsLists /\ JobsOK
============================================================================
