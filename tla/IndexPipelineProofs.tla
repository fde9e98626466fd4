------------------------ MODULE IndexPipelineProofs ------------------------
(***************************************************************************)
(* IInv is an invariant of the indexing pipeline, for every set of files,  *)
(* every set of versions, every capacity and every bound; with it, the     *)
(* table only ever shows versions the files really had, and the pipeline   *)
(* implements FileIndex.  Then what a stop, a skipped write and a wait     *)
(* for the writer rely on.                                                 *)
(***************************************************************************)
EXTENDS IndexPipeline, ChunkStoreProofs

USE StoreAssumption, WriterAssumption, PipelineAssumption

\* Everything IInv says of one caller is unchanged.
Same(d) ==
    /\ pc'[d] = pc[d] /\ st'[d] = st[d] /\ key'[d] = key[d]
    /\ text'[d] = text[d] /\ recs'[d] = recs[d] /\ arg'[d] = arg[d]

\* What IInv says of a caller does not change with the others, nor when
\* files are saved.
LEMMA CallerFrame ==
    ASSUME TypeOK, NEW d \in Caller, StatusOK(d) /\ TaskOK(d), Same(d),
           \A f \in File : had[f] \subseteq had'[f]
    PROVE  StatusOK(d)' /\ TaskOK(d)'
<1>1. key[d] \in File
  BY DEF TypeOK, WriterTypeOK
<1>2. StatusOK(d)'
  BY DEF StatusOK, Same
<1>3. TaskOK(d)'
  BY <1>1 DEF TaskOK, Same
<1> QED
  BY <1>2, <1>3

\* What the table shows does not change with the files.
LEMMA ShowsFrame ==
    ASSUME IndexShowsRealVersion, table' = table,
           \A f \in File : had[f] \subseteq had'[f]
    PROVE  IndexShowsRealVersion'
  BY DEF IndexShowsRealVersion

\* A step of one task that leaves the channel, the table and the directory
\* alone has only to keep what IInv says of that task and of the cache.
LEMMA TaskStep ==
    ASSUME IInv, TypeOK', NEW c \in Caller, st[c] # "wait",
           UNCHANGED <<table, queue, job, had, disk>>,
           \A d \in Caller \ {c} : Same(d),
           StatusOK(c)', TaskOK(c)',
           walk' \subseteq walk, c \in walk' => pc'[c] = "idle",
           CacheFaithful'
    PROVE  IInv'
<1>1. ASSUME NEW d \in Caller
      PROVE  StatusOK(d)' /\ TaskOK(d)'
  <2>1. CASE d = c
    BY <2>1
  <2>2. CASE d # c
    BY <2>2, CallerFrame DEF IInv
  <2> QED
    BY <2>1, <2>2
<1>2. QueueOK'
  <2>1. queue \in Seq(Caller) /\ job \in Caller \cup {NoCaller}
    BY DEF IInv, TypeOK, WriterTypeOK
  <2>2. ASSUME NEW i \in DOMAIN queue
        PROVE  queue[i] \in Caller \ {c}
    BY <2>1 DEF IInv, QueueOK
  <2>3. job # NoCaller => job \in Caller \ {c}
    BY <2>1 DEF IInv, QueueOK
  <2> QED
    BY <2>2, <2>3 DEF IInv, QueueOK, Same
<1>3. WalkOK'
  <2>1. walk \subseteq Caller
    BY DEF IInv, TypeOK
  <2> QED
    BY <2>1 DEF IInv, WalkOK, Same
<1>4. HadOK' /\ IndexShowsRealVersion'
  BY ShowsFrame DEF IInv, HadOK
<1> QED
  BY <1>1, <1>2, <1>3, <1>4 DEF IInv

\* A step that touches neither the tasks, nor the writer, nor the files.
LEMMA QuietStep ==
    ASSUME IInv, TypeOK', UNCHANGED <<writerVars, taskVars, disk, had>>,
           walk' \subseteq walk
    PROVE  IInv'
<1>1. \A d \in Caller : Same(d)
  BY DEF Same, writerVars, taskVars
<1>3. \A d \in Caller : StatusOK(d)' /\ TaskOK(d)'
  BY <1>1, CallerFrame DEF IInv, writerVars
<1>4. QueueOK' /\ CacheFaithful' /\ HadOK'
  BY DEF IInv, QueueOK, CacheFaithful, HadOK, writerVars
<1>5. WalkOK' /\ IndexShowsRealVersion'
  BY DEF IInv, WalkOK, IndexShowsRealVersion, writerVars, taskVars
<1> QED
  BY <1>3, <1>4, <1>5 DEF IInv
----------------------------------------------------------------------------
(* Contents and chunk lists.                                               *)

LEMMA TextsType == Texts \subseteq Seq(Piece)
<1>1. <<>> \in Seq(Piece)
  OBVIOUS
<1> QED
  BY <1>1 DEF Texts

LEMMA VectorsFacts ==
    ASSUME NEW v \in Seq(Piece)
    PROVE  /\ Vectors(v) \in Seq(Fingerprint)
           /\ Faithful(Vectors(v))
           /\ Hashes(Vectors(v)) = v
           /\ DOMAIN Vectors(v) = DOMAIN v
<1>1. \A i \in DOMAIN v : [hash |-> v[i], emb |-> v[i]] \in Fingerprint
  BY DEF Fingerprint
<1>2. Vectors(v) \in Seq(Fingerprint)
  BY <1>1 DEF Vectors
<1>3. Hashes(Vectors(v)) = v
  <2>1. Hashes(Vectors(v)) = [i \in DOMAIN v |-> v[i]]
    <3>1. DOMAIN Vectors(v) = DOMAIN v
      BY DEF Vectors
    <3>2. \A i \in DOMAIN v : Vectors(v)[i].hash = v[i]
      BY DEF Vectors
    <3> QED
      BY <3>1, <3>2 DEF Hashes
  <2>2. v = [i \in DOMAIN v |-> v[i]]
    OBVIOUS
  <2> QED
    BY <2>1, <2>2
<1> QED
  BY <1>2, <1>3 DEF Vectors, Faithful

\* A complete record list of v with no vector of the wrong length is what the
\* model answers for v.
LEMMA CompleteRecords ==
    ASSUME NEW v \in Seq(Piece), NEW fps \in Seq(Fingerprint),
           RecordsOf(fps, v), Len(fps) = Len(v), ~HasWrongDim(fps)
    PROVE  fps = Vectors(v)
<1>1. DOMAIN fps = DOMAIN v
  OBVIOUS
<1>2. ASSUME NEW i \in DOMAIN fps
      PROVE  fps[i] = [hash |-> v[i], emb |-> v[i]]
  <2>1. fps[i] \in Fingerprint
    OBVIOUS
  <2>2. fps[i].hash = v[i] /\ fps[i].emb = v[i]
    BY DEF RecordsOf, HasWrongDim
  <2> QED
    BY <2>1, <2>2 DEF Fingerprint
<1>3. fps = [i \in DOMAIN fps |-> fps[i]]
  OBVIOUS
<1> QED
  BY <1>1, <1>2, <1>3 DEF Vectors

\* A read of the table returns the vectors of one version of the file.
LEMMA FetchShows ==
    ASSUME TypeOK, IndexShowsRealVersion, NEW f \in File
    PROVE  \E v \in had[f] : /\ v \in Seq(Piece)
                             /\ FetchFingerprints(table, f) = Vectors(v)
<1>1. PICK v \in had[f] : FileRows(table, f) = Batch(f, Vectors(v))
  BY DEF IndexShowsRealVersion
<1>2. v \in Seq(Piece)
  BY TextsType DEF TypeOK
<1> QED
  BY <1>1, <1>2, VectorsFacts, FetchBatch
----------------------------------------------------------------------------
LEMMA InitInv == Init => IInv
<1> SUFFICES ASSUME Init PROVE IInv
  OBVIOUS
<1>1. PICK prior \in [File -> Texts] :
        /\ table = UNION {Batch(f, Vectors(prior[f])) : f \in File}
        /\ had = [f \in File |-> {<<>>, prior[f], ChunksOf(disk[f])}]
  BY DEF Init
<1>2. \A f \in File : prior[f] \in Seq(Piece)
  BY TextsType
<1>3. \A f \in File : ChunksOf(disk[f]) \in Texts
  BY DEF Init, ChunksOf, Texts
<1>4. table \subseteq Row
  <2>1. ASSUME NEW f \in File
        PROVE  Batch(f, Vectors(prior[f])) \in SUBSET Row
    <3>1. Vectors(prior[f]) \in Seq(Fingerprint)
      BY <1>2, VectorsFacts
    <3>2. ReplaceFileChunks({}, f, Vectors(prior[f])) \in SUBSET Row
      BY <3>1, ReplaceType
    <3> QED
      BY <3>2 DEF ReplaceFileChunks, MergeInsert
  <2> QED
    BY <1>1, <2>1
<1>5. TypeOK
  <2>1. had \in [File -> SUBSET Texts]
    BY <1>1, <1>3 DEF Texts
  <2>2. WriterTypeOK
    BY <1>4 DEF Init, WriterInit, WriterTypeOK, Returned
  <2>3. <<>> \in Texts
    BY DEF Texts
  <2>4. /\ disk \in [File -> Versions \cup {Absent}]
        /\ mtime \in [File -> Nat] /\ seen \in [File -> Nat]
        /\ pc \in [Caller -> {"idle", "permit", "visit"} \cup Working \cup Ended]
        /\ text \in [Caller -> Texts]
        /\ recs \in [Caller -> Seq(Fingerprint)]
        /\ late \in [Caller -> Nat]
    BY <2>3 DEF Init
  <2>5. /\ walk \subseteq File /\ scan \in {"walking", "done"}
        /\ watching \in BOOLEAN /\ alive \in BOOLEAN /\ cancelled \in BOOLEAN
        /\ ignored \subseteq File /\ matcher \subseteq File
        /\ dirty \subseteq File /\ batch \subseteq File
    BY Zenon DEF Init
  <2>6. edits = 0 /\ ignores = 0 /\ faults = 0 /\ stops = 0 /\ crashes = 0
    BY DEF Init
  <2> QED
    BY <2>1, <2>2, <2>4, <2>5, <2>6 DEF TypeOK
<1>6. \A c \in Caller : StatusOK(c) /\ TaskOK(c)
  BY DEF Init, WriterInit, StatusOK, TaskOK
<1>7. QueueOK /\ WalkOK /\ CacheFaithful
  BY DEF Init, WriterInit, QueueOK, WalkOK, CacheFaithful
<1>8. HadOK
  BY <1>1 DEF HadOK
<1>9. IndexShowsRealVersion
  <2>1. ASSUME NEW f \in File
        PROVE  FileRows(table, f) = Batch(f, Vectors(prior[f]))
    <3>1. ASSUME NEW row \in table, row.key = f
          PROVE  row \in Batch(f, Vectors(prior[f]))
      <4>1. PICK g \in File : row \in Batch(g, Vectors(prior[g]))
        BY <1>1
      <4>2. row.key = g
        BY <4>1 DEF Batch
      <4> QED
        BY <3>1, <4>1, <4>2
    <3>2. ASSUME NEW row \in Batch(f, Vectors(prior[f]))
          PROVE  row \in table /\ row.key = f
      BY <1>1 DEF Batch
    <3> QED
      BY <3>1, <3>2 DEF FileRows
  <2> QED
    BY <1>1, <2>1 DEF IndexShowsRealVersion
<1> QED
  BY <1>5, <1>6, <1>7, <1>8, <1>9 DEF IInv
----------------------------------------------------------------------------
(* The steps of a task.                                                    *)

LEMMA LeaveInv ==
    ASSUME IInv, NEW c \in Caller, pc[c] \in Working, st[c] # "wait",
           NEW result \in Ended, Leave(c, result),
           UNCHANGED <<diskVars, scanVars, watching, matcher, seen, ctlVars>>,
           dirty' \subseteq File, batch' \subseteq batch, alive' \in BOOLEAN, faults' \in Nat
    PROVE  IInv'
<1> USE DEF Leave, Finish, Advance, tableVars, diskVars, scanVars, ctlVars
<1>1. TypeOK'
  <2>1. <<>> \in Texts
    BY DEF Texts
  <2>2. WriterTypeOK'
    <3>1. <<>> \in Seq(Fingerprint) /\ "idle" \in Returned
      BY DEF Returned
    <3>2. /\ st' \in [Caller -> Returned \cup Pending]
          /\ arg' \in [Caller -> Seq(Fingerprint)]
      BY <3>1 DEF IInv, TypeOK, WriterTypeOK
    <3> QED
      BY <3>2 DEF IInv, TypeOK, WriterTypeOK
  <2>3. /\ pc' \in [Caller -> {"idle", "permit", "visit"} \cup Working \cup Ended]
        /\ text' \in [Caller -> Texts]
        /\ recs' \in [Caller -> Seq(Fingerprint)]
    BY <2>1 DEF IInv, TypeOK
  <2> QED
    BY <2>2, <2>3 DEF IInv, TypeOK
<1>2. \A d \in Caller \ {c} : Same(d)
  BY DEF IInv, TypeOK, WriterTypeOK, Same
<1>3. StatusOK(c)' /\ TaskOK(c)'
  BY DEF IInv, TypeOK, WriterTypeOK, StatusOK, TaskOK, Ended
<1>4. c \in walk' => pc'[c] = "idle"
  BY DEF IInv, WalkOK, Working
<1>5. CacheFaithful'
  BY DEF IInv, CacheFaithful
<1> QED
  BY <1>1, <1>2, <1>3, <1>4, <1>5, TaskStep

LEMMA FaultsType == IInv => faults \in Nat
  BY DEF IInv, TypeOK

LEMMA OpenStoppedInv == ASSUME IInv, NEW c \in Caller, OpenStopped(c) PROVE IInv'
<1>1. st[c] # "wait" /\ pc[c] \in Working
  BY DEF OpenStopped, IInv, StatusOK, Working
<1> QED
  BY <1>1, LeaveInv DEF OpenStopped, Ended, watchVars, IInv, TypeOK

LEMMA ReadFailsInv == ASSUME IInv, NEW c \in Caller, ReadFails(c) PROVE IInv'
<1>1. st[c] # "wait" /\ pc[c] \in Working
  BY DEF ReadFails, IInv, StatusOK, Working
<1>2. faults' \in Nat
  BY FaultsType DEF ReadFails, CountFault
<1>3. key[c] \in File /\ dirty \subseteq File
  BY DEF IInv, TypeOK, WriterTypeOK
<1>4. dirty' \subseteq File
  BY <1>3 DEF ReadFails, Notify
<1> QED
  BY <1>1, <1>2, <1>4, LeaveInv DEF ReadFails, Ended, IInv, TypeOK

LEMMA WorkType ==
    ASSUME IInv, NEW c \in Caller, Work(c)
    PROVE  late' \in [Caller -> Nat] /\ UNCHANGED <<cancelled, stops, crashes>>
  BY DEF Work, IInv, TypeOK

LEMMA ReadInv == ASSUME IInv, NEW c \in Caller, Read(c) PROVE IInv'
<1> USE DEF Read, Advance, Notify, writerVars, diskVars, scanVars
<1>1. key[c] \in File
  BY DEF IInv, TypeOK, WriterTypeOK
<1>2. disk[key[c]] \in Versions /\ disk[key[c]] \in had[key[c]]
  BY <1>1 DEF IInv, TypeOK, HadOK, ChunksOf
<1>3. TypeOK'
  <2>1. /\ pc' \in [Caller -> {"idle", "permit", "visit"} \cup Working \cup Ended]
        /\ text' \in [Caller -> Texts]
        /\ dirty' \subseteq File
    BY <1>1, <1>2 DEF IInv, TypeOK, Texts, Working
  <2>2. WriterTypeOK'
    BY DEF IInv, TypeOK, WriterTypeOK
  <2>3. late' \in [Caller -> Nat] /\ UNCHANGED <<cancelled, stops, crashes>>
    BY WorkType
  <2> QED
    BY <2>1, <2>2, <2>3 DEF IInv, TypeOK
<1>4. \A d \in Caller \ {c} : Same(d)
  BY DEF IInv, TypeOK, Same
<1>5. StatusOK(c)' /\ TaskOK(c)'
  BY <1>2 DEF IInv, TypeOK, StatusOK, TaskOK
<1>6. st[c] # "wait" /\ c \notin walk
  BY DEF IInv, StatusOK, WalkOK
<1>7. CacheFaithful'
  BY DEF IInv, CacheFaithful
<1> QED
  BY <1>3, <1>4, <1>5, <1>6, <1>7, TaskStep

\* The steps of get_file_chunk_fingerprints change the task's pc, the state of
\* its call and what the call holds, and perhaps the cache.
LEMMA LookupInv ==
    ASSUME IInv, NEW c \in Caller, pc[c] = "lookup", st[c] # "wait",
           NEW where \in {"lookup", "embed"}, NEW status \in Returned \cup Pending,
           NEW held \in Seq(Fingerprint),
           pc' = [pc EXCEPT ![c] = where],
           st' = [st EXCEPT ![c] = status],
           arg' = [arg EXCEPT ![c] = held],
           where = "lookup" => status \in {"idle", "fetch", "fill"},
           where = "embed" => status \in {"got", "err"},
           where = "embed" \/ status = "fill" => Faithful(held),
           key' = key,
           DOMAIN cache' \subseteq Key,
           \A k \in DOMAIN cache' : cache'[k] \in Seq(Fingerprint) /\ Faithful(cache'[k]),
           UNCHANGED <<table, queue, job, up, diskVars, scanVars, text, recs,
                       watchVars, ctlVars>>,
           faults' \in Nat
    PROVE  IInv'
<1> USE DEF diskVars, scanVars, watchVars, ctlVars
<1>1. TypeOK'
  <2>1. pc' \in [Caller -> {"idle", "permit", "visit"} \cup Working \cup Ended]
    BY DEF IInv, TypeOK, Working
  <2>2. WriterTypeOK'
    BY DEF IInv, TypeOK, WriterTypeOK
  <2> QED
    BY <2>1, <2>2 DEF IInv, TypeOK
<1>2. \A d \in Caller \ {c} : Same(d)
  BY DEF IInv, TypeOK, WriterTypeOK, Same
<1>3. pc'[c] = where /\ st'[c] = status /\ arg'[c] = held
  BY DEF IInv, TypeOK, WriterTypeOK
<1>4. StatusOK(c)'
  BY <1>3 DEF StatusOK, Ended
<1>5. TaskOK(c)'
  <2>1. RecordsOf(<<>>, text[c])
    BY TextsType DEF RecordsOf, IInv, TypeOK
  <2>2. recs[c] = <<>> /\ text[c] \in had[key[c]]
    BY DEF IInv, TaskOK
  <2>3. status \notin {"send", "wait"}
    OBVIOUS
  <2> QED
    BY <1>3, <2>1, <2>2, <2>3 DEF TaskOK
<1>6. c \notin walk /\ CacheFaithful'
  BY DEF IInv, WalkOK, CacheFaithful
<1> QED
  BY <1>1, <1>2, <1>4, <1>5, <1>6, TaskStep

LEMMA LookupHitInv == ASSUME IInv, NEW c \in Caller, LookupHit(c) PROVE IInv'
<1>1. cache[key[c]] \in Seq(Fingerprint) /\ Faithful(cache[key[c]])
  BY DEF LookupHit, CacheHit, IInv, TypeOK, WriterTypeOK, CacheFaithful
<1>2. key' = key
  BY DEF LookupHit, CacheHit, IInv, TypeOK, WriterTypeOK
<1>3. "got" \in Returned /\ st[c] # "wait"
  BY DEF LookupHit, CacheHit, Free, Returned
<1> QED
  BY <1>1, <1>2, <1>3, LookupInv DEF LookupHit, CacheHit, Advance, Set, tableVars,
     IInv, TypeOK, WriterTypeOK, CacheFaithful

LEMMA LookupMissInv == ASSUME IInv, NEW c \in Caller, LookupMiss(c) PROVE IInv'
<1>1. key' = key /\ pc' = [pc EXCEPT ![c] = "lookup"]
  BY DEF LookupMiss, CacheMiss, IInv, TypeOK, WriterTypeOK, taskVars
<1>2. "fetch" \in Pending /\ st[c] # "wait" /\ <<>> \in Seq(Fingerprint)
  BY DEF LookupMiss, CacheMiss, Free, Returned, Pending
<1> QED
  BY <1>1, <1>2, LookupInv DEF LookupMiss, CacheMiss, Set, tableVars, taskVars,
     IInv, TypeOK, WriterTypeOK, CacheFaithful

LEMMA LookupReadsInv == ASSUME IInv, NEW c \in Caller, LookupReads(c) PROVE IInv'
<1>1. pc[c] = "lookup"
  BY DEF LookupReads, FetchRows, IInv, TypeOK, StatusOK, Working, Ended
<1>2. key[c] \in File
  BY DEF IInv, TypeOK, WriterTypeOK
<1>3. /\ FetchFingerprints(table, key[c]) \in Seq(Fingerprint)
      /\ Faithful(FetchFingerprints(table, key[c]))
  BY <1>2, FetchShows, VectorsFacts DEF IInv
<1>4. pc' = [pc EXCEPT ![c] = "lookup"]
  BY <1>1 DEF LookupReads, taskVars, IInv, TypeOK
<1>5. "fill" \in Pending
  BY DEF Pending
<1> QED
  BY <1>1, <1>3, <1>4, <1>5, LookupInv DEF LookupReads, FetchRows, Set, tableVars,
     taskVars, IInv, TypeOK, WriterTypeOK, CacheFaithful

LEMMA LookupFailsInv == ASSUME IInv, NEW c \in Caller, LookupFails(c) PROVE IInv'
<1>1. pc[c] = "lookup"
  BY DEF LookupFails, FetchFails, IInv, TypeOK, StatusOK, Working, Ended
<1>2. faults' \in Nat
  BY FaultsType DEF LookupFails, CountFault
<1>3. "err" \in Returned /\ <<>> \in Seq(Fingerprint) /\ Faithful(<<>>)
  BY DEF Returned, Faithful
<1> QED
  BY <1>1, <1>2, <1>3, LookupInv DEF LookupFails, FetchFails, Return, Set, Advance,
     tableVars, IInv, TypeOK, WriterTypeOK, CacheFaithful

LEMMA LookupFillsInv == ASSUME IInv, NEW c \in Caller, LookupFills(c) PROVE IInv'
<1>1. pc[c] = "lookup" /\ st[c] = "fill"
  BY DEF LookupFills, FillCache, IInv, TypeOK, StatusOK, Working, Ended
<1>2. Faithful(arg[c]) /\ arg[c] \in Seq(Fingerprint) /\ key[c] \in Key
  BY <1>1 DEF IInv, TaskOK, TypeOK, WriterTypeOK
<1>3. /\ DOMAIN cache' \subseteq Key
      /\ \A k \in DOMAIN cache' : cache'[k] \in Seq(Fingerprint) /\ Faithful(cache'[k])
  BY <1>2 DEF LookupFills, FillCache, CacheInsert, IInv, TypeOK, WriterTypeOK, CacheFaithful
<1>4. arg' = [arg EXCEPT ![c] = arg[c]]
  BY DEF LookupFills, FillCache, IInv, TypeOK, WriterTypeOK
<1>5. "got" \in Returned
  BY DEF Returned
<1> QED
  BY <1>1, <1>2, <1>3, <1>4, <1>5, LookupInv DEF LookupFills, FillCache, Set, Advance,
     IInv, TypeOK

\* One more record: the next chunk with its own vector, or one of the wrong
\* length.
LEMMA RecordInv ==
    ASSUME IInv, NEW c \in Caller, MoreChunks(c),
           NEW emb \in {NextChunk(c), WrongDim}, Record(c, emb),
           UNCHANGED <<writerVars, diskVars, scanVars, pc, text, watchVars, ctlVars>>,
           faults' \in Nat
    PROVE  IInv'
<1> USE DEF writerVars, diskVars, scanVars, watchVars, ctlVars
<1> DEFINE n == Len(recs[c])
           rec == [hash |-> NextChunk(c), emb |-> emb]
<1>1. /\ text[c] \in Seq(Piece) /\ recs[c] \in Seq(Fingerprint)
      /\ pc[c] = "embed" /\ n < Len(text[c]) /\ n \in Nat
      /\ RecordsOf(recs[c], text[c])
  BY TextsType, SMTT(20) DEF IInv, TypeOK, MoreChunks, TaskOK
<1>2. NextChunk(c) \in Piece /\ NextChunk(c) = text[c][n + 1]
  BY <1>1 DEF NextChunk
<1>3. rec \in Fingerprint
  BY <1>2 DEF Fingerprint
<1>4. recs' = [recs EXCEPT ![c] = Append(recs[c], rec)]
  BY DEF Record
<1>5. recs'[c] = Append(recs[c], rec)
  BY <1>4 DEF IInv, TypeOK
<1>6. RecordsOf(Append(recs[c], rec), text[c])
  <2>1. Len(Append(recs[c], rec)) = n + 1 /\ n + 1 <= Len(text[c])
    BY <1>1, <1>3
  <2>2. ASSUME NEW i \in 1 .. n + 1
        PROVE  /\ Append(recs[c], rec)[i].hash = text[c][i]
               /\ Append(recs[c], rec)[i].emb \in {text[c][i], WrongDim}
    <3>1. CASE i = n + 1
      <4>1. Append(recs[c], rec)[i] = rec
        BY <1>1, <1>3, <3>1
      <4> QED
        BY <1>2, <3>1, <4>1
    <3>2. CASE i # n + 1
      <4>1. DOMAIN recs[c] = 1 .. n /\ n \in Nat
        BY <1>1
      <4>2. i \in 1 .. n
        <5> HIDE DEF n
        <5> QED
          BY <3>2, <4>1
      <4>3. Append(recs[c], rec)[i] = recs[c][i] /\ i \in DOMAIN recs[c]
        BY <1>1, <1>3, <4>1, <4>2
      <4> QED
        BY <1>1, <4>3 DEF RecordsOf
    <3> QED
      BY <3>1, <3>2
  <2>3. DOMAIN Append(recs[c], rec) = 1 .. n + 1
    BY <1>1, <1>3
  <2> QED
    BY <2>1, <2>2, <2>3 DEF RecordsOf
<1>7. TypeOK'
  <2>1. recs' \in [Caller -> Seq(Fingerprint)]
    BY <1>1, <1>3, <1>4 DEF IInv, TypeOK
  <2>2. WriterTypeOK'
    BY DEF IInv, TypeOK, WriterTypeOK
  <2> QED
    BY <2>1, <2>2 DEF IInv, TypeOK
<1>8. \A d \in Caller \ {c} : Same(d)
  BY <1>4 DEF IInv, TypeOK, Same
<1>9. StatusOK(c)' /\ st[c] # "wait"
  BY <1>1 DEF IInv, StatusOK
<1>10. TaskOK(c)'
  BY <1>1, <1>5, <1>6 DEF IInv, TaskOK
<1>11. c \notin walk /\ CacheFaithful'
  BY <1>1 DEF IInv, WalkOK, CacheFaithful
<1> QED
  BY <1>7, <1>8, <1>9, <1>10, <1>11, TaskStep

LEMMA ReuseInv == ASSUME IInv, NEW c \in Caller, Reuse(c) PROVE IInv'
<1>1. pc[c] = "embed" /\ Faithful(arg[c])
  BY DEF Reuse, MoreChunks, IInv, TaskOK
<1>2. arg[c][Len(recs[c]) + 1].emb = NextChunk(c)
  BY <1>1 DEF Reuse, Reusable, Faithful
<1>3. faults' \in Nat
  BY DEF Reuse, IInv, TypeOK
<1> QED
  BY <1>2, <1>3, RecordInv DEF Reuse

LEMMA EmbedInv == ASSUME IInv, NEW c \in Caller, Embed(c) PROVE IInv'
<1>1. faults' \in Nat
  BY FaultsType DEF Embed, CountFault
<1> QED
  BY <1>1, RecordInv DEF Embed

LEMMA EmbedFailsInv == ASSUME IInv, NEW c \in Caller, EmbedFails(c) PROVE IInv'
<1>1. st[c] # "wait" /\ pc[c] \in Working
  BY DEF EmbedFails, MoreChunks, IInv, StatusOK, Working
<1>2. faults' \in Nat
  BY FaultsType DEF EmbedFails, CountFault
<1> QED
  BY <1>1, <1>2, LeaveInv DEF EmbedFails, Ended, watchVars, IInv, TypeOK

LEMMA ChunkingPanicsInv ==
    ASSUME IInv, NEW c \in Caller, ChunkingPanics(c) PROVE IInv'
<1>1. st[c] # "wait" /\ pc[c] \in Working
  BY DEF ChunkingPanics, IInv, StatusOK, Working
<1>2. faults' \in Nat
  BY FaultsType DEF ChunkingPanics, CountFault
<1>3. batch' \subseteq batch /\ alive' \in BOOLEAN
  BY DEF ChunkingPanics, IInv, TypeOK
<1> QED
  BY <1>1, <1>2, <1>3, LeaveInv DEF ChunkingPanics, Ended, IInv, TypeOK

LEMMA NoWriteInv ==
    ASSUME IInv, NEW c \in Caller, Cancelled(c) \/ SkipWrite(c)
    PROVE  IInv'
<1>1. st[c] # "wait" /\ pc[c] \in Working
  BY DEF Cancelled, SkipWrite, Built, IInv, StatusOK, Working
<1>2. faults' \in Nat
  BY DEF Cancelled, SkipWrite, IInv, TypeOK
<1> QED
  BY <1>1, <1>2, LeaveInv DEF Cancelled, SkipWrite, Ended, watchVars, IInv, TypeOK

LEMMA AnsweredInv == ASSUME IInv, NEW c \in Caller, Answered(c) PROVE IInv'
<1>1. st[c] # "wait" /\ pc[c] \in Working
  BY DEF Answered, Returned, Working
<1>2. faults' \in Nat
  BY DEF Answered, IInv, TypeOK
<1> QED
  BY <1>1, <1>2, LeaveInv DEF Answered, Ended, watchVars, IInv, TypeOK

\* A call of replace_file_chunks with the complete records of a content.
LEMMA SubmitInv ==
    ASSUME IInv, NEW c \in Caller, pc[c] \in {"visit", "embed"}, NEW f \in File,
           NEW chunks \in Seq(Fingerprint), CallReplace(c, f, chunks),
           \E v \in had[f] : RecordsOf(chunks, v) /\ Len(chunks) = Len(v),
           Advance(c, "write"), c \notin walk',
           UNCHANGED <<diskVars, scan, text, recs, watching, dirty, matcher, alive,
                       ctlVars>>,
           seen' \in [File -> Nat], batch' \subseteq File, walk' \subseteq walk,
           faults' \in Nat
    PROVE  IInv'
<1> USE DEF CallReplace, Set, Advance, tableVars, diskVars, ctlVars
<1>1. TypeOK'
  <2>1. pc' \in [Caller -> {"idle", "permit", "visit"} \cup Working \cup Ended]
    BY DEF IInv, TypeOK, Working
  <2>2. WriterTypeOK'
    BY DEF IInv, TypeOK, WriterTypeOK, Pending
  <2>3. TypeOK
    BY DEF IInv
  <2> QED
    BY <2>1, <2>2, <2>3, ZenonT(20) DEF TypeOK
<1>2. \A d \in Caller \ {c} : Same(d)
  BY DEF IInv, TypeOK, WriterTypeOK, Same
<1>3. pc'[c] = "write" /\ st'[c] = "send" /\ arg'[c] = chunks /\ key'[c] = f
  BY DEF IInv, TypeOK, WriterTypeOK
<1>4. StatusOK(c)' /\ TaskOK(c)'
  BY <1>3 DEF StatusOK, TaskOK, Ended
<1>5. st[c] # "wait" /\ CacheFaithful'
  BY DEF IInv, CacheFaithful, Free, Returned
<1> QED
  BY <1>1, <1>2, <1>4, <1>5, TaskStep

LEMMA WriteInv == ASSUME IInv, NEW c \in Caller, Write(c) PROVE IInv'
<1>1. /\ pc[c] = "embed" /\ Len(recs[c]) = Len(text[c])
      /\ RecordsOf(recs[c], text[c]) /\ text[c] \in had[key[c]]
      /\ recs[c] \in Seq(Fingerprint) /\ key[c] \in File
  BY DEF Write, Built, IInv, TypeOK, WriterTypeOK, TaskOK
<1>2. c \notin walk
  BY <1>1 DEF IInv, WalkOK
<1> QED
  BY <1>1, <1>2, SubmitInv DEF Write, IInv, TypeOK, scanVars, watchVars

LEMMA VisitPrunesInv == ASSUME IInv, NEW f \in File, VisitPrunes(f) PROVE IInv'
<1>1. <<>> \in had[f] /\ RecordsOf(<<>>, <<>>) /\ <<>> \in Seq(Fingerprint)
  BY DEF IInv, HadOK, RecordsOf
<1>2. Watcher \in Caller /\ Watcher \notin walk
  BY DEF IInv, TypeOK
<1>3. seen' \in [File -> Nat] /\ batch' \subseteq File
  BY DEF VisitPrunes, At, IInv, TypeOK
<1>4. faults' \in Nat
  BY FaultsType DEF VisitPrunes, CountFault
<1> QED
  BY <1>1, <1>2, <1>3, <1>4, SubmitInv DEF VisitPrunes, At, scanVars
----------------------------------------------------------------------------
(* The channel and the background task.                                    *)

\* Jobs enter the channel at its end.
LEMMA SendInv == ASSUME IInv, NEW c \in Caller, Send(c) PROVE IInv'
<1> USE DEF Send, tableVars, diskVars, scanVars, taskVars, watchVars
<1>3. late' \in [Caller -> Nat] /\ UNCHANGED <<cancelled, stops, crashes>>
  BY WorkType DEF ctlVars, IInv, TypeOK
<1>1. CASE SendFails(c)
  <2> USE DEF SendFails, Return, Set
  <2>1. TypeOK'
    <3>1. WriterTypeOK'
      <4>1. "err" \in Returned /\ <<>> \in Seq(Fingerprint)
        BY DEF Returned
      <4>2. /\ st' \in [Caller -> Returned \cup Pending]
            /\ arg' \in [Caller -> Seq(Fingerprint)]
        BY <1>1, <4>1 DEF IInv, TypeOK, WriterTypeOK
      <4> QED
        BY <1>1, <4>2 DEF IInv, TypeOK, WriterTypeOK
    <3> QED
      BY <1>1, <1>3, <3>1 DEF IInv, TypeOK
  <2>2. \A d \in Caller \ {c} : Same(d)
    BY <1>1 DEF IInv, TypeOK, WriterTypeOK, Same
  <2>3. pc[c] = "write"
    BY <1>1 DEF IInv, TypeOK, StatusOK, Working, Ended
  <2>4. StatusOK(c)' /\ TaskOK(c)'
    BY <1>1, <2>3 DEF IInv, TypeOK, WriterTypeOK, StatusOK, TaskOK, Ended
  <2>5. st[c] # "wait" /\ c \notin walk /\ CacheFaithful'
    BY <1>1, <2>3 DEF IInv, WalkOK, CacheFaithful
  <2> QED
    BY <1>1, <2>1, <2>2, <2>4, <2>5, TaskStep
<1>2. CASE SendJob(c)
  <2> USE DEF SendJob, Set
  <2>1. /\ queue \in Seq(Caller) /\ st \in [Caller -> Returned \cup Pending]
        /\ job \in Caller \cup {NoCaller}
    BY DEF IInv, TypeOK, WriterTypeOK
  <2>2. TypeOK'
    <3>1. WriterTypeOK'
      <4>1. "wait" \in Pending
        BY DEF Pending
      <4>2. /\ st' \in [Caller -> Returned \cup Pending]
            /\ queue' \in Seq(Caller)
        BY <1>2, <2>1, <4>1
      <4> QED
        BY <1>2, <4>2 DEF IInv, TypeOK, WriterTypeOK
    <3> QED
      BY <1>2, <1>3, <3>1 DEF IInv, TypeOK
  <2>3. pc[c] = "write"
    BY <1>2 DEF IInv, TypeOK, StatusOK, Working, Ended
  <2>4. ASSUME NEW d \in Caller
        PROVE  StatusOK(d)' /\ TaskOK(d)'
    <3>1. CASE d = c
      BY <1>2, <2>1, <2>3, <3>1 DEF IInv, StatusOK, TaskOK, Ended
    <3>2. CASE d # c
      <4>1. Same(d)
        BY <1>2, <2>1, <3>2 DEF Same
      <4> QED
        BY <1>2, <4>1, CallerFrame DEF IInv
    <3> QED
      BY <3>1, <3>2
  <2>5. QueueOK'
    <3> DEFINE n == Len(queue)
    <3>1. /\ n \in Nat /\ DOMAIN queue = 1 .. n
          /\ queue' = Append(queue, c) /\ DOMAIN queue' = 1 .. n + 1
      BY <1>2, <2>1
    <3>2. queue'[n + 1] = c /\ \A i \in 1 .. n : queue'[i] = queue[i] /\ queue[i] \in Caller
      BY <2>1, <3>1
    <3>3. \A i \in 1 .. n : st[queue[i]] = "wait" /\ queue[i] # job /\ queue[i] # c
      BY <1>2, <3>1 DEF IInv, QueueOK
    <3>4. job # NoCaller => job # c /\ st[job] = "wait" /\ Faithful(arg[job])
      BY <1>2 DEF IInv, QueueOK
    <3>5. job' = job /\ arg' = arg /\ st' = [st EXCEPT ![c] = "wait"]
      BY <1>2
    <3>6. \A d \in Caller : st[d] = "wait" => st'[d] = "wait"
      BY <2>1, <3>5
    <3>7. st'[c] = "wait" /\ c # job
      BY <1>2, <2>1, <3>4, <3>5
    <3>8. ASSUME NEW i \in 1 .. n + 1
          PROVE  st'[queue'[i]] = "wait" /\ queue'[i] # job'
      BY <3>1, <3>2, <3>3, <3>5, <3>6, <3>7
    <3>9. ASSUME NEW i \in 1 .. n + 1, NEW j \in 1 .. n + 1, queue'[i] = queue'[j]
          PROVE  i = j
      <4>1. CASE i \in 1 .. n /\ j \in 1 .. n
        BY <3>1, <3>2, <3>9, <4>1 DEF IInv, QueueOK
      <4>2. CASE i = n + 1 \/ j = n + 1
        BY <3>1, <3>2, <3>3, <3>9, <4>2
      <4> QED
        BY <3>1, <4>1, <4>2
    <3>10. job' # NoCaller => st'[job'] = "wait" /\ Faithful(arg'[job'])
      BY <2>1, <3>4, <3>5, <3>6
    <3> QED
      BY <3>1, <3>8, <3>9, <3>10 DEF QueueOK
  <2>6. WalkOK' /\ CacheFaithful' /\ HadOK' /\ IndexShowsRealVersion'
    BY <1>2 DEF IInv, WalkOK, CacheFaithful, HadOK, IndexShowsRealVersion
  <2> QED
    BY <2>2, <2>4, <2>5, <2>6 DEF IInv
<1> QED
  BY <1>1, <1>2 DEF Send

\* What a received job holds and what taking it does to the channel.
LEMMA ReceiveFacts ==
    ASSUME IInv, Receiving
    PROVE  /\ Head(queue) \in Caller
           /\ st[Head(queue)] = "wait" /\ pc[Head(queue)] = "write"
           /\ Tail(queue) \in Seq(Caller)
           /\ \A i \in DOMAIN Tail(queue) :
                /\ i + 1 \in DOMAIN queue
                /\ Tail(queue)[i] = queue[i + 1]
                /\ Tail(queue)[i] # Head(queue)
           /\ \A i, j \in DOMAIN Tail(queue) :
                Tail(queue)[i] = Tail(queue)[j] => i = j
<1>1. queue \in Seq(Caller) /\ queue # <<>>
  BY DEF IInv, TypeOK, WriterTypeOK, Receiving
<1>2. Head(queue) = queue[1] /\ 1 \in DOMAIN queue
  BY <1>1
<1>3. Head(queue) \in Caller /\ st[Head(queue)] = "wait"
  BY <1>1, <1>2 DEF IInv, QueueOK
<1>4. pc[Head(queue)] = "write"
  BY <1>3 DEF IInv, TypeOK, StatusOK, Working, Ended
<1>5. Tail(queue) \in Seq(Caller)
  BY <1>1
<1>6. ASSUME NEW i \in DOMAIN Tail(queue)
      PROVE  i + 1 \in DOMAIN queue /\ i \in Nat \ {0} /\ Tail(queue)[i] = queue[i + 1]
  BY <1>1
<1>7. ASSUME NEW i \in DOMAIN Tail(queue)
      PROVE  Tail(queue)[i] # Head(queue)
  BY <1>2, <1>6 DEF IInv, QueueOK
<1>8. ASSUME NEW i \in DOMAIN Tail(queue), NEW j \in DOMAIN Tail(queue),
             Tail(queue)[i] = Tail(queue)[j]
      PROVE  i = j
  <2>1. i + 1 = j + 1
    BY <1>6, <1>8 DEF IInv, QueueOK
  <2> QED
    BY <1>6, <2>1
<1> QED
  BY <1>3, <1>4, <1>5, <1>6, <1>7, <1>8

LEMMA CommitInv ==
    ASSUME IInv, Commit, UNCHANGED <<diskVars, scanVars, taskVars, watchVars, ctlVars, faults>>
    PROVE  IInv'
<1> USE DEF Commit, callVars, diskVars, scanVars, taskVars, watchVars, ctlVars
<1> DEFINE c == Head(queue)
<1>1. Receiving
  OBVIOUS
<1>2. c \in Caller /\ st[c] = "wait" /\ key[c] \in File /\ arg[c] \in Seq(Fingerprint)
  BY <1>1, ReceiveFacts DEF IInv, TypeOK, WriterTypeOK
<1>3. PICK v \in had[key[c]] : RecordsOf(arg[c], v) /\ Len(arg[c]) = Len(v)
  BY <1>2 DEF IInv, TaskOK
<1>4. v \in Seq(Piece)
  BY <1>2, <1>3, TextsType DEF IInv, TypeOK
<1>5. arg[c] = Vectors(v)
  BY <1>2, <1>3, <1>4, CompleteRecords
<1>6. table' = ReplaceFileChunks(table, key[c], arg[c]) /\ table' \in SUBSET Row
  BY <1>2, ReplaceType DEF IInv, TypeOK, WriterTypeOK
<1>7. TypeOK'
  <2>1. WriterTypeOK'
    BY <1>1, <1>2, <1>6, ReceiveFacts DEF IInv, TypeOK, WriterTypeOK
  <2> QED
    BY <2>1 DEF IInv, TypeOK
<1>8. \A d \in Caller : StatusOK(d)' /\ TaskOK(d)'
  BY CallerFrame DEF IInv, Same
<1>9. QueueOK'
  <2>1. job' = c /\ queue' = Tail(queue) /\ st' = st /\ arg' = arg
    OBVIOUS
  <2>2. Faithful(arg[c])
    BY <1>4, <1>5, VectorsFacts
  <2>3. \A i \in DOMAIN queue : st[queue[i]] = "wait"
    BY DEF IInv, QueueOK
  <2> HIDE DEF Commit, c
  <2>4. c = Head(queue)
    BY DEF c
  <2> QED
    BY <1>1, <1>2, <2>1, <2>2, <2>3, <2>4, ReceiveFacts DEF QueueOK
<1>10. WalkOK' /\ CacheFaithful' /\ HadOK'
  BY DEF IInv, WalkOK, CacheFaithful, HadOK
<1>11. IndexShowsRealVersion'
  <2>1. FileRows(table', key[c]) = Batch(key[c], Vectors(v))
    BY <1>5, <1>6, ReplaceShows
  <2>2. \A f \in File \ {key[c]} : FileRows(table', f) = FileRows(table, f)
    BY <1>6, ReplaceKeepsOthers
  <2> QED
    BY <1>3, <2>1, <2>2 DEF IInv, IndexShowsRealVersion
<1> QED
  BY <1>7, <1>8, <1>9, <1>10, <1>11 DEF IInv

LEMMA CommitFailsInv ==
    ASSUME IInv, CommitFails, faults' \in Nat,
           UNCHANGED <<diskVars, scanVars, taskVars, watchVars, ctlVars>>
    PROVE  IInv'
<1> USE DEF CommitFails, Return, Set, diskVars, scanVars, taskVars, watchVars, ctlVars
<1> DEFINE c == Head(queue)
<1>1. Receiving /\ c \in Caller /\ pc[c] = "write" /\ Tail(queue) \in Seq(Caller)
  BY ReceiveFacts
<1>2. /\ st' = [st EXCEPT ![c] = "err"] /\ arg' = [arg EXCEPT ![c] = <<>>]
      /\ st'[c] = "err" /\ arg'[c] = <<>>
  BY <1>1 DEF IInv, TypeOK, WriterTypeOK
<1>3. TypeOK'
  <2>1. "err" \in Returned /\ <<>> \in Seq(Fingerprint)
    BY DEF Returned
  <2>2. /\ st' \in [Caller -> Returned \cup Pending]
        /\ arg' \in [Caller -> Seq(Fingerprint)]
    <3> HIDE DEF CommitFails, c
    <3> QED
      BY <1>2, <2>1 DEF IInv, TypeOK, WriterTypeOK
  <2>3. WriterTypeOK'
    BY <1>1, <2>2 DEF IInv, TypeOK, WriterTypeOK
  <2> QED
    BY <2>3 DEF IInv, TypeOK
<1>4. ASSUME NEW d \in Caller
      PROVE  StatusOK(d)' /\ TaskOK(d)'
  <2>1. CASE d = c
    BY <1>1, <1>2, <2>1 DEF IInv, StatusOK, TaskOK, Ended
  <2>2. CASE d # c
    <3>1. Same(d)
      BY <1>2, <2>2 DEF Same, IInv, TypeOK, WriterTypeOK
    <3> QED
      BY <3>1, CallerFrame DEF IInv
  <2> QED
    BY <2>1, <2>2
<1>5. QueueOK'
  <2>1. \A i \in DOMAIN queue : st[queue[i]] = "wait" /\ queue[i] \in Caller
    BY SMTT(20) DEF IInv, QueueOK, TypeOK, WriterTypeOK
  <2>2. job = NoCaller
    BY DEF Receiving
  <2>3. ASSUME NEW i \in DOMAIN Tail(queue)
        PROVE  st'[Tail(queue)[i]] = "wait"
    <3> DEFINE d == Tail(queue)[i]
    <3>1. d # c /\ d = queue[i + 1] /\ i + 1 \in DOMAIN queue
      BY <1>1, ReceiveFacts
    <3>2. d \in Caller /\ st[d] = "wait"
      BY <2>1, <3>1
    <3> HIDE DEF CommitFails, c, d
    <3>3. st'[d] = st[d]
      BY <1>2, <3>1, <3>2 DEF IInv, TypeOK, WriterTypeOK
    <3> QED
      BY <3>2, <3>3 DEF d
  <2>4. \A d \in Caller : d # NoCaller
    OBVIOUS
  <2>5. queue' = Tail(queue) /\ job' = job
    OBVIOUS
  <2>6. \A i \in DOMAIN Tail(queue) : Tail(queue)[i] \in Caller
    BY <1>1
  <2> HIDE DEF CommitFails
  <2> QED
    BY <1>1, <2>2, <2>3, <2>4, <2>5, <2>6, ReceiveFacts DEF QueueOK
<1>6. WalkOK' /\ CacheFaithful' /\ HadOK' /\ IndexShowsRealVersion'
  BY DEF IInv, WalkOK, CacheFaithful, HadOK, IndexShowsRealVersion
<1> QED
  BY <1>3, <1>4, <1>5, <1>6 DEF IInv

LEMMA PanicInv ==
    ASSUME IInv, Panic, UNCHANGED <<diskVars, scanVars, taskVars, watchVars, ctlVars, faults>>
    PROVE  IInv'
<1> USE DEF Panic, diskVars, scanVars, taskVars, watchVars, ctlVars
<1>1. job = NoCaller
  BY DEF Receiving
<1>2. TypeOK'
  <2>1. "err" \in Returned /\ <<>> \in Seq(Fingerprint) /\ <<>> \in Seq(Caller)
    BY DEF Returned
  <2>2. /\ st' \in [Caller -> Returned \cup Pending]
        /\ arg' \in [Caller -> Seq(Fingerprint)]
    BY <2>1 DEF IInv, TypeOK, WriterTypeOK
  <2>3. WriterTypeOK'
    BY <2>1, <2>2 DEF IInv, TypeOK, WriterTypeOK
  <2> QED
    BY <2>3 DEF IInv, TypeOK
<1>3. ASSUME NEW d \in Caller
      PROVE  StatusOK(d)' /\ TaskOK(d)'
  <2>1. CASE st[d] = "wait"
    <3>1. pc[d] = "write"
      BY <2>1 DEF IInv, TypeOK, StatusOK, Working, Ended
    <3> QED
      BY <2>1, <3>1 DEF IInv, StatusOK, TaskOK, Ended
  <2>2. CASE st[d] # "wait"
    <3>1. Same(d)
      BY <2>2 DEF Same, IInv, TypeOK, WriterTypeOK
    <3> QED
      BY <3>1, CallerFrame DEF IInv
  <2> QED
    BY <2>1, <2>2
<1>4. QueueOK'
  BY <1>1 DEF QueueOK
<1>5. WalkOK' /\ CacheFaithful' /\ HadOK' /\ IndexShowsRealVersion'
  BY DEF IInv, WalkOK, CacheFaithful, HadOK, IndexShowsRealVersion
<1> QED
  BY <1>2, <1>3, <1>4, <1>5 DEF IInv

LEMMA PublishInv ==
    ASSUME IInv, Publish, UNCHANGED <<diskVars, scanVars, taskVars, watchVars, ctlVars, faults>>
    PROVE  IInv'
<1> USE DEF Publish, Return, Set, diskVars, scanVars, taskVars, watchVars, ctlVars
<1>1. /\ job \in Caller /\ st[job] = "wait" /\ Faithful(arg[job])
      /\ key[job] \in Key /\ arg[job] \in Seq(Fingerprint)
  BY DEF IInv, TypeOK, WriterTypeOK, QueueOK
<1>2. pc[job] = "write"
  BY <1>1 DEF IInv, TypeOK, StatusOK, Working, Ended
<1>3. /\ st' = [st EXCEPT ![job] = "ok"] /\ arg' = [arg EXCEPT ![job] = <<>>]
      /\ st'[job] = "ok" /\ arg'[job] = <<>>
  BY <1>1 DEF IInv, TypeOK, WriterTypeOK
<1>4. /\ DOMAIN cache' \subseteq Key
      /\ \A k \in DOMAIN cache' : cache'[k] \in Seq(Fingerprint) /\ Faithful(cache'[k])
  <2>1. /\ DOMAIN cache \subseteq Key
        /\ \A k \in DOMAIN cache : cache[k] \in Seq(Fingerprint) /\ Faithful(cache[k])
    BY DEF IInv, TypeOK, WriterTypeOK, CacheFaithful
  <2>2. CASE CacheKeep(Key \ {key[job]})
    BY <2>1, <2>2 DEF CacheKeep
  <2>3. CASE CacheInsert(key[job], arg[job])
    BY <1>1, <2>1, <2>3 DEF CacheInsert
  <2> QED
    BY <2>2, <2>3
<1>5. TypeOK'
  <2>1. "ok" \in Returned /\ <<>> \in Seq(Fingerprint)
    BY DEF Returned
  <2>2. /\ st' \in [Caller -> Returned \cup Pending]
        /\ arg' \in [Caller -> Seq(Fingerprint)]
    BY <1>3, <2>1, SMTT(20) DEF IInv, TypeOK, WriterTypeOK
  <2>3. WriterTypeOK'
    BY <1>4, <2>2 DEF IInv, TypeOK, WriterTypeOK
  <2> QED
    BY <2>3 DEF IInv, TypeOK
<1>6. ASSUME NEW d \in Caller
      PROVE  StatusOK(d)' /\ TaskOK(d)'
  <2>1. CASE d = job
    BY <1>2, <1>3, <2>1 DEF IInv, StatusOK, TaskOK, Ended
  <2>2. CASE d # job
    <3>1. Same(d)
      BY <1>3, <2>2 DEF Same, IInv, TypeOK, WriterTypeOK
    <3> QED
      BY <3>1, CallerFrame DEF IInv
  <2> QED
    BY <2>1, <2>2
<1>7. QueueOK'
  <2>1. \A i \in DOMAIN queue : queue[i] \in Caller /\ queue[i] # job
    BY DEF IInv, TypeOK, WriterTypeOK, QueueOK
  <2>2. \A i \in DOMAIN queue : st'[queue[i]] = "wait" /\ queue[i] # NoCaller
    BY <1>3, <2>1 DEF IInv, TypeOK, WriterTypeOK, QueueOK
  <2> QED
    BY <2>2 DEF IInv, QueueOK
<1>8. WalkOK' /\ CacheFaithful' /\ HadOK' /\ IndexShowsRealVersion'
  BY <1>4 DEF IInv, WalkOK, CacheFaithful, HadOK, IndexShowsRealVersion
<1> QED
  BY <1>5, <1>6, <1>7, <1>8 DEF IInv

LEMMA BackgroundInv == ASSUME IInv, Background PROVE IInv'
<1>1. UNCHANGED <<diskVars, scanVars, taskVars, watchVars, ctlVars>>
  BY DEF Background
<1>2. CASE (Commit \/ Panic \/ Publish) /\ UNCHANGED faults
  BY <1>1, <1>2, CommitInv, PanicInv, PublishInv
<1>3. CASE CountFault /\ CommitFails
  <2>1. faults' \in Nat
    BY <1>3 DEF CountFault, IInv, TypeOK
  <2> QED
    BY <1>1, <1>3, <2>1, CommitFailsInv
<1> QED
  BY <1>2, <1>3 DEF Background
----------------------------------------------------------------------------
(* The walk, the watcher, the user, a crash.                               *)

\* A task that has nothing yet moves on.
LEMMA MoveInv ==
    ASSUME IInv, NEW c \in Caller, pc[c] \in {"idle", "permit", "visit", "open"},
           NEW where \in {"idle", "permit", "visit", "open", "read"}, Advance(c, where),
           NEW f \in File, key' = key \/ key' = [key EXCEPT ![c] = f],
           walk' \subseteq walk, c \notin walk', scan' \in {"walking", "done"},
           seen' \in [File -> Nat], batch' \subseteq File, faults' \in Nat,
           UNCHANGED <<tableVars, st, arg, diskVars, text, recs, watching, dirty,
                       matcher, alive, ctlVars>>
    PROVE  IInv'
<1> USE DEF Advance, tableVars, diskVars, ctlVars
<1>1. TypeOK'
  <2>1. TypeOK /\ WriterTypeOK
    BY DEF IInv, TypeOK
  <2>2. pc' \in [Caller -> {"idle", "permit", "visit"} \cup Working \cup Ended]
    BY <2>1 DEF TypeOK, Working
  <2>3. Key = File /\ key \in [Caller -> Key]
    BY <2>1, PipelineAssumption DEF WriterTypeOK
  <2>4. key' \in [Caller -> Key]
    BY <2>3
  <2>5. WriterTypeOK'
    BY <2>1, <2>4 DEF WriterTypeOK
  <2> QED
    BY <2>1, <2>2, <2>5, ZenonT(20) DEF TypeOK
<1>2. \A d \in Caller \ {c} : Same(d)
  BY DEF IInv, TypeOK, WriterTypeOK, Same
<1>3. pc'[c] = where /\ st[c] = "idle" /\ recs[c] = <<>>
  BY DEF IInv, TypeOK, StatusOK, TaskOK
<1>4. StatusOK(c)' /\ TaskOK(c)'
  BY <1>3 DEF StatusOK, TaskOK
<1>5. st[c] # "wait" /\ CacheFaithful'
  BY <1>3 DEF IInv, CacheFaithful
<1> QED
  BY <1>1, <1>2, <1>4, <1>5, TaskStep

LEMMA WalkVisitInv == ASSUME IInv, NEW f \in File, WalkVisit(f) PROVE IInv'
<1> USE DEF WalkVisit, writerVars, watchVars
<1>1. pc[f] = "idle" /\ f \in Caller
  BY DEF IInv, WalkOK
<1>2. /\ seen' \in [File -> Nat] /\ batch' \subseteq File
      /\ scan' \in {"walking", "done"} /\ faults' \in Nat
  BY DEF IInv, TypeOK
<1>3. CASE Advance(f, "permit")
  BY <1>1, <1>2, <1>3, MoveInv DEF tableVars
<1>4. CASE UNCHANGED pc
  <2>1. TypeOK'
    <3>1. WriterTypeOK'
      BY DEF IInv, TypeOK, WriterTypeOK
    <3> QED
      BY <1>2, <1>4, <3>1 DEF IInv, TypeOK, diskVars, ctlVars
  <2> QED
    BY <1>4, <2>1, QuietStep DEF diskVars, taskVars
<1> QED
  BY <1>3, <1>4

LEMMA AcquireInv == ASSUME IInv, NEW f \in File, Acquire(f) PROVE IInv'
<1>1. pc[f] = "permit" /\ f \in Caller /\ f \notin walk
  BY DEF Acquire, IInv, WalkOK
<1> QED
  BY <1>1, MoveInv DEF Acquire, scanVars, watchVars, IInv, TypeOK

LEMMA OpenInv == ASSUME IInv, NEW c \in Caller, Open(c) PROVE IInv'
<1>1. c \notin walk /\ key[c] \in File
  BY DEF Open, IInv, TypeOK, WriterTypeOK, WalkOK
<1> QED
  BY <1>1, MoveInv DEF Open, scanVars, watchVars, writerVars, tableVars, IInv, TypeOK

LEMMA VisitInv == ASSUME IInv, NEW f \in File, Visit(f) PROVE IInv'
<1>1. Watcher \in Caller /\ Watcher \notin walk /\ batch' \subseteq File
  BY DEF Visit, IInv, TypeOK
<1> QED
  BY <1>1, MoveInv DEF Visit, scanVars, IInv, TypeOK

\* The watcher goes on from a path without calling the writer.
LEMMA VisitMovesInv ==
    ASSUME IInv, NEW f \in File, VisitSkips(f) \/ VisitIndexes(f) \/ VisitIndexesUnseen(f)
    PROVE  IInv'
<1> USE DEF VisitSkips, VisitIndexes, VisitIndexesUnseen, Reindex, At, scanVars, writerVars
<1>1. pc[Watcher] = "visit" /\ Watcher \in Caller /\ Watcher \notin walk
  BY DEF IInv, TypeOK
<1>2. seen' \in [File -> Nat] /\ batch' \subseteq File
  BY DEF IInv, TypeOK
<1>3. faults' \in Nat
  BY FaultsType DEF CountFault
<1>4. Advance(Watcher, "idle") \/ Advance(Watcher, "open")
  OBVIOUS
<1>5. \A where \in {"idle", "open"} : Advance(Watcher, where) => IInv'
  BY <1>1, <1>2, <1>3, MoveInv DEF tableVars, IInv, TypeOK
<1> QED
  BY <1>4, <1>5

\* Steps that leave the tasks, the writer and the files as they are.
LEMMA QuietInv ==
    ASSUME IInv,
           \/ WalkStops \/ ScanDone \/ StartWatch \/ Receive \/ DropBatch \/ Stop
           \/ AtRest \/ UNCHANGED vars
           \/ \E f \in File : Ignore(f)
    PROVE  IInv'
<1>1. UNCHANGED <<writerVars, taskVars, disk, mtime, had, edits, faults>> /\ walk' \subseteq walk
  BY DEF WalkStops, ScanDone, StartWatch, Receive, DropBatch, Stop, AtRest, Ignore, vars, diskVars, scanVars, taskVars
<1>2. TypeOK
  BY DEF IInv
<1>3. /\ scan' \in {"walking", "done"}
      /\ watching' \in BOOLEAN /\ cancelled' \in BOOLEAN
      /\ UNCHANGED <<seen, alive, late>>
  <2>1. CASE WalkStops \/ ScanDone \/ StartWatch \/ Receive \/ DropBatch
    BY <1>2, <2>1 DEF WalkStops, ScanDone, StartWatch, Receive, DropBatch, scanVars,
       watchVars, ctlVars, TypeOK
  <2>2. CASE Stop \/ AtRest \/ UNCHANGED vars
    BY <1>2, <2>2 DEF Stop, AtRest, vars, scanVars, watchVars, ctlVars, TypeOK
  <2>3. CASE \E f \in File : Ignore(f)
    BY <1>2, <2>3 DEF Ignore, scanVars, watchVars, ctlVars, TypeOK
  <2> QED
    BY <2>1, <2>2, <2>3
<1>4. /\ dirty' \subseteq File /\ batch' \subseteq File
      /\ matcher' \subseteq File /\ ignored' \subseteq File
  <2>1. CASE WalkStops \/ ScanDone \/ StartWatch \/ Receive \/ DropBatch
    BY <1>2, <2>1 DEF WalkStops, ScanDone, StartWatch, Receive, DropBatch, diskVars,
       watchVars, TypeOK
  <2>2. CASE Stop \/ AtRest \/ UNCHANGED vars
    BY <1>2, <2>2 DEF Stop, AtRest, vars, diskVars, watchVars, TypeOK
  <2>3. CASE \E f \in File : Ignore(f)
    BY <1>2, <2>3 DEF Ignore, diskVars, watchVars, TypeOK
  <2> QED
    BY <2>1, <2>2, <2>3
<1>5. ignores' \in Nat /\ stops' \in Nat /\ crashes' \in Nat
  <2>1. CASE WalkStops \/ ScanDone \/ StartWatch \/ Receive \/ DropBatch
    BY <1>2, <2>1 DEF WalkStops, ScanDone, StartWatch, Receive, DropBatch, diskVars,
       ctlVars, TypeOK
  <2>2. CASE Stop \/ AtRest \/ UNCHANGED vars
    BY <1>2, <2>2 DEF Stop, AtRest, vars, diskVars, ctlVars, TypeOK
  <2>3. CASE \E f \in File : Ignore(f)
    BY <1>2, <2>3 DEF Ignore, diskVars, ctlVars, TypeOK
  <2> QED
    BY <2>1, <2>2, <2>3
<1>6. TypeOK'
  <2>1. WriterTypeOK'
    BY <1>1, <1>2 DEF TypeOK, WriterTypeOK, writerVars
  <2> QED
    BY <1>1, <1>2, <1>3, <1>4, <1>5, <2>1 DEF TypeOK, taskVars
<1> QED
  BY <1>1, <1>6, QuietStep

\* Lost events are lost from `dirty` only.
LEMMA LoseEventsInv == ASSUME IInv, LoseEvents PROVE IInv'
<1> USE DEF LoseEvents, CountFault
<1>1. TypeOK
  BY DEF IInv
<1>2. faults' \in Nat /\ dirty' \subseteq File
  BY <1>1 DEF TypeOK
<1>3. WriterTypeOK'
  BY <1>1 DEF TypeOK, WriterTypeOK, writerVars, tableVars
<1>4. TypeOK'
  BY <1>1, <1>2, <1>3, ZenonT(20)
     DEF TypeOK, writerVars, diskVars, scanVars, taskVars, ctlVars
<1> QED
  BY <1>4, QuietStep DEF diskVars, scanVars

LEMMA EditInv ==
    ASSUME IInv, NEW f \in File, NEW v \in Versions \cup {Absent}, Edit(f, v)
    PROVE  IInv'
<1> USE DEF Edit, Notify, writerVars, scanVars, taskVars, ctlVars
<1>1. ChunksOf(v) \in Texts
  BY DEF ChunksOf, Texts
<1>2. TypeOK'
  <2>1. WriterTypeOK'
    BY DEF IInv, TypeOK, WriterTypeOK
  <2>2. disk' \in [File -> Versions \cup {Absent}]
    BY DEF IInv, TypeOK
  <2>3. mtime' \in [File -> Nat] /\ edits' \in Nat
    <3>1. edits \in Nat /\ mtime \in [File -> Nat]
      BY DEF IInv, TypeOK
    <3>2. edits + 2 \in Nat /\ edits + 1 \in Nat
      BY <3>1
    <3> QED
      BY <3>1, <3>2
  <2>4. had' \in [File -> SUBSET Texts]
    <3>1. had \in [File -> SUBSET Texts]
      BY DEF IInv, TypeOK
    <3>2. had[f] \cup {ChunksOf(v)} \in SUBSET Texts
      BY <1>1, <3>1
    <3> QED
      BY <3>1, <3>2
  <2>5. dirty' \subseteq File
    BY DEF IInv, TypeOK
  <2>6. \A n \in {edits', ignores', faults', stops', crashes'} : n \in Nat
    BY <2>3 DEF IInv, TypeOK
  <2> QED
    BY <2>1, <2>2, <2>3, <2>4, <2>5, <2>6 DEF IInv, TypeOK
<1>3. \A g \in File : had[g] \subseteq had'[g]
  BY DEF IInv, TypeOK
<1>4. \A d \in Caller : StatusOK(d)' /\ TaskOK(d)'
  BY <1>3, CallerFrame DEF IInv, Same
<1>5. HadOK'
  <2>1. ASSUME NEW g \in File
        PROVE  <<>> \in had'[g] /\ ChunksOf(disk'[g]) \in had'[g]
    <3>1. CASE g = f
      <4>1. disk'[f] = v /\ had'[f] = had[f] \cup {ChunksOf(v)}
        BY DEF IInv, TypeOK
      <4> QED
        BY <3>1, <4>1 DEF IInv, HadOK
    <3>2. CASE g # f
      <4>1. disk'[g] = disk[g] /\ had'[g] = had[g]
        BY <3>2 DEF IInv, TypeOK
      <4> QED
        BY <4>1 DEF IInv, HadOK
    <3> QED
      BY <3>1, <3>2
  <2> QED
    BY <2>1 DEF HadOK, ChunksOf
<1>6. IndexShowsRealVersion'
  BY <1>3, ShowsFrame DEF IInv
<1>7. QueueOK' /\ WalkOK' /\ CacheFaithful'
  BY DEF IInv, QueueOK, WalkOK, CacheFaithful
<1> QED
  BY <1>2, <1>4, <1>5, <1>6, <1>7 DEF IInv

LEMMA CrashInv == ASSUME IInv, Crash PROVE IInv'
<1> USE DEF Crash, NewCache, diskVars
<1>1. TypeOK'
  <2>1. <<>> \in Seq(Fingerprint) /\ <<>> \in Texts /\ <<>> \in Seq(Caller)
    BY DEF Texts
  <2>2. "idle" \in Returned
    BY DEF Returned
  <2>3. WriterTypeOK'
    BY <2>1, <2>2 DEF IInv, TypeOK, WriterTypeOK
  <2>4. /\ pc' \in [Caller -> {"idle", "permit", "visit"} \cup Working \cup Ended]
        /\ text' \in [Caller -> Texts]
        /\ recs' \in [Caller -> Seq(Fingerprint)]
        /\ seen' \in [File -> Nat]
        /\ late' \in [Caller -> Nat]
        /\ crashes' \in Nat
    BY <2>1 DEF IInv, TypeOK
  <2>5. TypeOK
    BY DEF IInv
  <2> QED
    BY <2>3, <2>4, <2>5 DEF TypeOK
<1>2. \A d \in Caller : StatusOK(d)' /\ TaskOK(d)'
  BY DEF StatusOK, TaskOK
<1>3. QueueOK' /\ WalkOK' /\ CacheFaithful'
  BY DEF IInv, TypeOK, QueueOK, WalkOK, CacheFaithful
<1>4. HadOK' /\ IndexShowsRealVersion'
  BY DEF IInv, HadOK, IndexShowsRealVersion
<1> QED
  BY <1>1, <1>2, <1>3, <1>4 DEF IInv
----------------------------------------------------------------------------
LEMMA TaskInv == ASSUME IInv, NEW c \in Caller, IndexOneFile(c) PROVE IInv'
  BY OpenStoppedInv, OpenInv, ReadFailsInv, ReadInv, LookupHitInv, LookupMissInv, LookupReadsInv, LookupFailsInv,
     LookupFillsInv, ReuseInv, EmbedInv, EmbedFailsInv, ChunkingPanicsInv, NoWriteInv, WriteInv,
     SendInv, AnsweredInv DEF IndexOneFile

LEMMA NextInv == IInv /\ [Next]_vars => IInv'
<1> SUFFICES ASSUME IInv, [Next]_vars PROVE IInv'
  OBVIOUS
<1>1. CASE \E f \in File : WalkVisit(f) \/ Acquire(f)
  BY <1>1, WalkVisitInv, AcquireInv
<1>2. CASE \E c \in Caller : IndexOneFile(c)
  BY <1>2, TaskInv
<1>3. CASE Background
  BY <1>3, BackgroundInv
<1>4. CASE \E f \in File : Reconcile(f)
  BY <1>4, VisitInv, VisitMovesInv, VisitPrunesInv DEF Reconcile
<1>5. CASE User
  BY <1>5, EditInv, QuietInv DEF User
<1>6. CASE Crash \/ LoseEvents
  BY <1>6, CrashInv, LoseEventsInv
<1>7. CASE \/ WalkStops \/ ScanDone \/ StartWatch \/ Receive \/ DropBatch \/ Stop
           \/ AtRest \/ UNCHANGED vars
  BY <1>7, QuietInv
<1> QED
  BY <1>1, <1>2, <1>3, <1>4, <1>5, <1>6, <1>7 DEF Next

\* The invariant holds in every state of every behaviour.
THEOREM Invariance == Spec => []IInv
  BY InitInv, NextInv, PTL DEF Spec

\* Every variable keeps its type, for every instance of the constants: in
\* particular a read of the table always yields a gapless chunk list, so the
\* cache and the tasks only ever hold such lists.
THEOREM TypeCorrect == Spec => []TypeOK
<1>1. IInv => TypeOK
  BY DEF IInv
<1> QED
  BY <1>1, Invariance, PTL

\* The index of a file is always one version it really had, whole, with the
\* model's own vectors (resource.rs:286-355, db.rs:396-442), whatever is
\* interleaved, fails, is cancelled or crashes.
THEOREM IndexCorrect == Spec => []IndexShowsRealVersion
<1>1. IInv => IndexShowsRealVersion
  BY DEF IInv
<1> QED
  BY <1>1, Invariance, PTL
----------------------------------------------------------------------------
(* The pipeline implements FileIndex.                                      *)

LEMMA ShownHad == IInv => \A f \in File : Shown(f) \in had[f] /\ Shown(f) \in Texts
<1> SUFFICES ASSUME IInv, NEW f \in File
             PROVE  Shown(f) \in had[f] /\ Shown(f) \in Texts
  OBVIOUS
<1>1. PICK v \in had[f] : v \in Seq(Piece) /\ FetchFingerprints(table, f) = Vectors(v)
  BY FetchShows DEF IInv
<1>2. Shown(f) = v
  BY <1>1, VectorsFacts DEF Shown
<1> QED
  BY <1>1, <1>2 DEF IInv, TypeOK

\* The table changes when a job is committed, the history when a file is
\* saved, and neither otherwise.
LEMMA StepKinds ==
    ASSUME [Next]_vars
    PROVE  \/ UNCHANGED <<table, had>>
           \/ Commit /\ had' = had
           \/ \E f \in File, v \in Versions \cup {Absent} : Edit(f, v)
<1> USE DEF writerVars, tableVars, diskVars
<1>1. CASE \E f \in File : WalkVisit(f) \/ Acquire(f)
  BY <1>1 DEF WalkVisit, Acquire
<1>2. ASSUME NEW c \in Caller, IndexOneFile(c)
      PROVE  UNCHANGED <<table, had>>
  <2>1. CASE OpenStopped(c) \/ Open(c) \/ ReadFails(c) \/ Read(c) \/ EmbedFails(c)
             \/ Cancelled(c) \/ SkipWrite(c) \/ Answered(c)
    BY <2>1 DEF OpenStopped, Open, ReadFails, Read, EmbedFails, Cancelled, SkipWrite, Answered, Leave
  <2>2. CASE LookupHit(c) \/ LookupMiss(c) \/ LookupReads(c) \/ LookupFails(c) \/ LookupFills(c)
    BY <2>2 DEF LookupHit, LookupMiss, LookupReads, LookupFails, LookupFills, CacheHit,
       CacheMiss, FetchRows, FetchFails, FillCache
  <2>3. CASE Reuse(c) \/ Embed(c) \/ Write(c) \/ Send(c)
    BY <2>3 DEF Reuse, Embed, Write, Send, CallReplace, SendJob, SendFails
  <2>4. CASE ChunkingPanics(c)
    BY <2>4 DEF ChunkingPanics, Leave
  <2> QED
    BY <1>2, <2>1, <2>2, <2>3, <2>4 DEF IndexOneFile
<1>3. CASE Background
  BY <1>3 DEF Background, Panic, Publish, CommitFails
<1>4. CASE \E f \in File : Reconcile(f)
  BY <1>4 DEF Reconcile, Visit, VisitSkips, VisitIndexes, VisitIndexesUnseen, Reindex,
              VisitPrunes, At, CallReplace
<1>5. CASE User
  BY <1>5 DEF User, Ignore
<1>6. CASE \/ WalkStops \/ ScanDone \/ StartWatch \/ Receive \/ LoseEvents \/ DropBatch
           \/ Stop \/ Crash \/ AtRest \/ UNCHANGED vars
  BY <1>6 DEF WalkStops, ScanDone, StartWatch, Receive, LoseEvents, DropBatch, Stop, Crash,
              AtRest, vars
<1> QED
  BY <1>1, <1>2, <1>3, <1>4, <1>5, <1>6 DEF Next

LEMMA RefinesInit == IInv => Index!Init
<1> SUFFICES ASSUME IInv PROVE Index!Init
  OBVIOUS
<1>1. had \in [File -> SUBSET Texts]
  BY DEF IInv, TypeOK
<1>2. \A f \in File : Shown(f) \in had[f] /\ Shown(f) \in Texts
  BY ShownHad
<1> QED
  BY <1>1, <1>2 DEF Index!Init

LEMMA RefinesNext ==
    IInv /\ IInv' /\ [Next]_vars => [Index!Next]_<<had, [f \in File |-> Shown(f)]>>
<1> SUFFICES ASSUME IInv, IInv', [Next]_vars
             PROVE  [Index!Next]_<<had, [f \in File |-> Shown(f)]>>
  OBVIOUS
<1> DEFINE shown == [f \in File |-> Shown(f)]
<1>1. table' = table => shown' = shown
  BY DEF Shown, FetchFingerprints, FileRows, Hashes
<1>2. CASE UNCHANGED <<table, had>>
  BY <1>1, <1>2
<1>3. CASE Commit /\ had' = had
  <2> DEFINE k == key[Head(queue)]
  <2>1. Receiving /\ table' = ReplaceFileChunks(table, k, arg[Head(queue)])
    BY <1>3 DEF Commit
  <2>2. k \in File
    BY <2>1, ReceiveFacts DEF IInv, TypeOK, WriterTypeOK
  <2>3. \A f \in File \ {k} : FileRows(table', f) = FileRows(table, f)
    BY <2>1, ReplaceKeepsOthers
  <2>4. \A f \in File \ {k} : Shown(f)' = Shown(f)
    BY <2>3 DEF Shown, FetchFingerprints
  <2>5. (\A f \in File : Shown(f) \in had[f] /\ Shown(f) \in Texts)'
    BY ShownHad, PTL
  <2> DEFINE text1 == shown'[k]
  <2>6. text1 \in had[k] /\ text1 \in Texts
    BY <1>3, <2>2, <2>5
  <2>7. shown' = [shown EXCEPT ![k] = text1]
    BY <2>2, <2>4
  <2> HIDE DEF shown, text1
  <2>8. Index!Show(k, text1)
    BY <1>3, <2>6, <2>7 DEF Index!Show, shown
  <2> QED
    BY <2>2, <2>6, <2>8 DEF Index!Next
<1>4. CASE \E f \in File, v \in Versions \cup {Absent} : Edit(f, v)
  <2>1. PICK f \in File, v \in Versions \cup {Absent} : Edit(f, v)
    BY <1>4
  <2>2. had' = [had EXCEPT ![f] = @ \cup {ChunksOf(v)}] /\ shown' = shown
    BY <1>1, <2>1 DEF Edit, writerVars
  <2>3. ChunksOf(v) \in Texts
    BY DEF ChunksOf, Texts
  <2> QED
    BY <2>2, <2>3 DEF Index!Next, Index!Save
<1> QED
  BY <1>2, <1>3, <1>4, StepKinds

\* Readers of the index see each file change from one version it really had
\* to another, whole, and one file at a time (FileIndex): the pipeline, with
\* its scan, watcher, cache and single writer, implements that promise.
THEOREM Refinement == Spec => IndexSpec
<1>1. Init => Index!Init
  BY InitInv, RefinesInit
<1> QED
  BY <1>1, RefinesNext, Invariance, PTL DEF Spec, IndexSpec, Index!Spec
----------------------------------------------------------------------------
(* After a stop every task takes one more step of its own at the most.     *)

LEMMA CallerFacts ==
    ASSUME IInv
    PROVE  /\ File \subseteq Caller /\ Watcher \in Caller /\ Watcher \notin File
           /\ Caller = File \cup {Watcher}
           /\ st \in [Caller -> Returned \cup Pending]
           /\ pc \in [Caller -> {"idle", "permit", "visit"} \cup Working \cup Ended]
           /\ key \in [Caller -> File] /\ arg \in [Caller -> Seq(Fingerprint)]
           /\ text \in [Caller -> Texts] /\ recs \in [Caller -> Seq(Fingerprint)]
  BY DEF IInv, TypeOK, WriterTypeOK

\* A step of a task in index_one_file touches neither the table, nor the job
\* in hand, nor another task, and the task stays with its file.
LEMMA TaskFacts ==
    ASSUME IInv, NEW c \in Caller, IndexOneFile(c)
    PROVE  /\ pc[c] \in Working /\ st[c] # "wait"
           /\ UNCHANGED <<table, job, key, watching>>
           /\ batch' \subseteq batch
           /\ ~watching => dirty' = dirty
           /\ \A d \in Caller \ {c} : Same(d)
<1> USE CallerFacts DEF Same, writerVars, tableVars, callVars, watchVars, taskVars, Advance, Set
<1>1. key = [key EXCEPT ![c] = key[c]]
  OBVIOUS
<1>2. /\ st[c] \in {"fetch", "fill"} => pc[c] = "lookup"
      /\ st[c] = "send" => pc[c] = "write"
      /\ st[c] = "wait" => pc[c] = "write"
  BY DEF IInv, StatusOK, Working, Ended
<1>3. CASE OpenStopped(c) \/ ReadFails(c) \/ EmbedFails(c) \/ Cancelled(c) \/ SkipWrite(c)
           \/ Answered(c)
  <2>1. /\ pc[c] \in {"open", "read", "embed", "write"}
        /\ pc[c] = "write" => st[c] \in Returned
        /\ \E result \in Ended : Leave(c, result)
        /\ UNCHANGED <<watching, batch>> /\ (~watching => dirty' = dirty)
    BY <1>3 DEF OpenStopped, ReadFails, Notify, EmbedFails, Cancelled, SkipWrite, Answered, MoreChunks, Built, Ended
  <2> QED
    BY <1>2, <2>1 DEF Leave, Finish, Working, Returned
<1>4. CASE LookupHit(c) \/ LookupMiss(c)
  BY <1>1, <1>2, <1>4 DEF LookupHit, LookupMiss, CacheHit, CacheMiss, Working
<1>5. CASE LookupReads(c)
  BY <1>2, <1>5 DEF LookupReads, FetchRows, Working
<1>6. CASE LookupFails(c) \/ LookupFills(c)
  BY <1>2, <1>6 DEF LookupFails, LookupFills, FetchFails, FillCache, Return, Working
<1>7. CASE Reuse(c) \/ Embed(c)
  BY <1>2, <1>7 DEF Reuse, Embed, Record, MoreChunks, Working
<1>8. CASE Open(c) \/ Read(c)
  BY <1>2, <1>8 DEF Open, Read, Notify, Working
<1>9. CASE Write(c)
  BY <1>1, <1>2, <1>9 DEF Write, Built, CallReplace, Working
<1>10. CASE Send(c)
  BY <1>2, <1>10 DEF Send, SendJob, SendFails, Return, Working
<1>11. CASE ChunkingPanics(c)
  BY <1>2, <1>11 DEF ChunkingPanics, Leave, Finish, Working
<1> QED
  BY <1>3, <1>4, <1>5, <1>6, <1>7, <1>8, <1>9, <1>10, <1>11 DEF IndexOneFile

\* A step that counts nothing, and after which a task that stands before a read,
\* a visit or a send stood there already.
LEMMA LateKept ==
    ASSUME LateInv, late' = late, cancelled' = cancelled,
           \A c \in Caller :
               cancelled => /\ pc'[c] \in {"visit", "read"} => pc[c] \in {"visit", "read"}
                            /\ st'[c] = "send" => st[c] = "send" \/ pc[c] = "visit"
    PROVE  LateInv'
  BY DEF LateInv, LateOK

LEMMA WorkKept ==
    ASSUME IInv, LateInv, NEW c \in Caller, Work(c),
           pc[c] \in {"visit", "read"} \/ st[c] = "send",
           pc'[c] \notin {"visit", "read"}, st'[c] # "send",
           \A d \in Caller \ {c} : pc'[d] = pc[d] /\ st'[d] = st[d]
    PROVE  LateInv'
<1>1. late \in [Caller -> Nat] /\ cancelled' = cancelled
  BY DEF IInv, TypeOK, Work
<1>2. ASSUME NEW d \in Caller PROVE LateOK(d)'
  <2>1. CASE d = c
    <3>1. late[c] = 0
      BY <1>1 DEF LateInv, LateOK
    <3>2. late'[c] = IF cancelled THEN 1 ELSE 0
      BY <1>1, <3>1 DEF Work
    <3> QED
      BY <1>1, <2>1, <3>2 DEF LateOK
  <2>2. CASE d # c
    <3>1. late'[d] = late[d]
      BY <1>1, <2>2 DEF Work
    <3> QED
      BY <1>1, <2>2, <3>1 DEF LateInv, LateOK
  <2> QED
    BY <2>1, <2>2
<1> QED
  BY <1>2 DEF LateInv

LEMMA LateTask ==
    ASSUME IInv, LateInv, NEW c \in Caller, IndexOneFile(c)
    PROVE  LateInv'
<1> USE CallerFacts DEF writerVars, tableVars, taskVars, ctlVars, Advance, Set
<1>1. \A d \in Caller \ {c} : pc'[d] = pc[d] /\ st'[d] = st[d]
  BY TaskFacts DEF Same
<1>2. CASE Read(c)
  <2>1. pc[c] = "read" /\ pc'[c] = "lookup" /\ st'[c] = "idle" /\ Work(c)
    BY <1>2 DEF Read, IInv, StatusOK
  <2> QED
    BY <1>1, <2>1, WorkKept
<1>3. CASE Send(c)
  <2>1. pc[c] = "write" /\ pc'[c] = "write" /\ st[c] = "send" /\ st'[c] # "send"
    BY <1>3 DEF Send, SendJob, SendFails, Return, IInv, StatusOK, Working, Ended
  <2>2. CASE Work(c)
    BY <1>1, <2>1, <2>2, WorkKept
  <2>3. CASE UNCHANGED ctlVars
    BY <1>1, <2>1, <2>3, LateKept
  <2> QED
    BY <1>3, <2>2, <2>3 DEF Send
<1>4. CASE ~Read(c) /\ ~Send(c)
  <2>1. /\ UNCHANGED ctlVars
        /\ cancelled => pc'[c] \notin {"visit", "read"} /\ st'[c] # "send"
    <3>1. CASE OpenStopped(c) \/ ReadFails(c) \/ EmbedFails(c) \/ Cancelled(c) \/ SkipWrite(c)
               \/ Answered(c) \/ ChunkingPanics(c)
      BY <3>1 DEF OpenStopped, ReadFails, EmbedFails, Cancelled, SkipWrite, Answered,
                  ChunkingPanics, Leave, Finish, Ended
    <3>2. CASE Open(c) \/ Write(c)
      BY <3>2 DEF Open, Write
    <3>3. CASE LookupHit(c) \/ LookupMiss(c) \/ LookupReads(c)
      <4>1. pc[c] = "lookup"
        BY <3>3 DEF LookupHit, LookupMiss, LookupReads, FetchRows, IInv, StatusOK, Working, Ended
      <4> QED
        BY <3>3, <4>1 DEF LookupHit, LookupMiss, LookupReads, CacheHit, CacheMiss, FetchRows
    <3>4. CASE LookupFails(c) \/ LookupFills(c)
      BY <3>4 DEF LookupFails, LookupFills, FetchFails, FillCache, Return
    <3>5. CASE Reuse(c) \/ Embed(c)
      <4>1. pc[c] = "embed" /\ st[c] # "send"
        BY <3>5 DEF Reuse, Embed, MoreChunks, IInv, StatusOK
      <4> QED
        BY <3>5, <4>1 DEF Reuse, Embed
    <3> QED
      BY <1>4, <3>1, <3>2, <3>3, <3>4, <3>5 DEF IndexOneFile
  <2> QED
    BY <1>1, <2>1, LateKept
<1> QED
  BY <1>2, <1>3, <1>4

LEMMA LateNext ==
    ASSUME IInv, LateInv, [Next]_vars
    PROVE  LateInv'
<1> USE CallerFacts
    DEF writerVars, tableVars, callVars, taskVars, watchVars, ctlVars, Advance, Set
<1>1. CASE \E f \in File : WalkVisit(f) \/ Acquire(f)
  <2>1. /\ UNCHANGED <<ctlVars, st>>
        /\ \A c \in Caller : pc'[c] \in {"visit", "read"} => pc[c] \in {"visit", "read"}
    BY <1>1 DEF WalkVisit, Acquire
  <2> QED
    BY <2>1, LateKept
<1>2. CASE \E c \in Caller : IndexOneFile(c)
  BY <1>2, LateTask
<1>3. CASE Background
  <2>1. UNCHANGED <<ctlVars, pc>>
    BY <1>3 DEF Background
  <2>2. \A c \in Caller : st'[c] = "send" => st[c] = "send"
    <3>1. CASE CommitFails
      BY <3>1, ReceiveFacts DEF CommitFails, Return
    <3>2. CASE Publish
      BY <3>2 DEF Publish, Return, IInv, TypeOK, WriterTypeOK
    <3> QED
      BY <1>3, <3>1, <3>2 DEF Background, Commit, Panic
  <2> QED
    BY <2>1, <2>2, LateKept
<1>4. CASE \E f \in File : Reconcile(f)
  <2> PICK f \in File : Reconcile(f)
    BY <1>4
  <2>1. CASE Visit(f)
    <3>1. ~cancelled /\ UNCHANGED <<ctlVars, st>>
      BY <2>1 DEF Visit
    <3> QED
      BY <3>1, LateKept
  <2>2. CASE ~Visit(f)
    <3>1. /\ UNCHANGED ctlVars /\ pc[Watcher] = "visit"
          /\ \E where \in {"idle", "open", "write"} : Advance(Watcher, where)
          /\ \A c \in Caller \ {Watcher} : st'[c] = st[c]
          /\ st'[Watcher] = "send" => st[Watcher] = "send" \/ pc[Watcher] = "visit"
      BY <2>2 DEF Reconcile, VisitSkips, VisitIndexes, VisitIndexesUnseen, Reindex, VisitPrunes,
                  At, CallReplace
    <3>2. \A c \in Caller : pc'[c] \in {"visit", "read"} => pc[c] \in {"visit", "read"}
      BY <3>1
    <3> QED
      BY <3>1, <3>2, LateKept
  <2> QED
    BY <2>1, <2>2
<1>5. CASE Stop
  <2>1. UNCHANGED <<pc, st, late>> /\ \A c \in Caller : late[c] = 0
    BY <1>5 DEF Stop, LateInv, LateOK
  <2> QED
    BY <2>1 DEF LateInv, LateOK
<1>6. CASE Crash
  BY <1>6 DEF Crash, LateInv, LateOK
<1>7. CASE \/ WalkStops \/ ScanDone \/ StartWatch \/ Receive \/ LoseEvents \/ DropBatch
           \/ User \/ AtRest \/ UNCHANGED vars
  <2>1. UNCHANGED <<ctlVars, pc, st>>
    BY <1>7 DEF WalkStops, ScanDone, StartWatch, Receive, LoseEvents, DropBatch, User, Edit,
                Ignore, AtRest, vars
  <2> QED
    BY <2>1, LateKept
<1> QED
  BY <1>2, <1>1, <1>3, <1>4, <1>5, <1>6, <1>7 DEF Next

\* Wherever a stop falls, also between a check of the token and what the check
\* allowed (resource.rs:282, 334, watcher.rs:161), each task reads at most one
\* more file or sends at most one more job: nothing new begins.
THEOREM StopLeavesOneStep == Spec => []OneStepAfterStop
<1>1. Init => LateInv
  BY DEF Init, LateInv, LateOK
<1>2. IInv /\ LateInv /\ [Next]_vars => LateInv'
  BY LateNext
<1>3. LateInv => OneStepAfterStop
  BY DEF LateInv, LateOK, OneStepAfterStop
<1> QED
  BY <1>1, <1>2, <1>3, Invariance, PTL DEF Spec
----------------------------------------------------------------------------
(* A write is skipped rightly, while no watcher shares the scan's files.   *)

\* Only the scan's tasks work, each on its own file.
Alone ==
    /\ ~watching /\ dirty = {} /\ batch = {} /\ pc[Watcher] = "idle"
    /\ \A f \in File : pc[f] \in Working => key[f] = f

\* What a task has read of the table is what the table still shows, and if it
\* could not read it has nothing.
ReadsFresh ==
    \A f \in File :
        /\ st[f] \in {"fill", "got"} => arg[f] = FetchFingerprints(table, f)
        /\ st[f] = "err" => arg[f] = <<>>

JobShown == job # NoCaller => arg[job] = FetchFingerprints(table, key[job])

\* The cache differs from the table on a file being published only.
CacheSettled ==
    \A k \in DOMAIN cache : Unsettled(k) \/ cache[k] = FetchFingerprints(table, k)

SkipInv == Alone /\ ReadsFresh /\ JobShown /\ CacheSettled

\* The watch is registered after the scan has begun; a restart begins anew.
UntilWatched == ~watching => SkipInv

\* Without a watch, the watcher has nothing to do.
LEMMA NoWatcher ==
    ASSUME IInv, Alone
    PROVE  /\ \A c \in Caller : IndexOneFile(c) => c \in File /\ key[c] = c
           /\ ~Receive /\ ~LoseEvents /\ ~DropBatch
           /\ \A f \in File : ~Reconcile(f)
<1>1. ASSUME NEW c \in Caller, IndexOneFile(c)
      PROVE  c \in File /\ key[c] = c
  BY <1>1, TaskFacts, CallerFacts DEF Alone, Working
<1>2. ~Receive /\ ~LoseEvents /\ ~DropBatch
  <2>1. dirty = {} /\ batch = {}
    BY DEF Alone
  <2>2. (SUBSET dirty) \ {{}} = {}
    BY <2>1
  <2> QED
    BY <2>1, <2>2 DEF Receive, LoseEvents, DropBatch
<1>3. ASSUME NEW f \in File PROVE ~Reconcile(f)
  BY DEF Alone, Reconcile, Visit, VisitSkips, VisitIndexes, VisitIndexesUnseen, Reindex,
         VisitPrunes, At
<1> QED
  BY <1>1, <1>2, <1>3

LEMMA AloneKept ==
    ASSUME IInv, Alone, [Next]_vars, ~watching'
    PROVE  Alone'
<1> USE CallerFacts
    DEF writerVars, tableVars, callVars, diskVars, scanVars, watchVars, taskVars, Advance
<1>1. ASSUME NEW f \in File, WalkVisit(f) \/ Acquire(f)
      PROVE  Alone'
  <2>1. /\ UNCHANGED watchVars /\ f # Watcher
        /\ \A c \in Caller \ {f} : pc'[c] = pc[c] /\ key'[c] = key[c]
        /\ pc'[f] \in Working => key'[f] = f
    BY <1>1 DEF WalkVisit, Acquire, Alone, Working
  <2> QED
    BY <2>1 DEF Alone
<1>2. ASSUME NEW c \in Caller, IndexOneFile(c)
      PROVE  Alone'
  <2>1. c \in File /\ key[c] = c /\ c # Watcher
    BY <1>2, NoWatcher
  <2>2. /\ key' = key /\ watching' = watching /\ batch' \subseteq batch
        /\ ~watching => dirty' = dirty
        /\ \A d \in Caller \ {c} : pc'[d] = pc[d]
    BY <1>2, TaskFacts DEF Same
  <2>3. batch' = {}
    BY <2>2 DEF Alone
  <2>4. ~watching' /\ dirty' = {} /\ pc'[Watcher] = "idle"
    BY <2>1, <2>2 DEF Alone
  <2>5. ASSUME NEW f \in File, pc'[f] \in Working PROVE key'[f] = f
    BY <2>1, <2>2, <2>5 DEF Alone
  <2> QED
    BY <2>3, <2>4, <2>5 DEF Alone
<1>3. CASE Background
  <2>1. UNCHANGED <<watchVars, pc>>
    BY <1>3 DEF Background
  <2>2. key' = key
    BY <1>3 DEF Background, Commit, Panic, Publish, CommitFails
  <2> QED
    BY <2>1, <2>2 DEF Alone
<1>4. CASE User
  BY <1>4 DEF User, Edit, Ignore, Notify, Alone
<1>5. CASE Crash
  BY <1>5 DEF Crash, Alone, Working
<1>6. ~StartWatch
  BY DEF StartWatch
<1>7. CASE WalkStops \/ ScanDone \/ Stop \/ AtRest \/ UNCHANGED vars
  BY <1>7 DEF WalkStops, ScanDone, Stop, AtRest, vars, Alone
<1> QED
  BY <1>1, <1>2, <1>3, <1>4, <1>5, <1>6, <1>7, NoWatcher DEF Next

\* No job is in hand on the file that a task has still to compare.
LEMMA NotUnsettled ==
    ASSUME IInv, Alone, NEW c \in File, pc[c] = "lookup"
    PROVE  ~Unsettled(c)
<1>1. ASSUME job # NoCaller, key[job] = c PROVE FALSE
  <2>1. job \in Caller /\ st[job] = "wait"
    BY <1>1 DEF IInv, TypeOK, WriterTypeOK, QueueOK
  <2>2. pc[job] = "write"
    BY <2>1, CallerFacts DEF IInv, StatusOK, Working, Ended
  <2> QED
    BY <1>1, <2>1, <2>2, CallerFacts DEF Alone, Working
<1>2. ASSUME NEW d \in Caller, st[d] = "evict" PROVE FALSE
  BY <1>2, CallerFacts DEF IInv, StatusOK, Working, Ended
<1> QED
  BY <1>1, <1>2 DEF Unsettled

\* The job in hand decides which file may be unsettled.
UnsettledByJob == \A k : Unsettled(k) <=> job # NoCaller /\ key[job] = k

LEMMA UnsettledJob == IInv => UnsettledByJob
<1> SUFFICES ASSUME IInv PROVE UnsettledByJob
  OBVIOUS
<1>1. ASSUME NEW d \in Caller, st[d] = "evict" PROVE FALSE
  BY <1>1, CallerFacts DEF IInv, StatusOK, Working, Ended
<1> QED
  BY <1>1 DEF Unsettled, UnsettledByJob

\* What is read of a file depends on its rows only.
LEMMA FetchRowsOnly ==
    ASSUME NEW t, NEW u, NEW k, FileRows(t, k) = FileRows(u, k)
    PROVE  FetchFingerprints(t, k) = FetchFingerprints(u, k)
  BY DEF FetchFingerprints

LEMMA SkipTask ==
    ASSUME IInv, IInv', SkipInv, NEW c \in Caller, IndexOneFile(c)
    PROVE  ReadsFresh' /\ JobShown' /\ CacheSettled'
<1> USE CallerFacts DEF writerVars, tableVars, callVars, taskVars, Advance, Set
<1>1. c \in File /\ key[c] = c
  BY NoWatcher DEF SkipInv
<1>2. /\ st[c] # "wait"
      /\ table' = table /\ job' = job /\ key' = key
      /\ \A d \in Caller \ {c} : st'[d] = st[d] /\ arg'[d] = arg[d]
  BY TaskFacts DEF Same
<1>3. JobShown'
  <2>1. job # NoCaller => job \in Caller \ {c}
    BY <1>2 DEF IInv, TypeOK, WriterTypeOK, QueueOK
  <2> QED
    BY <1>2, <2>1 DEF SkipInv, JobShown
<1>4. /\ st'[c] \in {"fill", "got"} => arg'[c] = FetchFingerprints(table, c)
      /\ st'[c] = "err" => arg'[c] = <<>>
      /\ \/ cache' = cache
         \/ /\ arg[c] = FetchFingerprints(table, c)
            /\ cache' = [x \in DOMAIN cache \cup {c} |-> IF x = c THEN arg[c] ELSE cache[x]]
  <2>1. CASE OpenStopped(c) \/ ReadFails(c) \/ EmbedFails(c) \/ Cancelled(c) \/ SkipWrite(c)
             \/ Answered(c) \/ ChunkingPanics(c)
    BY <2>1 DEF OpenStopped, ReadFails, EmbedFails, Cancelled, SkipWrite, Answered, ChunkingPanics, Leave
  <2>2. CASE LookupHit(c)
    <3>1. /\ pc[c] = "lookup" /\ c \in DOMAIN cache
          /\ st'[c] = "got" /\ arg'[c] = cache[c] /\ cache' = cache
      BY <1>1, <2>2 DEF LookupHit, CacheHit
    <3> QED
      BY <1>1, <3>1, NotUnsettled DEF SkipInv, CacheSettled
  <2>3. CASE LookupMiss(c) \/ LookupReads(c)
    BY <1>1, <2>3 DEF LookupMiss, LookupReads, CacheMiss, FetchRows
  <2>4. CASE LookupFails(c)
    BY <2>4 DEF LookupFails, FetchFails, Return
  <2>5. CASE LookupFills(c)
    BY <1>1, <2>5 DEF LookupFills, FillCache, CacheInsert, SkipInv, ReadsFresh
  <2>6. CASE Open(c) \/ Read(c) \/ Reuse(c) \/ Embed(c)
    BY <1>1, <2>6 DEF Open, Read, Reuse, Embed, SkipInv, ReadsFresh
  <2>7. CASE Write(c)
    BY <2>7 DEF Write, CallReplace
  <2>8. CASE Send(c)
    BY <2>8 DEF Send, SendJob, SendFails, Return
  <2> QED
    BY <2>1, <2>2, <2>3, <2>4, <2>5, <2>6, <2>7, <2>8 DEF IndexOneFile
<1>5. ReadsFresh'
  BY <1>2, <1>4 DEF SkipInv, ReadsFresh
<1>6. CacheSettled'
  <2> SUFFICES ASSUME NEW k \in DOMAIN cache', ~Unsettled(k)'
               PROVE  cache'[k] = FetchFingerprints(table, k)
    BY <1>2 DEF CacheSettled
  <2>1. ~Unsettled(k)
    <3>1. UnsettledByJob /\ UnsettledByJob'
      BY UnsettledJob, PTL
    <3> QED
      BY <1>2, <3>1 DEF UnsettledByJob
  <2> QED
    BY <1>4, <2>1 DEF SkipInv, CacheSettled
<1> QED
  BY <1>3, <1>5, <1>6

LEMMA SkipCommit ==
    ASSUME IInv, IInv', SkipInv, Commit
    PROVE  ReadsFresh' /\ JobShown' /\ CacheSettled'
<1> DEFINE c == Head(queue)
           k == key[c]
<1>1. /\ c \in Caller /\ st[c] = "wait" /\ pc[c] = "write" /\ arg[c] \in Seq(Fingerprint)
      /\ job = NoCaller /\ job' = c
      /\ table' = ReplaceFileChunks(table, k, arg[c])
      /\ UNCHANGED <<cache, st, key, arg>>
  BY ReceiveFacts, CallerFacts DEF Commit, Receiving, callVars
<1>2. c \in File /\ k = c
  BY <1>1, CallerFacts DEF SkipInv, Alone, Working
<1> HIDE DEF c, k
<1>3. FetchFingerprints(table', k) = arg[c]
  BY <1>1, ReplaceShows, FetchBatch
<1>4. \A l \in File \ {k} : FetchFingerprints(table', l) = FetchFingerprints(table, l)
  BY <1>1, ReplaceKeepsOthers, FetchRowsOnly
<1>5. ReadsFresh'
  BY <1>1, <1>2, <1>4 DEF SkipInv, ReadsFresh
<1>6. JobShown'
  BY <1>1, <1>3 DEF k, JobShown
<1>7. CacheSettled'
  <2> SUFFICES ASSUME NEW l \in DOMAIN cache', ~Unsettled(l)'
               PROVE  cache'[l] = FetchFingerprints(table', l)
    BY DEF CacheSettled
  <2>1. UnsettledByJob /\ UnsettledByJob'
    BY UnsettledJob, PTL
  <2>2. ~Unsettled(l)
    BY <1>1, <2>1 DEF UnsettledByJob
  <2>3. l # k
    BY <1>1, <2>1 DEF UnsettledByJob, k, IInv, TypeOK, WriterTypeOK
  <2>4. l \in File
    BY <1>1 DEF IInv, TypeOK, WriterTypeOK
  <2> QED
    BY <1>1, <1>4, <2>2, <2>3, <2>4 DEF SkipInv, CacheSettled
<1> QED
  BY <1>5, <1>6, <1>7

\* What the writer answers touches only callers that wait for it.
LEMMA SkipAnswers ==
    ASSUME IInv, IInv', SkipInv, CommitFails \/ Panic
    PROVE  ReadsFresh' /\ JobShown' /\ CacheSettled'
<1>1. /\ job = NoCaller /\ UNCHANGED <<table, cache, job, key>>
      /\ \A c \in Caller : \/ st'[c] = st[c] /\ arg'[c] = arg[c]
                           \/ st'[c] = "err" /\ arg'[c] = <<>>
  BY ReceiveFacts, CallerFacts DEF CommitFails, Panic, Return, Set, Receiving
<1>2. ReadsFresh' /\ JobShown'
  BY <1>1, CallerFacts DEF SkipInv, ReadsFresh, JobShown
<1>3. UnsettledByJob /\ UnsettledByJob'
  BY UnsettledJob, PTL
<1> QED
  BY <1>1, <1>2, <1>3 DEF SkipInv, CacheSettled, UnsettledByJob

LEMMA SkipPublish ==
    ASSUME IInv, IInv', SkipInv, Publish
    PROVE  ReadsFresh' /\ JobShown' /\ CacheSettled'
<1>1. /\ job \in Caller /\ job # NoCaller /\ job' = NoCaller
      /\ arg[job] = FetchFingerprints(table, key[job])
      /\ UNCHANGED <<table, key>>
      /\ \A c \in Caller : \/ st'[c] = st[c] /\ arg'[c] = arg[c]
                           \/ st'[c] = "ok"
  BY CallerFacts DEF Publish, Return, Set, SkipInv, JobShown, IInv, TypeOK, WriterTypeOK
<1>2. ReadsFresh' /\ JobShown'
  BY <1>1, CallerFacts DEF SkipInv, ReadsFresh, JobShown
<1>3. ASSUME NEW k \in DOMAIN cache'
      PROVE  cache'[k] = FetchFingerprints(table, k)
  <2>1. UnsettledByJob
    BY UnsettledJob
  <2>2. \/ k = key[job] /\ cache'[k] = arg[job]
        \/ k # key[job] /\ k \in DOMAIN cache /\ cache'[k] = cache[k]
    <3>1. CASE arg[job] = <<>>
      BY <3>1 DEF Publish, CacheKeep
    <3>2. CASE arg[job] # <<>>
      BY <3>2 DEF Publish, CacheInsert
    <3> QED
      BY <3>1, <3>2
  <2> QED
    BY <1>1, <2>1, <2>2 DEF SkipInv, CacheSettled, UnsettledByJob
<1> QED
  BY <1>1, <1>2, <1>3 DEF CacheSettled

LEMMA SkipInit == Init => SkipInv
<1> SUFFICES ASSUME Init PROVE SkipInv
  OBVIOUS
<1>1. IInv
  BY InitInv
<1> QED
  BY <1>1, CallerFacts
     DEF Init, WriterInit, SkipInv, Alone, ReadsFresh, JobShown, CacheSettled, Working

\* A step that leaves the writer alone, but for a task that takes up a file.
LEMMA SkipQuiet ==
    ASSUME IInv, IInv', SkipInv, UNCHANGED <<table, cache, job, st, arg>>,
           \A c \in Caller : key'[c] = key[c] \/ st[c] = "idle"
    PROVE  ReadsFresh' /\ JobShown' /\ CacheSettled'
<1>1. UnsettledByJob /\ UnsettledByJob'
  BY UnsettledJob, PTL
<1>2. ReadsFresh'
  BY DEF SkipInv, ReadsFresh
<1>3. job # NoCaller => key'[job] = key[job]
  BY DEF IInv, TypeOK, WriterTypeOK, QueueOK
<1> QED
  BY <1>1, <1>2, <1>3 DEF SkipInv, JobShown, CacheSettled, UnsettledByJob

LEMMA SkipNext ==
    ASSUME IInv, IInv', SkipInv, [Next]_vars, ~watching'
    PROVE  SkipInv'
<1>1. Alone'
  BY AloneKept DEF SkipInv
<1> SUFFICES ReadsFresh' /\ JobShown' /\ CacheSettled'
  BY <1>1 DEF SkipInv
<1>2. ASSUME NEW c \in Caller, IndexOneFile(c)
      PROVE  ReadsFresh' /\ JobShown' /\ CacheSettled'
  BY <1>2, SkipTask
<1>3. CASE Background
  <2>1. Commit \/ CommitFails \/ Panic \/ Publish
    BY <1>3 DEF Background
  <2> QED
    BY <2>1, SkipCommit, SkipAnswers, SkipPublish
<1>4. CASE \E f \in File : WalkVisit(f) \/ Acquire(f)
  <2>1. UNCHANGED <<table, cache, job, st, arg>>
    BY <1>4 DEF WalkVisit, Acquire, writerVars, tableVars
  <2>2. \A c \in Caller : key'[c] = key[c] \/ st[c] = "idle"
    <3>1. \A f \in File : pc[f] = "permit" => st[f] = "idle"
      BY CallerFacts DEF IInv, StatusOK
    <3> QED
      BY <1>4, <3>1, CallerFacts DEF WalkVisit, Acquire, writerVars
  <2> QED
    BY <2>1, <2>2, SkipQuiet
<1>5. CASE User \/ WalkStops \/ ScanDone \/ StartWatch \/ Stop \/ AtRest \/ UNCHANGED vars
  <2>1. UNCHANGED writerVars
    BY <1>5 DEF User, Edit, Ignore, WalkStops, ScanDone, StartWatch, Stop, AtRest, vars
  <2> QED
    BY <2>1, SkipQuiet DEF writerVars
<1>6. CASE Crash
  <2>1. /\ job' = NoCaller /\ DOMAIN cache' = {}
        /\ \A c \in Caller : st'[c] = "idle"
    BY <1>6 DEF Crash, NewCache
  <2> QED
    BY <2>1, CallerFacts DEF ReadsFresh, JobShown, CacheSettled
<1> QED
  BY <1>2, <1>3, <1>4, <1>5, <1>6, NoWatcher DEF Next, SkipInv

\* The records a task has built carry the hashes of the text it read.
LEMMA BuiltText ==
    ASSUME IInv, NEW c \in Caller, Built(c)
    PROVE  Hashes(recs[c]) = text[c]
<1>1. RecordsOf(recs[c], text[c]) /\ Len(recs[c]) = Len(text[c])
  BY DEF IInv, TaskOK, Built
<1>2. text[c] \in Seq(Piece) /\ recs[c] \in Seq(Fingerprint)
  BY CallerFacts, TextsType
<1>3. DOMAIN recs[c] = DOMAIN text[c] /\ \A i \in DOMAIN recs[c] : recs[c][i].hash = text[c][i]
  BY <1>1, <1>2 DEF RecordsOf
<1>4. text[c] = [i \in DOMAIN text[c] |-> text[c][i]]
  BY <1>2
<1> QED
  BY <1>3, <1>4 DEF Hashes

LEMMA UntilWatchedInit == Init => UntilWatched
  BY SkipInit DEF Init, UntilWatched

LEMMA UntilWatchedNext ==
    ASSUME IInv, IInv', UntilWatched, [Next]_vars
    PROVE  UntilWatched'
<1>1. \/ watching' = watching
      \/ StartWatch
      \/ Crash
  <2>1. ASSUME NEW c \in Caller, IndexOneFile(c) PROVE watching' = watching
    BY <2>1, TaskFacts
  <2>2. ASSUME NEW f \in File, Reconcile(f) PROVE watching' = watching
    BY <2>2 DEF Reconcile, Visit, VisitSkips, VisitIndexes, VisitIndexesUnseen, Reindex,
                VisitPrunes, At
  <2>3. CASE Background \/ User
    BY <2>3 DEF Background, User, Edit, Ignore, watchVars
  <2>4. CASE \E f \in File : WalkVisit(f) \/ Acquire(f)
    BY <2>4 DEF WalkVisit, Acquire, watchVars
  <2>5. CASE WalkStops \/ ScanDone \/ Receive \/ LoseEvents \/ DropBatch \/ Stop \/ AtRest
             \/ UNCHANGED vars
    BY <2>5 DEF WalkStops, ScanDone, Receive, LoseEvents, DropBatch, Stop, AtRest, vars, watchVars
  <2> QED
    BY <2>1, <2>2, <2>3, <2>4, <2>5 DEF Next
<1>2. CASE watching' = watching
  BY <1>2, SkipNext DEF UntilWatched
<1>3. CASE StartWatch
  BY <1>3 DEF StartWatch, UntilWatched
<1>4. CASE Crash
  <2>1. /\ ~watching' /\ dirty' = {} /\ batch' = {} /\ job' = NoCaller /\ DOMAIN cache' = {}
        /\ \A c \in Caller : st'[c] = "idle" /\ pc'[c] = "idle"
    BY <1>4 DEF Crash, NewCache
  <2> QED
    BY <2>1, CallerFacts
       DEF UntilWatched, SkipInv, Alone, ReadsFresh, JobShown, CacheSettled, Working
<1> QED
  BY <1>1, <1>2, <1>3, <1>4

LEMMA SkipInvariance == Spec => [](IInv /\ UntilWatched)
<1>1. IInv /\ UntilWatched /\ [Next]_vars => (IInv /\ UntilWatched)'
  BY NextInv, UntilWatchedNext
<1> QED
  BY InitInv, UntilWatchedInit, <1>1, PTL DEF Spec

\* Until the watcher works on the same files, a task of the scan that skips its
\* write leaves the file shown as it has just read it (resource.rs:338): the
\* fingerprints it was given were current, and stay so over its awaits,
\* although the other tasks, the writer, faults, stops and crashes go on.  A
\* failed look-up counts as "no chunks" (resource.rs:298), so after one a file
\* that is empty now keeps what it last showed; no other skip is wrong.
THEOREM SkipsRightUntilWatched == Spec => SkipsUntilWatched
<1>1. IInv /\ UntilWatched =>
        [~watching =>
            \A c \in Caller : SkipWrite(c) =>
                Shown(key[c]) = text[c] \/ (st[c] = "err" /\ text[c] = <<>>)]_vars
  <2> SUFFICES ASSUME IInv, SkipInv, NEW c \in Caller, SkipWrite(c)
               PROVE  Shown(key[c]) = text[c] \/ (st[c] = "err" /\ text[c] = <<>>)
    BY DEF UntilWatched
  <2>1. pc[c] = "embed" /\ Built(c) /\ Unchanged(c)
    BY DEF SkipWrite, Built
  <2>2. c \in File /\ key[c] = c
    BY <2>1, CallerFacts DEF SkipInv, Alone, Working
  <2>3. Hashes(arg[c]) = text[c]
    BY <2>1, BuiltText DEF Unchanged
  <2>4. CASE st[c] = "err"
    <3>1. arg[c] = <<>>
      BY <2>2, <2>4 DEF SkipInv, ReadsFresh
    <3> QED
      BY <2>3, <2>4, <3>1 DEF Hashes
  <2>5. CASE st[c] = "got"
    BY <2>2, <2>3, <2>5 DEF SkipInv, ReadsFresh, Shown
  <2> QED
    BY <2>1, <2>4, <2>5 DEF IInv, StatusOK
<1> QED
  BY SkipInvariance, <1>1, PTL DEF SkipsUntilWatched

----------------------------------------------------------------------------
(* What the liveness of the writer's callers rests on.                     *)

\* A caller that waits for an answer has its job in the channel or in the hands
\* of the writer, and the writer is alive.
NobodyStranded ==
    \A c \in Caller :
        st[c] = "wait" => up /\ (job = c \/ \E i \in DOMAIN queue : queue[i] = c)

\* A step of a task sends the task's own job, if any.
LEMMA StrandedTask ==
    ASSUME IInv, NobodyStranded, NEW c \in Caller, IndexOneFile(c)
    PROVE  NobodyStranded'
<1> USE CallerFacts DEF writerVars, tableVars, callVars, Set
<1>1. job' = job /\ \A d \in Caller \ {c} : st'[d] = st[d]
  BY TaskFacts DEF Same
<1>2. queue \in Seq(Caller)
  BY DEF IInv, TypeOK, WriterTypeOK
<1>3. /\ up' = up
      /\ \/ queue' = queue /\ (st'[c] = "wait" => st[c] = "wait")
         \/ queue' = Append(queue, c) /\ up
  <2>1. CASE OpenStopped(c) \/ ReadFails(c) \/ EmbedFails(c) \/ Cancelled(c) \/ SkipWrite(c)
             \/ Answered(c) \/ ChunkingPanics(c)
    BY <2>1 DEF OpenStopped, ReadFails, EmbedFails, Cancelled, SkipWrite, Answered, ChunkingPanics, Leave
  <2>2. CASE LookupHit(c) \/ LookupMiss(c) \/ LookupReads(c)
    BY <2>2 DEF LookupHit, LookupMiss, LookupReads, CacheHit, CacheMiss, FetchRows
  <2>3. CASE LookupFails(c) \/ LookupFills(c)
    BY <2>3 DEF LookupFails, LookupFills, FetchFails, FillCache, Return
  <2>4. CASE Open(c) \/ Read(c) \/ Reuse(c) \/ Embed(c)
    BY <2>4 DEF Open, Read, Reuse, Embed
  <2>5. CASE Write(c)
    BY <2>5 DEF Write, CallReplace
  <2>6. CASE Send(c)
    BY <2>6 DEF Send, SendJob, SendFails, Return
  <2> QED
    BY <2>1, <2>2, <2>3, <2>4, <2>5, <2>6 DEF IndexOneFile
<1>4. CASE queue' = Append(queue, c) /\ up
  <2>1. queue'[Len(queue) + 1] = c /\ Len(queue) + 1 \in DOMAIN queue'
    BY <1>2, <1>4
  <2>2. \A i \in DOMAIN queue : i \in DOMAIN queue' /\ queue'[i] = queue[i]
    BY <1>2, <1>4
  <2> QED
    BY <1>1, <1>3, <1>4, <2>1, <2>2 DEF NobodyStranded
<1>5. CASE queue' = queue /\ (st'[c] = "wait" => st[c] = "wait")
  BY <1>1, <1>3, <1>5 DEF NobodyStranded
<1> QED
  BY <1>3, <1>4, <1>5

\* The writer takes the first job, and answers what it lets go of.
LEMMA StrandedWriter ==
    ASSUME IInv, NobodyStranded, Commit \/ CommitFails \/ Panic \/ Publish
    PROVE  NobodyStranded'
<1> USE CallerFacts
<1>1. queue \in Seq(Caller)
  BY DEF IInv, TypeOK, WriterTypeOK
<1>2. CASE Commit \/ CommitFails
  <2> DEFINE h == Head(queue)
  <2>1. /\ job = NoCaller /\ up' = up /\ queue # <<>> /\ queue' = Tail(queue)
        /\ h \in Caller /\ h = queue[1]
    BY <1>1, <1>2, ReceiveFacts DEF Commit, CommitFails, Receiving
  <2>2. /\ job' = h \/ st'[h] = "err"
        /\ \A d \in Caller \ {h} : st'[d] = st[d]
    BY <1>2, <2>1 DEF Commit, CommitFails, Return, Set, callVars
  <2> HIDE DEF h
  <2>3. ASSUME NEW i \in DOMAIN queue, queue[i] # h
        PROVE  i - 1 \in DOMAIN queue' /\ queue'[i - 1] = queue[i]
    <3>1. i # 1 /\ i \in 1 .. Len(queue)
      BY <1>1, <2>1, <2>3
    <3>2. Len(queue') = Len(queue) - 1 /\ queue' \in Seq(Caller) /\ i - 1 \in 1 .. Len(queue')
      BY <1>1, <2>1, <3>1
    <3>3. queue'[i - 1] = queue[i - 1 + 1]
      BY <1>1, <2>1, <3>2
    <3> QED
      BY <3>1, <3>2, <3>3
  <2>4. ASSUME NEW d \in Caller, st'[d] = "wait"
        PROVE  up' /\ (job' = d \/ \E i \in DOMAIN queue' : queue'[i] = d)
    <3>1. CASE d = h
      <4>1. st[h] = "wait" /\ up
        BY <1>2, ReceiveFacts DEF h, Commit, CommitFails, Receiving
      <4> QED
        BY <2>1, <2>2, <2>4, <3>1, <4>1
    <3>2. CASE d # h
      <4>1. st[d] = "wait" /\ up /\ d # NoCaller
        BY <2>2, <2>4, <3>2, WriterAssumption DEF NobodyStranded
      <4>2. PICK i \in DOMAIN queue : queue[i] = d
        BY <2>1, <4>1 DEF NobodyStranded
      <4> QED
        BY <2>1, <2>3, <3>2, <4>1, <4>2
    <3> QED
      BY <3>1, <3>2
  <2> QED
    BY <2>4 DEF NobodyStranded
<1>3. CASE Panic
  BY <1>3 DEF Panic, NobodyStranded
<1>4. CASE Publish
  <2>1. job \in Caller /\ UNCHANGED <<queue, up>> /\ st'[job] = "ok"
    BY <1>4 DEF Publish, Return, Set, IInv, TypeOK, WriterTypeOK
  <2>2. \A d \in Caller \ {job} : st'[d] = st[d]
    BY <1>4 DEF Publish, Return, Set
  <2> QED
    BY <2>1, <2>2 DEF NobodyStranded
<1> QED
  BY <1>2, <1>3, <1>4

LEMMA StrandedNext ==
    ASSUME IInv, NobodyStranded, [Next]_vars
    PROVE  NobodyStranded'
<1>1. ASSUME NEW c \in Caller, IndexOneFile(c) PROVE NobodyStranded'
  BY <1>1, StrandedTask
<1>2. CASE Background
  BY <1>2, StrandedWriter DEF Background
<1>3. CASE Crash
  BY <1>3 DEF Crash, NobodyStranded
<1>4. CASE \E f \in File : Reconcile(f)
  <2>1. /\ UNCHANGED <<queue, job, up>>
        /\ \A d \in Caller : st'[d] = "wait" => st[d] = "wait"
    BY <1>4, CallerFacts
       DEF Reconcile, Visit, VisitSkips, VisitIndexes, VisitIndexesUnseen, Reindex,
           VisitPrunes, At, CallReplace, Set, tableVars, writerVars
  <2> QED
    BY <2>1 DEF NobodyStranded
<1>5. CASE \/ \E f \in File : WalkVisit(f) \/ Acquire(f)
           \/ WalkStops \/ ScanDone \/ StartWatch \/ Receive \/ LoseEvents \/ DropBatch
           \/ User \/ Stop \/ AtRest \/ UNCHANGED vars
  <2>1. UNCHANGED <<queue, job, up, st>>
    BY <1>5 DEF WalkVisit, Acquire, WalkStops, ScanDone, StartWatch, Receive, LoseEvents,
                DropBatch, User, Edit, Ignore, Stop, AtRest, vars, writerVars, tableVars
  <2> QED
    BY <2>1 DEF NobodyStranded
<1> QED
  BY <1>1, <1>2, <1>3, <1>4, <1>5 DEF Next

\* Every caller that waits for the writer is one the writer will come to or has
\* at hand, and none waits for a writer that has died (resource.rs:166-171):
\* whatever fails, is stopped or restarted, no job is lost with its sender
\* left behind.
THEOREM CallersServed == Spec => []NobodyStranded
<1>1. Init => NobodyStranded
  BY DEF Init, WriterInit, NobodyStranded
<1>2. IInv /\ NobodyStranded /\ [Next]_vars => NobodyStranded'
  BY StrandedNext
<1> QED
  BY <1>1, <1>2, Invariance, PTL DEF Spec
============================================================================
