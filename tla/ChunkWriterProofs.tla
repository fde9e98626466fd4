------------------------- MODULE ChunkWriterProofs -------------------------
(***************************************************************************)
(* The table of the writer is well formed, and its cache agrees with it    *)
(* but for overtaken fills, for any number of callers on any files, any    *)
(* channel and any chunk lists: WriterInv is an invariant of WriterSpec.   *)
(***************************************************************************)
EXTENDS ChunkWriter, ChunkStoreProofs

USE DEF Set, Return, tableVars, callVars

\* Every other caller is left as it is.
Others(c) ==
    \A d \in Caller \ {c} : st'[d] = st[d] /\ key'[d] = key[d] /\ arg'[d] = arg[d]

\* A step of c that leaves the table alone, and the queue but for its own job.
LEMMA CallerInv ==
    ASSUME WriterInv, NEW c \in Caller, Others(c), WriterTypeOK',
           UNCHANGED <<table, job>>, st[c] # "wait",
           \/ queue' = queue
           \/ queue' = Append(queue, c) /\ st'[c] = "wait"
    PROVE  WriterInv'
<1> USE DEF WriterInv, Others
<1>1. TableShowsLists'
  BY DEF TableShowsLists
<1>2. JobsOK'
  <2>1. c # job /\ \A i \in DOMAIN queue : queue[i] \in Caller \ {c}
    BY WriterAssumption DEF JobsOK, WriterTypeOK
  <2>2. job # NoCaller => st'[job] = "wait"
    BY <2>1 DEF JobsOK, WriterTypeOK
  <2>3. CASE queue' = queue
    BY <2>1, <2>2, <2>3 DEF JobsOK
  <2>4. CASE queue' = Append(queue, c) /\ st'[c] = "wait"
    <3>1. queue \in Seq(Caller)
      BY DEF WriterTypeOK
    <3>2. /\ DOMAIN queue' = DOMAIN queue \cup {Len(queue) + 1}
          /\ \A i \in DOMAIN queue : queue'[i] = queue[i]
          /\ queue'[Len(queue) + 1] = c
      BY <2>4, <3>1
    <3> QED
      BY <2>1, <2>2, <2>4, <3>2 DEF JobsOK
  <2> QED
    BY <2>3, <2>4
<1> QED
  BY <1>1, <1>2
----------------------------------------------------------------------------
(* The calls.                                                              *)

\* What a read of a file returns, when its rows are those of a list.
LEMMA FetchType ==
    ASSUME WriterInv, NEW k \in Key
    PROVE  FetchFingerprints(table, k) \in Seq(Fingerprint)
  BY DEF WriterInv, TableShowsLists

LEMMA EmptyType == <<>> \in Seq(Fingerprint)
  OBVIOUS

LEMMA GetInv ==
    ASSUME WriterInv, NEW c \in Caller, NEW k \in Key, GetFingerprints(c, k)
    PROVE  WriterInv'
<1> USE DEF GetFingerprints, CacheHit, CacheMiss, Free
<1>1. st[c] \notin {"wait", "evict"} /\ st'[c] \in {"got", "fetch"} /\ key'[c] = k
  BY DEF WriterInv, WriterTypeOK, Returned
<1>2. Others(c)
  BY DEF WriterInv, WriterTypeOK, Others
<1>3. WriterTypeOK'
  <2>1. st' \in [Caller -> Returned \cup Pending] /\ key' \in [Caller -> Key]
    BY DEF WriterInv, WriterTypeOK, Returned, Pending
  <2>2. arg' \in [Caller -> Seq(Fingerprint)]
    BY EmptyType DEF WriterInv, WriterTypeOK
  <2> QED
    BY <2>1, <2>2 DEF WriterInv, WriterTypeOK
<1> QED
  BY <1>1, <1>2, <1>3, CallerInv

LEMMA FetchInv ==
    ASSUME WriterInv, NEW c \in Caller, FetchRows(c) \/ FetchFails(c)
    PROVE  WriterInv'
<1> USE DEF FetchRows, FetchFails
<1>1. /\ st[c] = "fetch" /\ key' = key
      /\ \/ st'[c] = "err"
         \/ st'[c] = "fill" /\ arg'[c] = FetchFingerprints(table, key[c])
  BY DEF WriterInv, WriterTypeOK
<1>2. Others(c)
  BY DEF WriterInv, WriterTypeOK, Others
<1>3. WriterTypeOK'
  <2>1. FetchFingerprints(table, key[c]) \in Seq(Fingerprint)
    BY FetchType DEF WriterInv, WriterTypeOK
  <2>2. st' \in [Caller -> Returned \cup Pending]
    BY DEF WriterInv, WriterTypeOK, Returned, Pending
  <2>3. arg' \in [Caller -> Seq(Fingerprint)]
    BY <2>1, EmptyType DEF WriterInv, WriterTypeOK
  <2> QED
    BY <2>2, <2>3 DEF WriterInv, WriterTypeOK
<1> QED
  BY <1>1, <1>2, <1>3, CallerInv

LEMMA ReplaceInv ==
    ASSUME WriterInv, NEW c \in Caller, NEW k \in Key, NEW chunks \in ChunkLists, CallReplace(c, k, chunks)
    PROVE  WriterInv'
<1> USE DEF CallReplace, Free
<1>1. st[c] \notin {"wait", "evict"} /\ st'[c] = "send" /\ key'[c] = k
  BY DEF WriterInv, WriterTypeOK, Returned
<1>2. Others(c)
  BY DEF WriterInv, WriterTypeOK, Others
<1>3. WriterTypeOK'
  <2>1. st' \in [Caller -> Returned \cup Pending] /\ key' \in [Caller -> Key]
    BY DEF WriterInv, WriterTypeOK, Pending
  <2>2. arg' \in [Caller -> Seq(Fingerprint)]
    BY ListsAssumption DEF WriterInv, WriterTypeOK
  <2> QED
    BY <2>1, <2>2 DEF WriterInv, WriterTypeOK
<1> QED
  BY <1>1, <1>2, <1>3, CallerInv

LEMMA SendInv ==
    ASSUME WriterInv, NEW c \in Caller, SendJob(c) \/ SendFails(c)
    PROVE  WriterInv'
<1> USE DEF SendJob, SendFails
<1>1. /\ st[c] = "send" /\ key' = key
      /\ \/ st'[c] = "err" /\ queue' = queue
         \/ st'[c] = "wait" /\ queue' = Append(queue, c)
  BY DEF WriterInv, WriterTypeOK
<1>2. Others(c)
  BY DEF WriterInv, WriterTypeOK, Others
<1>3. WriterTypeOK'
  <2>1. st' \in [Caller -> Returned \cup Pending]
    BY DEF WriterInv, WriterTypeOK, Returned, Pending
  <2>2. arg' \in [Caller -> Seq(Fingerprint)]
    BY EmptyType DEF WriterInv, WriterTypeOK
  <2>3. queue \in Seq(Caller)
    BY DEF WriterInv, WriterTypeOK
  <2>4. queue' \in Seq(Caller)
    BY <1>1, <2>3
  <2> QED
    BY <2>1, <2>2, <2>4 DEF WriterInv, WriterTypeOK
<1> QED
  BY <1>1, <1>2, <1>3, CallerInv

LEMMA DeleteFailsInv ==
    ASSUME WriterInv, NEW c \in Caller, NEW k \in Key, DeleteFails(c, k)
    PROVE  WriterInv'
<1> USE DEF DeleteFails, Free
<1>1. st[c] \notin {"wait", "evict"} /\ st'[c] = "err"
  BY DEF WriterInv, WriterTypeOK, Returned
<1>2. Others(c)
  BY DEF WriterInv, WriterTypeOK, Others
<1>3. WriterTypeOK'
  <2>1. st' \in [Caller -> Returned \cup Pending] /\ key' \in [Caller -> Key]
    BY DEF WriterInv, WriterTypeOK, Returned
  <2>2. arg' \in [Caller -> Seq(Fingerprint)]
    BY EmptyType DEF WriterInv, WriterTypeOK
  <2> QED
    BY <2>1, <2>2 DEF WriterInv, WriterTypeOK
<1> QED
  BY <1>1, <1>2, <1>3, CallerInv

LEMMA FillInv == ASSUME WriterInv, NEW c \in Caller, FillCache(c) PROVE WriterInv'
<1> USE DEF FillCache, CacheInsert
<1>1. st[c] = "fill" /\ st'[c] = "got" /\ key' = key
  BY DEF WriterInv, WriterTypeOK
<1>2. Others(c)
  BY DEF WriterInv, WriterTypeOK, Others
<1>3. WriterTypeOK'
  <2>1. st' \in [Caller -> Returned \cup Pending]
    BY DEF WriterInv, WriterTypeOK, Returned
  <2>2. DOMAIN cache' \subseteq Key /\ \A k \in DOMAIN cache' : cache'[k] \in Seq(Fingerprint)
    BY DEF WriterInv, WriterTypeOK
  <2> QED
    BY <2>1, <2>2 DEF WriterInv, WriterTypeOK
<1> QED
  BY <1>1, <1>2, <1>3, CallerInv

LEMMA EvictInv == ASSUME WriterInv, NEW c \in Caller, EvictResource(c) PROVE WriterInv'
<1> USE DEF EvictResource, CacheKeep
<1>1. /\ st[c] = "evict" /\ st'[c] = "ok" /\ key' = key
      /\ UNCHANGED <<table, queue, job, up>>
  BY DEF WriterInv, WriterTypeOK
<1>2. Others(c)
  BY DEF WriterInv, WriterTypeOK, Others
<1>3. WriterTypeOK'
  <2>1. st' \in [Caller -> Returned \cup Pending] /\ arg' \in [Caller -> Seq(Fingerprint)]
    BY EmptyType DEF WriterInv, WriterTypeOK, Returned
  <2>2. DOMAIN cache' \subseteq Key /\ \A k \in DOMAIN cache' : cache'[k] \in Seq(Fingerprint)
    BY DEF WriterInv, WriterTypeOK
  <2> QED
    BY <1>1, <2>1, <2>2 DEF WriterInv, WriterTypeOK
<1> QED
  BY <1>1, <1>2, <1>3, CallerInv
----------------------------------------------------------------------------
(* The background task.                                                    *)

LEMMA ReceiveFacts ==
    ASSUME WriterInv, Receiving
    PROVE  /\ Head(queue) \in Caller /\ st[Head(queue)] = "wait"
           /\ job = NoCaller
           /\ Tail(queue) \in Seq(Caller)
           /\ \A i \in DOMAIN Tail(queue) :
                 st[Tail(queue)[i]] = "wait" /\ Tail(queue)[i] \in Caller \ {Head(queue)}
           /\ \A i, j \in DOMAIN Tail(queue) : Tail(queue)[i] = Tail(queue)[j] => i = j
<1>1. queue \in Seq(Caller) /\ queue # <<>> /\ job = NoCaller
  BY DEF WriterInv, WriterTypeOK, Receiving
<1>2. /\ 1 \in DOMAIN queue /\ Head(queue) = queue[1]
      /\ Tail(queue) \in Seq(Caller)
      /\ \A i \in DOMAIN Tail(queue) :
            i + 1 \in DOMAIN queue /\ Tail(queue)[i] = queue[i + 1] /\ i \in Nat \ {0}
  BY <1>1
<1> QED
  BY <1>1, <1>2 DEF WriterInv, JobsOK

\* The commit of a job: its file shows the job's list, every other file is left
\* as it is.
LEMMA CommitFacts ==
    ASSUME WriterInv, Commit
    PROVE  /\ job = NoCaller /\ job' \in Caller /\ job' = Head(queue)
           /\ key[job'] \in Key /\ arg[job'] \in Seq(Fingerprint)
           /\ table' \subseteq Row
           /\ UNCHANGED <<cache, up, st, key, arg>>
           /\ FileRows(table', key[job']) = Batch(key[job'], arg[job'])
           /\ FetchFingerprints(table', key[job']) = arg[job']
           /\ \A k \in Key \ {key[job']} :
                 /\ FileRows(table', k) = FileRows(table, k)
                 /\ FetchFingerprints(table', k) = FetchFingerprints(table, k)
<1> DEFINE c == Head(queue)
<1>1. /\ c \in Caller /\ job = NoCaller /\ job' = c
      /\ table' = ReplaceFileChunks(table, key[c], arg[c])
      /\ UNCHANGED <<cache, up, st, key, arg>>
  BY ReceiveFacts DEF Commit
<1>2. key[c] \in Key /\ arg[c] \in Seq(Fingerprint) /\ table \in SUBSET Row
  BY <1>1 DEF WriterInv, WriterTypeOK
<1> HIDE DEF c
<1>3. table' \subseteq Row
  BY <1>1, <1>2, ReplaceType
<1>4. FileRows(table', key[c]) = Batch(key[c], arg[c])
  BY <1>1, ReplaceShows
<1>5. FetchFingerprints(table', key[c]) = arg[c]
  BY <1>2, <1>4, FetchBatch
<1>6. \A k \in Key \ {key[c]} : /\ FileRows(table', k) = FileRows(table, k)
                                /\ FetchFingerprints(table', k) = FetchFingerprints(table, k)
  <2>1. \A k \in Key \ {key[c]} : FileRows(table', k) = FileRows(table, k)
    BY <1>1, ReplaceKeepsOthers
  <2>2. ASSUME NEW k \in Key, FileRows(table', k) = FileRows(table, k)
        PROVE  FetchFingerprints(table', k) = FetchFingerprints(table, k)
    BY <2>2 DEF FetchFingerprints
  <2> QED
    BY <2>1, <2>2
<1> QED
  BY <1>1, <1>2, <1>3, <1>4, <1>5, <1>6 DEF c

LEMMA CommitInv == ASSUME WriterInv, Commit PROVE WriterInv'
<1>1. /\ Tail(queue) \in Seq(Caller) /\ queue' = Tail(queue)
      /\ st[Head(queue)] = "wait"
      /\ \A i \in DOMAIN Tail(queue) : st[Tail(queue)[i]] = "wait" /\ Tail(queue)[i] # Head(queue)
      /\ \A i, j \in DOMAIN Tail(queue) : Tail(queue)[i] = Tail(queue)[j] => i = j
  BY ReceiveFacts DEF Commit
<1>2. WriterTypeOK'
  BY <1>1, CommitFacts DEF WriterInv, WriterTypeOK
<1>3. TableShowsLists'
  BY CommitFacts DEF WriterInv, TableShowsLists
<1>4. JobsOK'
  BY <1>1, CommitFacts DEF JobsOK
<1> QED
  BY <1>2, <1>3, <1>4 DEF WriterInv

\* An answer to one waiting caller, the table being left alone.
LEMMA AnswerInv ==
    ASSUME WriterInv, NEW c \in Caller, Others(c),
           table' = table, WriterTypeOK', job' = NoCaller,
           \A i \in DOMAIN queue' :
              st[queue'[i]] = "wait" /\ queue'[i] \in Caller \ {c},
           \A i, j \in DOMAIN queue' : queue'[i] = queue'[j] => i = j
    PROVE  WriterInv'
<1>1. TableShowsLists'
  BY DEF WriterInv, TableShowsLists
<1>2. JobsOK'
  BY WriterAssumption DEF WriterInv, Others, JobsOK
<1> QED
  BY <1>1, <1>2 DEF WriterInv

LEMMA CommitFailsInv == ASSUME WriterInv, CommitFails PROVE WriterInv'
<1> DEFINE c == Head(queue)
<1>1. /\ c \in Caller /\ job = NoCaller
      /\ Tail(queue) \in Seq(Caller)
      /\ \A i \in DOMAIN Tail(queue) :
            st[Tail(queue)[i]] = "wait" /\ Tail(queue)[i] \in Caller \ {c}
      /\ \A i, j \in DOMAIN Tail(queue) : Tail(queue)[i] = Tail(queue)[j] => i = j
  BY ReceiveFacts DEF CommitFails
<1>2. /\ queue' = Tail(queue) /\ UNCHANGED <<table, cache, job, up, key>>
      /\ st' = [st EXCEPT ![c] = "err"] /\ arg' = [arg EXCEPT ![c] = <<>>]
  BY DEF CommitFails
<1> HIDE DEF c
<1>3. Others(c)
  BY <1>1, <1>2 DEF WriterInv, WriterTypeOK, Others
<1>4. WriterTypeOK'
  <2>1. st' \in [Caller -> Returned \cup Pending] /\ arg' \in [Caller -> Seq(Fingerprint)]
    BY <1>2, EmptyType DEF WriterInv, WriterTypeOK, Returned
  <2> QED
    BY <1>1, <1>2, <2>1 DEF WriterInv, WriterTypeOK
<1> QED
  BY <1>1, <1>2, <1>3, <1>4, AnswerInv

\* Publishing changes the cache entry of the job's file only.
LEMMA PublishFacts ==
    ASSUME WriterInv, Publish
    PROVE  /\ job \in Caller /\ st[job] = "wait" /\ job' = NoCaller
           /\ key[job] \in Key /\ arg[job] \in Seq(Fingerprint)
           /\ UNCHANGED <<table, queue, up, key>>
           /\ st' = [st EXCEPT ![job] = "ok"] /\ arg' = [arg EXCEPT ![job] = <<>>]
           /\ key[job] \in DOMAIN cache' => cache'[key[job]] = arg[job]
           /\ \A k \in Key \ {key[job]} :
                 /\ k \in DOMAIN cache <=> k \in DOMAIN cache'
                 /\ k \in DOMAIN cache => cache'[k] = cache[k]
           /\ DOMAIN cache' \subseteq Key
<1>1. /\ job \in Caller /\ st[job] = "wait" /\ job' = NoCaller
      /\ key[job] \in Key /\ arg[job] \in Seq(Fingerprint) /\ DOMAIN cache \subseteq Key
  BY DEF Publish, WriterInv, WriterTypeOK, JobsOK
<1>2. /\ UNCHANGED <<table, queue, up, key>>
      /\ st' = [st EXCEPT ![job] = "ok"] /\ arg' = [arg EXCEPT ![job] = <<>>]
  BY DEF Publish
<1>3. /\ key[job] \in DOMAIN cache' => cache'[key[job]] = arg[job]
      /\ \A k \in Key \ {key[job]} :
            /\ k \in DOMAIN cache <=> k \in DOMAIN cache'
            /\ k \in DOMAIN cache => cache'[k] = cache[k]
      /\ DOMAIN cache' \subseteq Key
  <2>1. CASE arg[job] = <<>>
    BY <1>1, <2>1 DEF Publish, CacheKeep
  <2>2. CASE arg[job] # <<>>
    BY <1>1, <2>2 DEF Publish, CacheInsert
  <2> QED
    BY <2>1, <2>2
<1> QED
  BY <1>1, <1>2, <1>3

LEMMA PublishInv == ASSUME WriterInv, Publish PROVE WriterInv'
<1>1. Others(job)
  BY PublishFacts DEF WriterInv, WriterTypeOK, Others
<1>2. WriterTypeOK'
  <2>1. st' \in [Caller -> Returned \cup Pending] /\ arg' \in [Caller -> Seq(Fingerprint)]
    BY PublishFacts, EmptyType DEF WriterInv, WriterTypeOK, Returned
  <2>2. \A k \in DOMAIN cache' : cache'[k] \in Seq(Fingerprint)
    BY PublishFacts DEF WriterInv, WriterTypeOK
  <2> QED
    BY <2>1, <2>2, PublishFacts DEF WriterInv, WriterTypeOK
<1>3. \A i \in DOMAIN queue : st[queue[i]] = "wait" /\ queue[i] \in Caller \ {job}
  BY DEF WriterInv, WriterTypeOK, JobsOK
<1> QED
  BY <1>1, <1>2, <1>3, PublishFacts, AnswerInv DEF WriterInv, JobsOK

LEMMA PanicInv == ASSUME WriterInv, Panic PROVE WriterInv'
<1>1. job = NoCaller /\ queue' = <<>> /\ UNCHANGED <<table, cache, job, key>>
  BY DEF Panic, Receiving
<1>2. WriterTypeOK'
  <2>1. st' \in [Caller -> Returned \cup Pending] /\ arg' \in [Caller -> Seq(Fingerprint)]
    BY EmptyType DEF Panic, WriterInv, WriterTypeOK, Returned
  <2>2. <<>> \in Seq(Caller)
    OBVIOUS
  <2> QED
    BY <1>1, <2>1, <2>2 DEF Panic, WriterInv, WriterTypeOK
<1>3. TableShowsLists'
  BY <1>1 DEF WriterInv, TableShowsLists
<1>4. JobsOK'
  BY <1>1 DEF JobsOK
<1> QED
  BY <1>2, <1>3, <1>4 DEF WriterInv
----------------------------------------------------------------------------
(* Deletion of a resource.                                                 *)

\* The rows of the resource go, every other resource's stay.
LEMMA DeleteFacts ==
    ASSUME WriterInv, NEW c \in Caller, NEW k \in Key, DeleteRows(c, k)
    PROVE  /\ st[c] \in Returned /\ st'[c] = "evict" /\ key'[c] = k /\ arg'[c] = <<>>
           /\ Others(c) /\ UNCHANGED <<cache, queue, job, up>>
           /\ \A l \in Key : Owner[l] # Owner[k] =>
                 /\ FileRows(table', l) = FileRows(table, l)
                 /\ FetchFingerprints(table', l) = FetchFingerprints(table, l)
           /\ \A l \in Key : Owner[l] = Owner[k] =>
                 FileRows(table', l) = Batch(l, <<>>) /\ FetchFingerprints(table', l) = <<>>
<1> USE DEF DeleteRows
<1>1. /\ table' = {row \in table : Owner[row.key] # Owner[k]}
      /\ st[c] \in Returned /\ st'[c] = "evict" /\ key'[c] = k /\ arg'[c] = <<>>
  BY DEF DeleteResource, WriterInv, WriterTypeOK, Free
<1>2. Others(c) /\ UNCHANGED <<cache, queue, job, up>>
  BY DEF WriterInv, WriterTypeOK, Others
<1>3. ASSUME NEW l \in Key, Owner[l] # Owner[k]
      PROVE  /\ FileRows(table', l) = FileRows(table, l)
             /\ FetchFingerprints(table', l) = FetchFingerprints(table, l)
  <2>1. FileRows(table', l) = FileRows(table, l)
    BY <1>1, <1>3 DEF FileRows
  <2> QED
    BY <2>1 DEF FetchFingerprints
<1>4. ASSUME NEW l \in Key, Owner[l] = Owner[k]
      PROVE  FileRows(table', l) = Batch(l, <<>>) /\ FetchFingerprints(table', l) = <<>>
  <2>1. FileRows(table', l) = {}
    BY <1>1, <1>4 DEF FileRows
  <2>2. FileRows(table', l) = Batch(l, <<>>)
    BY <2>1 DEF Batch
  <2> QED
    BY <2>2, FetchBatch, EmptyType
<1> QED
  BY <1>1, <1>2, <1>3, <1>4

LEMMA DeleteInv ==
    ASSUME WriterInv, NEW c \in Caller, NEW k \in Key, DeleteRows(c, k)
    PROVE  WriterInv'
<1>1. WriterTypeOK'
  <2>1. st' \in [Caller -> Returned \cup Pending] /\ key' \in [Caller -> Key]
    BY DEF DeleteRows, WriterInv, WriterTypeOK, Pending
  <2>2. arg' \in [Caller -> Seq(Fingerprint)]
    BY EmptyType DEF DeleteRows, WriterInv, WriterTypeOK
  <2>3. table' \subseteq Row
    BY DEF DeleteRows, DeleteResource, WriterInv, WriterTypeOK
  <2> QED
    BY <2>1, <2>2, <2>3, DeleteFacts DEF WriterInv, WriterTypeOK
<1>2. TableShowsLists'
  BY DeleteFacts, EmptyType DEF WriterInv, TableShowsLists
<1>3. JobsOK'
  <2>1. job # c /\ \A i \in DOMAIN queue : queue[i] \in Caller \ {c}
    <3>1. st[c] # "wait"
      BY DeleteFacts DEF Returned
    <3> QED
      BY <3>1, WriterAssumption DEF WriterInv, WriterTypeOK, JobsOK
  <2> QED
    BY <2>1, DeleteFacts DEF WriterInv, WriterTypeOK, JobsOK, Others
<1> QED
  BY <1>1, <1>2, <1>3 DEF WriterInv
----------------------------------------------------------------------------
(* The theorems.                                                           *)

LEMMA WriterInitInv == EmptyInit => WriterInv
<1> SUFFICES ASSUME EmptyInit PROVE WriterInv
  OBVIOUS
<1> USE DEF EmptyInit, WriterInit
<1>1. WriterTypeOK
  <2>1. <<>> \in Seq(Caller) /\ <<>> \in Seq(Fingerprint)
    OBVIOUS
  <2> QED
    BY <2>1 DEF WriterTypeOK, Returned
<1>2. TableShowsLists
  <2>1. ASSUME NEW k \in Key
        PROVE  FileRows(table, k) = Batch(k, <<>>)
    BY DEF FileRows, Batch
  <2> QED
    BY <2>1, FetchBatch, EmptyType DEF TableShowsLists
<1>3. JobsOK
  BY DEF JobsOK
<1> QED
  BY <1>1, <1>2, <1>3 DEF WriterInv

LEMMA WriterNextInv == WriterInv /\ [WriterNext]_writerVars => WriterInv'
<1> SUFFICES ASSUME WriterInv, [WriterNext]_writerVars PROVE WriterInv'
  OBVIOUS
<1>1. ASSUME NEW c \in Caller, NEW k \in Key, Call(c, k)
      PROVE  WriterInv'
  BY <1>1, GetInv, ReplaceInv, DeleteInv, DeleteFailsInv DEF Call
<1>2. ASSUME NEW c \in Caller, Continue(c)
      PROVE  WriterInv'
  BY <1>2, FetchInv, FillInv, SendInv, EvictInv DEF Continue
<1>3. CASE WriterTask
  BY <1>3, CommitInv, CommitFailsInv, PanicInv, PublishInv DEF WriterTask
<1>4. CASE UNCHANGED writerVars
  BY <1>4 DEF writerVars, WriterInv, WriterTypeOK, TableShowsLists, JobsOK
<1> QED
  BY <1>1, <1>2, <1>3, <1>4 DEF WriterNext

\* The inductive invariant holds in every state of every behaviour.
THEOREM WriterInvariance == WriterSpec => []WriterInv
  BY WriterInitInv, WriterNextInv, PTL DEF WriterSpec

\* Every variable of the writer keeps its type; in particular a read of the
\* table (db.rs:463-490) always yields a gapless list.
THEOREM WriterTypeCorrect == WriterSpec => []WriterTypeOK
<1>1. WriterInv => WriterTypeOK
  BY DEF WriterInv
<1> QED
  BY <1>1, WriterInvariance, PTL

\* No chunk_key occurs twice and no file has a gap in its chunk numbers,
\* whatever sequence of replacements, failures and deletions (db.rs:420-441).
THEOREM TableCorrect == WriterSpec => []TableWellFormed
<1>1. ASSUME WriterInv
      PROVE  TableWellFormed
  <2>1. ASSUME NEW row \in table
        PROVE  /\ row.key \in Key
               /\ row \in Batch(row.key, FetchFingerprints(table, row.key))
               /\ FetchFingerprints(table, row.key) \in Seq(Fingerprint)
    <3>1. row.key \in Key /\ row \in FileRows(table, row.key)
      BY <1>1 DEF WriterInv, WriterTypeOK, Row, FileRows
    <3> QED
      BY <1>1, <3>1 DEF WriterInv, TableShowsLists
  <2>2. UniqueKeys(table)
    BY <2>1 DEF UniqueKeys, Batch, ChunkKey
  <2>3. ASSUME NEW row \in table, NEW i \in 1 .. row.index
        PROVE  \E other \in FileRows(table, row.key) : other.index = i
    <3> DEFINE chunks == FetchFingerprints(table, row.key)
    <3>1. FileRows(table, row.key) = Batch(row.key, chunks)
      BY <1>1, <2>1 DEF WriterInv, TableShowsLists
    <3>2. row.index \in DOMAIN chunks /\ DOMAIN chunks = 1 .. Len(chunks) /\ Len(chunks) \in Nat
      BY <2>1 DEF Batch
    <3>3. i \in DOMAIN chunks
      BY <3>2
    <3>4. [key |-> row.key, index |-> i, fp |-> chunks[i]] \in Batch(row.key, chunks)
      BY <3>3 DEF Batch
    <3> QED
      BY <3>1, <3>4
  <2> QED
    BY <2>2, <2>3 DEF TableWellFormed
<1> QED
  BY <1>1, WriterInvariance, PTL

\* The step leaves alone the rows and the cache entry of every file but k.
OthersUntouched(k) == \A l \in Key \ {k} : Untouched(l)

\* Every step is a step of a deletion, or leaves alone every file but one.
LEMMA StepTouches ==
    ASSUME WriterInv, WriterNext
    PROVE  \E k \in Key : \A l \in Key \ {k} : Untouched(l) \/ Deletes(l)
<1>1. /\ key \in [Caller -> Key] /\ st \in [Caller -> Returned \cup Pending]
      /\ DOMAIN cache \subseteq Key
  BY DEF WriterInv, WriterTypeOK
<1>2. ASSUME NEW k \in Key, OthersUntouched(k)
      PROVE  \E l \in Key : \A m \in Key \ {l} : Untouched(m) \/ Deletes(m)
  BY <1>2 DEF OthersUntouched
<1>3. ASSUME NEW k \in Key, UNCHANGED <<table, cache>>
      PROVE  OthersUntouched(k)
  BY <1>3 DEF OthersUntouched, Untouched
<1>4. ASSUME NEW c \in Caller, NEW k \in Key, Call(c, k)
      PROVE  \E l \in Key : \A m \in Key \ {l} : Untouched(m) \/ Deletes(m)
  <2>1. CASE DeleteRows(c, k)
    <3>1. ASSUME NEW l \in Key, Owner[l] # Owner[k]
          PROVE  Untouched(l)
      BY <2>1, <3>1, DeleteFacts DEF Untouched
    <3>2. ASSUME NEW l \in Key, Owner[l] = Owner[k]
          PROVE  Deletes(l)
      BY <2>1, <3>2, DeleteFacts DEF Deletes, Returned
    <3> QED
      BY <3>1, <3>2
  <2>2. CASE GetFingerprints(c, k) \/ DeleteFails(c, k)
    BY <1>2, <1>3, <2>2 DEF GetFingerprints, CacheHit, CacheMiss, DeleteFails
  <2>3. CASE \E chunks \in ChunkLists : CallReplace(c, k, chunks)
    BY <1>2, <1>3, <2>3 DEF CallReplace
  <2> QED
    BY <1>4, <2>1, <2>2, <2>3 DEF Call
<1>5. ASSUME NEW c \in Caller, Continue(c)
      PROVE  \E l \in Key : \A m \in Key \ {l} : Untouched(m) \/ Deletes(m)
  <2>1. key[c] \in Key
    BY <1>1
  <2>2. CASE FillCache(c)
    <3>1. OthersUntouched(key[c])
      BY <1>1, <2>2 DEF FillCache, CacheInsert, OthersUntouched, Untouched
    <3> QED
      BY <1>2, <2>1, <3>1
  <2>3. CASE EvictResource(c)
    <3>1. st[c] = "evict" /\ st'[c] = "ok" /\ key' = key
      BY <1>1, <2>3 DEF EvictResource
    <3>2. ASSUME NEW l \in Key, Owner[l] # Owner[key[c]]
          PROVE  Untouched(l)
      BY <2>3, <3>2 DEF EvictResource, CacheKeep, Untouched
    <3>3. ASSUME NEW l \in Key, Owner[l] = Owner[key[c]]
          PROVE  Deletes(l)
      BY <3>1, <3>3 DEF Deletes
    <3> QED
      BY <2>1, <3>2, <3>3
  <2>4. CASE FetchRows(c) \/ FetchFails(c) \/ SendJob(c) \/ SendFails(c)
    BY <1>2, <1>3, <2>1, <2>4 DEF FetchRows, FetchFails, SendJob, SendFails
  <2> QED
    BY <1>5, <2>2, <2>3, <2>4 DEF Continue
<1>6. CASE Commit
  <2>1. OthersUntouched(key[job']) /\ key[job'] \in Key
    BY <1>6, CommitFacts DEF OthersUntouched, Untouched
  <2> QED
    BY <1>2, <2>1
<1>7. CASE Publish
  <2>1. OthersUntouched(key[job]) /\ key[job] \in Key
    BY <1>7, PublishFacts DEF OthersUntouched, Untouched
  <2> QED
    BY <1>2, <2>1
<1>8. CASE CommitFails \/ Panic
  <2>1. key[Head(queue)] \in Key
    BY <1>1, <1>8, ReceiveFacts DEF CommitFails, Panic
  <2> QED
    BY <1>2, <1>3, <1>8, <2>1 DEF CommitFails, Panic
<1> QED
  BY <1>4, <1>5, <1>6, <1>7, <1>8 DEF WriterNext, WriterTask

\* Replacing, pruning or caching one file leaves the rows and the cache entry of
\* every other file alone, a deletion those of every other resource
\* (db.rs:425-435, resource.rs:143-162), with any calls in progress.
THEOREM OneFileAtATime == WriterSpec => CommitTouchesOneFile
<1>1. WriterInv /\ [WriterNext]_writerVars =>
        [\E k \in Key : \A l \in Key \ {k} : Untouched(l) \/ Deletes(l)]_writerVars
  BY StepTouches
<1> QED
  BY <1>1, WriterInvariance, PTL DEF WriterSpec, CommitTouchesOneFile
----------------------------------------------------------------------------
(* What spoils the cache.                                                  *)

\* A fill or a publication of what is no longer the table's.
Spoils(k) ==
    \E c \in Caller : /\ key[c] = k /\ Overtaken(c)
                      /\ FillCache(c) \/ (c = job /\ Publish)

\* A step that leaves the file's entry, its rows and its being unsettled alone.
LEMMA SettledStays ==
    ASSUME NEW k \in Key, Agrees(k), Unsettled(k) => Unsettled(k)',
           k \in DOMAIN cache' => k \in DOMAIN cache /\ cache'[k] = cache[k],
           Unsettled(k)' \/ FetchFingerprints(table', k) = FetchFingerprints(table, k)
    PROVE  Agrees(k)'
  BY DEF Agrees

\* A caller that was not evicting leaves the unsettled files unsettled.
LEMMA UnsettledStays ==
    ASSUME WriterInv, NEW c \in Caller, Others(c), st[c] # "evict", NEW k \in Key,
           job' = job, key' = key \/ c # job, Unsettled(k)
    PROVE  Unsettled(k)'
<1>1. CASE job # NoCaller /\ key[job] = k
  <2>1. job \in Caller
    BY <1>1 DEF WriterInv, WriterTypeOK
  <2>2. key'[job] = k
    BY <1>1, <2>1 DEF Others
  <2> QED
    BY <1>1, <2>2 DEF Unsettled
<1>2. CASE \E d \in Caller : st[d] = "evict" /\ Owner[key[d]] = Owner[k]
  BY <1>2 DEF Others, Unsettled
<1> QED
  BY <1>1, <1>2 DEF Unsettled

\* A call that returned is not the job's: its sender waits.
LEMMA FreeIsNotJob ==
    ASSUME WriterInv, NEW c \in Caller, Free(c)
    PROVE  c # job /\ st[c] # "evict"
  BY WriterAssumption DEF WriterInv, WriterTypeOK, JobsOK, Free, Returned

LEMMA CallSpoilsNothing ==
    ASSUME WriterInv, NEW c \in Caller, NEW k \in Key, Call(c, k),
           NEW l \in Key, Agrees(l)
    PROVE  Agrees(l)'
<1>1. c # job /\ st[c] # "evict" /\ job' = job /\ cache' = cache
  BY FreeIsNotJob DEF Call, GetFingerprints, CacheHit, CacheMiss, CallReplace, DeleteRows, DeleteFails
<1>2. Others(c)
  BY DEF Call, GetFingerprints, CacheHit, CacheMiss, CallReplace, DeleteRows, DeleteFails,
     WriterInv, WriterTypeOK, Others
<1>3. Unsettled(l) => Unsettled(l)'
  BY <1>1, <1>2, UnsettledStays
<1>4. Unsettled(l)' \/ FetchFingerprints(table', l) = FetchFingerprints(table, l)
  <2>1. CASE DeleteRows(c, k)
    <3>1. CASE Owner[l] = Owner[k]
      BY <2>1, <3>1, DeleteFacts DEF Unsettled
    <3>2. CASE Owner[l] # Owner[k]
      BY <2>1, <3>2, DeleteFacts
    <3> QED
      BY <3>1, <3>2
  <2>2. CASE ~DeleteRows(c, k)
    <3>1. table' = table
      BY <2>2 DEF Call, GetFingerprints, CacheHit, CacheMiss, CallReplace, DeleteFails
    <3> QED
      BY <3>1
  <2> QED
    BY <2>1, <2>2
<1> QED
  BY <1>1, <1>3, <1>4, SettledStays

LEMMA ContinueSpoils ==
    ASSUME WriterInv, NEW c \in Caller, Continue(c), NEW l \in Key, Agrees(l), ~Spoils(l)
    PROVE  Agrees(l)'
<1>1. job' = job /\ table' = table /\ key' = key
  BY DEF Continue, FetchRows, FetchFails, FillCache, SendJob, SendFails, EvictResource
<1>2. Others(c)
  BY DEF Continue, FetchRows, FetchFails, FillCache, SendJob, SendFails, EvictResource,
     WriterInv, WriterTypeOK, Others
<1>3. CASE FillCache(c)
  <2>1. st[c] # "evict"
    BY <1>3 DEF FillCache
  <2>2. Unsettled(l) => Unsettled(l)'
    BY <1>1, <1>2, <2>1, UnsettledStays
  <2>3. CASE key[c] # l
    <3>1. l \in DOMAIN cache' => l \in DOMAIN cache /\ cache'[l] = cache[l]
      BY <1>3, <2>3 DEF FillCache, CacheInsert
    <3> QED
      BY <1>1, <2>2, <3>1, SettledStays
  <2>4. CASE key[c] = l
    <3>1. arg[c] = FetchFingerprints(table, l)
      BY <1>3, <2>4 DEF Spoils, Overtaken
    <3>2. cache'[l] = arg[c]
      BY <1>3, <2>4 DEF FillCache, CacheInsert
    <3> QED
      BY <1>1, <3>1, <3>2 DEF Agrees
  <2> QED
    BY <2>3, <2>4
<1>4. CASE EvictResource(c)
  <2>1. \A k \in DOMAIN cache' : /\ k \in DOMAIN cache /\ cache'[k] = cache[k]
                                /\ Owner[k] # Owner[key[c]]
    BY <1>4 DEF EvictResource, CacheKeep
  <2>2. ASSUME l \in DOMAIN cache', Unsettled(l)
        PROVE  Unsettled(l)'
    <3>1. Owner[l] # Owner[key[c]]
      BY <2>1, <2>2
    <3> QED
      BY <1>1, <1>2, <2>2, <3>1 DEF Unsettled, Others
  <2> QED
    BY <1>1, <2>1, <2>2 DEF Agrees
<1>5. CASE FetchRows(c) \/ FetchFails(c) \/ SendJob(c) \/ SendFails(c)
  <2>1. st[c] # "evict" /\ cache' = cache
    BY <1>5 DEF FetchRows, FetchFails, SendJob, SendFails
  <2>2. Unsettled(l) => Unsettled(l)'
    BY <1>1, <1>2, <2>1, UnsettledStays
  <2> QED
    BY <1>1, <2>1, <2>2, SettledStays
<1> QED
  BY <1>3, <1>4, <1>5 DEF Continue

LEMMA TaskSpoils ==
    ASSUME WriterInv, WriterTask, NEW l \in Key, Agrees(l), ~Spoils(l)
    PROVE  Agrees(l)'
<1>1. CASE Commit
  <2>1. Unsettled(l) => Unsettled(l)'
    BY <1>1, CommitFacts DEF Unsettled
  <2>2. Unsettled(l)' \/ FetchFingerprints(table', l) = FetchFingerprints(table, l)
    <3>1. CASE l = key[job']
      BY <1>1, <3>1, CommitFacts, WriterAssumption DEF Unsettled
    <3>2. CASE l # key[job']
      BY <1>1, <3>2, CommitFacts
    <3> QED
      BY <3>1, <3>2
  <2> QED
    BY <1>1, <2>1, <2>2, CommitFacts, SettledStays
<1>2. CASE Publish
  <2>1. CASE l = key[job]
    <3>1. arg[job] = FetchFingerprints(table, l)
      BY <1>2, <2>1, PublishFacts DEF Spoils, Overtaken
    <3> QED
      BY <1>2, <2>1, <3>1, PublishFacts DEF Agrees
  <2>2. CASE l # key[job]
    <3>1. ASSUME NEW d \in Caller, st[d] = "evict"
          PROVE  st'[d] = "evict"
      BY <1>2, <3>1, PublishFacts DEF WriterInv, WriterTypeOK
    <3>2. Unsettled(l) => Unsettled(l)'
      BY <1>2, <2>2, <3>1, PublishFacts DEF Unsettled
    <3> QED
      BY <1>2, <2>2, <3>2, PublishFacts, SettledStays
  <2> QED
    BY <2>1, <2>2
<1>3. CASE CommitFails \/ Panic
  <2>1. UNCHANGED <<table, cache, job, key>>
    BY <1>3 DEF CommitFails, Panic
  <2>2. ASSUME NEW d \in Caller, st[d] = "evict"
        PROVE  st'[d] = "evict"
    BY <1>3, <2>2, ReceiveFacts DEF CommitFails, Panic, WriterInv, WriterTypeOK
  <2>3. Unsettled(l) => Unsettled(l)'
    BY <2>1, <2>2 DEF Unsettled
  <2> QED
    BY <2>1, <2>3, SettledStays
<1> QED
  BY <1>1, <1>2, <1>3 DEF WriterTask

\* The cache is led astray by overtaken fills and publications alone
\* (resource.rs:130-136 and 95-105), with any callers on any files: every other
\* step leaves an entry that agrees with the table, or is about to, in agreement.
THEOREM CacheSpoiledByOvertaken == WriterSpec => OnlyOvertakenSpoil
<1>1. WriterInv /\ [WriterNext]_writerVars =>
        [\A k \in Key : Agrees(k) /\ ~Agrees(k)' => Spoils(k)]_writerVars
  <2> SUFFICES ASSUME WriterInv, WriterNext, NEW k \in Key, Agrees(k), ~Spoils(k)
               PROVE  Agrees(k)'
    OBVIOUS
  <2> QED
    BY CallSpoilsNothing, ContinueSpoils, TaskSpoils DEF WriterNext
<1> QED
  BY <1>1, WriterInvariance, PTL DEF WriterSpec, OnlyOvertakenSpoil, Spoils
============================================================================
