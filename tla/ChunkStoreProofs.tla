-------------------------- MODULE ChunkStoreProofs --------------------------
(* Facts about the chunks table, for every table and every chunk list.     *)
EXTENDS ChunkStore, TLAPS

\* After replace_file_chunks the rows of the file are those of the chunks
\* given, whatever was there before (db.rs:431-435).
LEMMA ReplaceShows ==
    ASSUME NEW t, NEW k, NEW chunks
    PROVE  FileRows(ReplaceFileChunks(t, k, chunks), k) = Batch(k, chunks)
  BY DEF FileRows, ReplaceFileChunks, MergeInsert, Batch

\* It leaves every other file's rows alone.
LEMMA ReplaceKeepsOthers ==
    ASSUME NEW t, NEW k, NEW chunks, NEW l, l # k
    PROVE  FileRows(ReplaceFileChunks(t, k, chunks), l) = FileRows(t, l)
<1>1. ASSUME NEW row \in FileRows(t, l)
      PROVE  row \in FileRows(ReplaceFileChunks(t, k, chunks), l)
  <2>1. row \in t /\ row.key = l
    BY DEF FileRows
  <2>2. ASSUME NEW other \in Batch(k, chunks)
        PROVE  ChunkKey(row) # ChunkKey(other)
    BY <2>1 DEF Batch, ChunkKey
  <2> QED
    BY <2>1, <2>2 DEF FileRows, ReplaceFileChunks, MergeInsert
<1>2. ASSUME NEW row \in FileRows(ReplaceFileChunks(t, k, chunks), l)
      PROVE  row \in FileRows(t, l)
  BY <1>2 DEF FileRows, ReplaceFileChunks, MergeInsert, Batch
<1> QED
  BY <1>1, <1>2

\* What it stores are rows, when the chunks are fingerprints.
LEMMA ReplaceType ==
    ASSUME NEW t \in SUBSET Row, NEW k \in Key, NEW chunks \in Seq(Fingerprint)
    PROVE  ReplaceFileChunks(t, k, chunks) \in SUBSET Row
<1>1. ASSUME NEW i \in DOMAIN chunks
      PROVE  [key |-> k, index |-> i, fp |-> chunks[i]] \in Row
  <2>1. i \in Nat \ {0} /\ chunks[i] \in Fingerprint
    OBVIOUS
  <2> QED
    BY <2>1 DEF Row
<1> QED
  BY <1>1 DEF ReplaceFileChunks, MergeInsert, Batch

\* Reading back the fingerprints of a file whose rows are those of a chunk
\* list gives that list (db.rs:467-490).
LEMMA FetchBatch ==
    ASSUME NEW t, NEW k, NEW chunks \in Seq(Fingerprint),
           FileRows(t, k) = Batch(k, chunks)
    PROVE  FetchFingerprints(t, k) = chunks
<1>1. {row.index : row \in Batch(k, chunks)} = DOMAIN chunks
  <2>1. ASSUME NEW i \in DOMAIN chunks
        PROVE  \E row \in Batch(k, chunks) : row.index = i
    <3>1. [key |-> k, index |-> i, fp |-> chunks[i]] \in Batch(k, chunks)
      BY DEF Batch
    <3>2. [key |-> k, index |-> i, fp |-> chunks[i]].index = i
      OBVIOUS
    <3> QED
      BY <3>1, <3>2, Zenon
  <2>2. ASSUME NEW row \in Batch(k, chunks)
        PROVE  row.index \in DOMAIN chunks
    BY DEF Batch
  <2> QED
    BY <2>1, <2>2
<1>2. ASSUME NEW i \in DOMAIN chunks
      PROVE  (CHOOSE row \in FileRows(t, k) : row.index = i).fp = chunks[i]
  <2> DEFINE r == [key |-> k, index |-> i, fp |-> chunks[i]]
  <2>1. r \in FileRows(t, k) /\ r.index = i
    BY DEF Batch
  <2>2. ASSUME NEW row \in FileRows(t, k), row.index = i
        PROVE  row.fp = chunks[i]
    BY <2>2 DEF Batch
  <2> HIDE DEF r
  <2> QED
    BY <2>1, <2>2
<1>3. chunks = [i \in DOMAIN chunks |-> chunks[i]]
  OBVIOUS
<1> QED
  BY <1>1, <1>2, <1>3 DEF FetchFingerprints
============================================================================
