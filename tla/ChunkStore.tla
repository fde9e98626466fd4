---------------------------- MODULE ChunkStore ----------------------------
(***************************************************************************)
(* The `chunks` table of src/src/db.rs, as pure operators on a set of      *)
(* rows.  A row is one embedded chunk.  A Key stands for the pair          *)
(* (resource_name, file_path), Owner[k] for its resource_name.             *)
(*                                                                         *)
(* Data abstraction.  A chunk's text is a Piece; its content_hash is taken *)
(* to be injective on the pieces of a run, so the hash IS the piece.  The  *)
(* embedding of a chunk is represented by the piece the model was given    *)
(* when it produced the vector, or by WrongDim for a vector whose length   *)
(* is not the table's embed_dim.  chunk_index counts from 1 here (from 0   *)
(* in the code), so the chunk list of a file is a sequence.                *)
(***************************************************************************)
EXTENDS Naturals, Sequences

CONSTANTS
    Key,        \* (resource_name, file_path) pairs
    Resource,   \* resource names
    Owner,      \* Owner[k]: the resource a key belongs to
    Piece,      \* texts a chunk can hold
    WrongDim    \* a vector the table's fixed-width column cannot hold

ASSUME StoreAssumption ==
    /\ Owner \in [Key -> Resource]
    /\ WrongDim \notin Piece

Fingerprint == [hash : Piece, emb : Piece \cup {WrongDim}]

Row == [key : Key, index : Nat \ {0}, fp : Fingerprint]

ChunkKey(row) == <<row.key, row.index>>

FileRows(t, k) == {row \in t : row.key = k}

\* Mutant of Batch: the first chunk is numbered 0.
BatchFromZero(k, chunks) ==
    {[key |-> k, index |-> i - 1, fp |-> chunks[i]] : i \in DOMAIN chunks}

\* The rows chunks_to_record_batch builds for the chunk list of one file.
Batch(k, chunks) ==
    {[key |-> k, index |-> i, fp |-> chunks[i]] : i \in DOMAIN chunks}

\* Mutants of MergeInsert: an append, without when_not_matched_by_source_delete,
\* and with it but without its scope filter.
MergeInsertAppends(t, k, source) == t \cup source

MergeInsertKeepsTail(t, k, source) ==
    {row \in t : \A new \in source : ChunkKey(row) # ChunkKey(new)} \cup source

MergeInsertUnscoped(t, k, source) == source

\* merge_insert on chunk_key: matched rows are updated, unmatched source rows
\* inserted, and target rows of the scope (one file) that no source row
\* matches are deleted, in one transaction.
MergeInsert(t, k, source) ==
    LET matched == {ChunkKey(row) : row \in source}
    IN  {row \in t : ChunkKey(row) \notin matched /\ row.key # k} \cup source

ReplaceFileChunks(t, k, chunks) == MergeInsert(t, k, Batch(k, chunks))

DeleteResource(t, r) == {row \in t : Owner[row.key] # r}

\* chunk_index -> (content_hash, embedding) for the rows of one file.
FetchFingerprints(t, k) ==
    [i \in {row.index : row \in FileRows(t, k)} |->
        (CHOOSE row \in FileRows(t, k) : row.index = i).fp]

\* At most one row per chunk_key.
UniqueKeys(t) == \A r, s \in t : ChunkKey(r) = ChunkKey(s) => r = s
============================================================================
