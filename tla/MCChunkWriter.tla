--------------------------- MODULE MCChunkWriter ---------------------------
(* A small instance of ChunkWriter: one file of each of two resources,     *)
(* under two concurrent callers.                                           *)
EXTENDS ChunkWriter, FiniteSets, TLC

CONSTANTS c1, c2, k1, k2, r1, r2, a, b

MCOwner == [k \in Key |-> IF k = k1 THEN r1 ELSE r2]

Good(p) == [hash |-> p, emb |-> p]

\* A removal, two versions of different lengths, and one whose vector does
\* not fit the table.
MCChunkLists ==
    {<<>>, <<Good(a)>>, <<Good(b), Good(a)>>, <<[hash |-> a, emb |-> WrongDim]>>}

============================================================================
