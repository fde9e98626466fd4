----------------------------- MODULE MCChunker -----------------------------
(* Small instances of Chunker: every file of up to MaxRows rows of three   *)
(* lengths, with every nondecreasing list of up to MaxNodes node ends.     *)
EXTENDS Chunker, FiniteSets

CONSTANTS MaxRows, MaxNodes,
          Short, Long,  \* lengths of a line, besides that of an empty one
          PastLast      \* a node may end on the row after the last

Offset(size) ==
    [r \in 0 .. Len(size) |->
        LET Count(n) == Cardinality({i \in 1 .. r : size[i] = n})
        IN  Count(1) + Count(Short) * Short + Count(Long) * Long]

NodeEnds(n) ==
    UNION {{e \in [1 .. k -> 0 .. n] :
                /\ \A i \in 2 .. k : e[i - 1] <= e[i]
                /\ PastLast \/ \A i \in 1 .. k : e[i] < n} : k \in 0 .. MaxNodes}

FilesOf(n) ==
    {[rows |-> n, offset |-> Offset(size), code |-> code, ends |-> ends] :
        size \in [1 .. n -> {1, Short, Long}], code \in BOOLEAN, ends \in NodeEnds(n)}

MCFiles == UNION {FilesOf(n) : n \in 0 .. MaxRows}
============================================================================
