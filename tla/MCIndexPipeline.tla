-------------------------- MODULE MCIndexPipeline --------------------------
(* Small instances of IndexPipeline.                                       *)
EXTENDS IndexPipeline, TLC

CONSTANTS f1, f2, watcher, r, a, b

MCOwner == [f \in File |-> r]

\* Two versions that share a chunk, at another index.
MCVersions == {<<a>>, <<b, a>>}

\* The same and the empty file.
MCVersionsEmpty == {<<>>, <<a>>, <<b, a>>}

\* A version and the empty file.
MCVersionsTwo == {<<>>, <<b, a>>}

MCNoLists == {}

FileSymmetry == Permutations(File)
============================================================================
