--------------------------- MODULE MCQueryHandler ---------------------------
(* A small instance of QueryHandler.                                        *)
EXTENDS QueryHandler

CONSTANTS f1, watcher, r, a, b

MCOwner == [f \in File |-> r]

\* Two versions that share a chunk, one with more chunks than a query may ask for.
MCVersions == {<<a>>, <<b, a, b>>}

MCNoLists == {}
============================================================================
