---------------------------- MODULE QueryHandler ----------------------------
(***************************************************************************)
(* POST /query (query, src/src/server.rs) with its two requests to the     *)
(* model (src/src/openai_client.rs) and its vector search (src/src/db.rs), *)
(* as a reader of the table IndexPipeline writes.  One action per await.   *)
(*                                                                         *)
(* Which rows are nearest to a question is left open; how many are found   *)
(* is not.  A search reads one version of the table.                       *)
(***************************************************************************)
EXTENDS IndexPipeline

CONSTANTS
    Client,                \* HTTP clients, with one query at a time each
    TopKs,                 \* values of top_k a query may carry
    DefaultTopK, MaxTopK,  \* 5 and 20 in the code
    MaxQueries             \* bound of a run

ASSUME QueryAssumption ==
    /\ TopKs \subseteq Nat
    /\ {DefaultTopK, MaxTopK} \subseteq Nat \ {0}
    /\ DefaultTopK <= MaxTopK
    /\ MaxQueries \in Nat

VARIABLES
    ask,     \* ask[q]: where the handler of the query of q stands, or its reply
    limit,   \* limit[q]: top_k, once clamped
    found,   \* found[q]: the rows its search returned
    queries

queryVars == <<ask, limit, found, queries>>

Replies == {"answer", "no_match", "not_found", "error"}

QueryInit ==
    /\ Init
    /\ ask = [q \in Client |-> "none"]
    /\ limit = [q \in Client |-> DefaultTopK]
    /\ found = [q \in Client |-> {}]
    /\ queries = 0

Step(q, from, to) == ask[q] = from /\ ask' = [ask EXCEPT ![q] = to]

\* A step of q with no fault, and one with: an error is the reply.
Smooth == UNCHANGED <<limit, queries, vars>>

Fault(q, from) ==
    /\ Step(q, from, "error")
    /\ CanFail /\ CountFault
    /\ UNCHANGED <<limit, found, queries, writerVars, diskVars, scanVars, taskVars,
                   watchVars, ctlVars>>
----------------------------------------------------------------------------
\* Mutant of Clamp: top_k is bounded from above only.
ClampAbove(k) == IF k < MaxTopK THEN k ELSE MaxTopK

Clamp(k) == IF k < 1 THEN 1 ELSE IF k > MaxTopK THEN MaxTopK ELSE k

\* A query, with or without a top_k.
Query(q) ==
    /\ queries < MaxQueries
    /\ ask[q] \in Replies \cup {"none"}
    /\ ask' = [ask EXCEPT ![q] = "find"]
    /\ \E k \in TopKs \cup {DefaultTopK} : limit' = [limit EXCEPT ![q] = Clamp(k)]
    /\ found' = [found EXCEPT ![q] = {}]
    /\ queries' = queries + 1
    /\ UNCHANGED vars

\* The name is that of the resource, whatever its status, or of none.
FindResource(q) ==
    /\ Step(q, "find", "embed") \/ Step(q, "find", "not_found")
    /\ Smooth /\ UNCHANGED found

EmbedQuestion(q) == Step(q, "embed", "search") /\ Smooth /\ UNCHANGED found

\* Mutant of WrongLength: nothing catches the panic.
WrongLengthUncaught(q) ==
    /\ Step(q, "search", "gone")
    /\ CanFail /\ CountFault
    /\ UNCHANGED <<limit, found, queries, writerVars, diskVars, scanVars, taskVars,
                   watchVars, ctlVars>>

\* The model gave a vector that is not of the table's width: the assertion of the
\* search panics, and CatchPanicLayer replies.
WrongLength(q) == Fault(q, "search")

\* Mutant of Search: the rows are read one by one.
SearchOneByOne(q) ==
    /\ ask[q] = "search"
    /\ \E row \in table \ found[q] :
        found' = [found EXCEPT ![q] = @ \cup {row}]
    /\ IF Cardinality(found[q]) + 1 < limit[q] THEN UNCHANGED ask ELSE Step(q, "search", "chat")
    /\ Smooth

\* As many rows as asked for, or as there are.
Search(q) ==
    /\ \E rows \in SUBSET table :
        /\ \/ Cardinality(rows) = limit[q]
           \/ rows = table /\ Cardinality(table) <= limit[q]
        /\ found' = [found EXCEPT ![q] = rows]
        /\ Step(q, "search", IF rows = {} THEN "no_match" ELSE "chat")
    /\ Smooth

Chat(q) == Step(q, "chat", "answer") /\ Smooth /\ UNCHANGED found

StorageFails(q) == Fault(q, "find") \/ Fault(q, "search")

\* No connection, another status than success, a body that is not the one
\* expected, no data in it.
ModelFails(q) == Fault(q, "embed") \/ Fault(q, "chat")

\* The model does not answer: the request ends after 120 s.
TimesOut(q) == Fault(q, "embed") \/ Fault(q, "chat")

\* A step of the indexing, or a crash, which takes the handlers with it.
Indexing ==
    /\ Next
    /\ ask' = IF Crash
              THEN [q \in Client |-> IF ask[q] \in Replies THEN ask[q] ELSE "none"]
              ELSE ask
    /\ UNCHANGED <<limit, found, queries>>

Handle(q) ==
    \/ FindResource(q) \/ EmbedQuestion(q) \/ Search(q) \/ Chat(q)
    \/ StorageFails(q) \/ ModelFails(q) \/ TimesOut(q) \/ WrongLength(q)

QueryNext == Indexing \/ \E q \in Client : Query(q) \/ Handle(q)

QuerySpec ==
    /\ QueryInit
    /\ [][QueryNext]_<<vars, queryVars>>
    /\ \A q \in Client : WF_<<vars, queryVars>>(Handle(q))
----------------------------------------------------------------------------
QueryTypeOK ==
    /\ ask \in [Client -> Replies \cup {"none", "find", "embed", "search", "chat"}]
    /\ limit \in [Client -> 1 .. MaxTopK]
    /\ found \in [Client -> SUBSET Row]
    /\ \A q \in Client : Cardinality(found[q]) <= limit[q]
    /\ queries \in Nat

\* README: a query is answered from the chunks of the resource.  What an answer
\* quotes of a file are chunks of one version the file really had, although
\* scan and watcher replace them while the model is asked.
AnswersQuoteRealVersions ==
    \A q \in Client, f \in File : \E v \in had[f] :
        FileRows(found[q], f) \subseteq Batch(f, Vectors(v))

\* README:214-215 promises a reply without sources "if nothing in the index is
\* relevant".  The search has no threshold of relevance: it finds nothing where
\* the index shows nothing at all at that moment, and there only, however few
\* sources the query asked for (server.rs:260, 267-272).
NoMatchIffNothingIndexed ==
    [][\A q \in Client :
        ask[q] = "search" /\ ask'[q] \in {"no_match", "chat"} =>
            (ask'[q] = "no_match" <=> table = {})]_<<vars, queryVars>>

\* openai_client.rs:58, server.rs:46-53: every query gets a reply, whatever the
\* model, the storage and the indexing do, unless the daemon dies.
EveryQueryAnswered ==
    \A q \in Client : ask[q] = "find" ~> ask[q] \in Replies \cup {"none"}
============================================================================
