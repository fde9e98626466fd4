------------------------- MODULE QueryHandlerProofs -------------------------
(***************************************************************************)
(* What an answer quotes, for every instance of the constants: a search    *)
(* reads one version of a table that shows real versions only              *)
(* (IndexPipelineProofs), and what a file has had it has had for good.     *)
(***************************************************************************)
EXTENDS QueryHandler, IndexPipelineProofs, FiniteSetTheorems

USE QueryAssumption

QInv == IInv /\ QueryTypeOK /\ AnswersQuoteRealVersions

Places == Replies \cup {"none", "find", "embed", "search", "chat"}

\* A content a file has had is not forgotten by a step of the indexing.
LEMMA HadGrows ==
    ASSUME IInv, [Next]_vars
    PROVE  \A f \in File : had[f] \subseteq had'[f]
<1>1. CASE had' = had
  BY <1>1
<1>2. ASSUME NEW f \in File, NEW v \in Versions \cup {Absent}, Edit(f, v)
      PROVE  \A g \in File : had[g] \subseteq had'[g]
  BY <1>2 DEF Edit, IInv, TypeOK
<1> QED
  BY <1>1, <1>2, StepKinds

\* The rows an answer holds stay quotable while it is being written.
LEMMA QuotesFrame ==
    ASSUME AnswersQuoteRealVersions, found' = found,
           \A f \in File : had[f] \subseteq had'[f]
    PROVE  AnswersQuoteRealVersions'
  BY DEF AnswersQuoteRealVersions

\* The handler of one query moves, with some rows of the table or none.
LEMMA HandlerStep ==
    ASSUME QInv, IInv', NEW q \in Client, NEW to \in Places,
           ask' = [ask EXCEPT ![q] = to],
           NEW rows, rows \subseteq table, found' = [found EXCEPT ![q] = rows],
           NEW k \in 1 .. MaxTopK, limit' = [limit EXCEPT ![q] = k],
           Cardinality(rows) <= k, queries' \in Nat, had' = had
    PROVE  QInv'
<1>1. table \subseteq Row
  BY DEF QInv, IInv, TypeOK, WriterTypeOK
<1>2. /\ ask \in [Client -> Places] /\ limit \in [Client -> 1 .. MaxTopK]
      /\ DOMAIN found = Client
  BY DEF QInv, QueryTypeOK, Places
<1>3. ASSUME NEW p \in Client
      PROVE  \/ p = q /\ found'[p] = rows /\ limit'[p] = k
             \/ found'[p] = found[p] /\ limit'[p] = limit[p]
  BY <1>2
<1>4. ask' \in [Client -> Places] /\ limit' \in [Client -> 1 .. MaxTopK]
  BY <1>2
<1>5. ASSUME NEW p \in Client
      PROVE  found'[p] \subseteq Row /\ Cardinality(found'[p]) <= limit'[p]
  BY <1>1, <1>3 DEF QInv, QueryTypeOK
<1>6. QueryTypeOK'
  BY <1>2, <1>4, <1>5 DEF QueryTypeOK, Places
<1>7. ASSUME NEW p \in Client, NEW f \in File
      PROVE  \E v \in had[f] : FileRows(found'[p], f) \subseteq Batch(f, Vectors(v))
  <2>1. CASE found'[p] = found[p]
    BY <2>1 DEF QInv, AnswersQuoteRealVersions
  <2>2. CASE found'[p] = rows
    <3>1. FileRows(rows, f) \subseteq FileRows(table, f)
      BY DEF FileRows
    <3> QED
      BY <2>2, <3>1 DEF QInv, IInv, IndexShowsRealVersion
  <2> QED
    BY <1>3, <2>1, <2>2
<1> QED
  BY <1>6, <1>7 DEF QInv, AnswersQuoteRealVersions

\* It moves and keeps what it holds.
LEMMA HandlerMoves ==
    ASSUME QInv, IInv', NEW q \in Client, NEW to \in Places,
           ask' = [ask EXCEPT ![q] = to], UNCHANGED <<limit, found, queries, had>>
    PROVE  QInv'
<1>1. ask' \in [Client -> Places]
  BY DEF QInv, QueryTypeOK, Places
<1>2. QueryTypeOK'
  BY <1>1 DEF QInv, QueryTypeOK, Places
<1> QED
  BY <1>2, QuotesFrame DEF QInv

LEMMA ClampBounds == \A k \in Nat : Clamp(k) \in 1 .. MaxTopK
  BY DEF Clamp

LEMMA QueryInitInv == QueryInit => QInv
<1> SUFFICES ASSUME QueryInit PROVE QInv
  OBVIOUS
<1>1. IInv
  BY InitInv DEF QueryInit
<1>2. Cardinality({}) = 0
  BY FS_EmptySet
<1>3. QueryTypeOK
  BY <1>2 DEF QueryInit, QueryTypeOK
<1>4. AnswersQuoteRealVersions
  <2>1. ASSUME NEW q \in Client, NEW f \in File
        PROVE  <<>> \in had[f] /\ FileRows(found[q], f) = {}
    BY <1>1 DEF QueryInit, IInv, HadOK, FileRows
  <2> QED
    BY <2>1 DEF AnswersQuoteRealVersions
<1> QED
  BY <1>1, <1>3, <1>4 DEF QInv

LEMMA QueryInv == ASSUME QInv, NEW q \in Client, Query(q) PROVE QInv'
<1>1. IInv' /\ had' = had
  BY NextInv DEF QInv, Query, vars, diskVars
<1>2. PICK k \in TopKs \cup {DefaultTopK} : limit' = [limit EXCEPT ![q] = Clamp(k)]
  BY DEF Query
<1>3. Clamp(k) \in 1 .. MaxTopK
  BY ClampBounds
<1>4. Cardinality({}) <= Clamp(k)
  BY <1>3, FS_EmptySet
<1>5. queries' \in Nat
  BY DEF Query, QInv, QueryTypeOK
<1> QED
  BY <1>1, <1>2, <1>3, <1>4, <1>5, HandlerStep DEF Query, Places

\* Where a search leads, and why it comes back empty.
LEMMA SearchFacts ==
    ASSUME QInv, NEW q \in Client, Search(q)
    PROVE  \E rows \in SUBSET table :
              /\ Cardinality(rows) <= limit[q]
              /\ found' = [found EXCEPT ![q] = rows]
              /\ ask' = [ask EXCEPT ![q] = IF rows = {} THEN "no_match" ELSE "chat"]
              /\ rows = {} <=> table = {}
<1>1. PICK rows \in SUBSET table :
        /\ \/ Cardinality(rows) = limit[q]
           \/ rows = table /\ Cardinality(table) <= limit[q]
        /\ found' = [found EXCEPT ![q] = rows]
        /\ Step(q, "search", IF rows = {} THEN "no_match" ELSE "chat")
  BY DEF Search
<1>2. limit[q] \in 1 .. MaxTopK
  BY DEF QInv, QueryTypeOK
<1>3. Cardinality(rows) <= limit[q]
  BY <1>1, <1>2
<1>4. rows = {} <=> table = {}
  BY <1>1, <1>2, FS_EmptySet
<1> QED
  BY <1>1, <1>3, <1>4 DEF Step

LEMMA SearchInv == ASSUME QInv, NEW q \in Client, Search(q) PROVE QInv'
<1>1. UNCHANGED <<limit, queries, vars>>
  BY DEF Search, Smooth
<1>2. IInv' /\ had' = had
  BY <1>1, NextInv DEF QInv, vars, diskVars
<1>3. PICK rows \in SUBSET table :
        /\ Cardinality(rows) <= limit[q]
        /\ found' = [found EXCEPT ![q] = rows]
        /\ ask' = [ask EXCEPT ![q] = IF rows = {} THEN "no_match" ELSE "chat"]
  BY SearchFacts
<1>4. limit[q] \in 1 .. MaxTopK /\ queries \in Nat /\ limit' = [limit EXCEPT ![q] = limit[q]]
  BY <1>1 DEF QInv, QueryTypeOK
<1>5. (IF rows = {} THEN "no_match" ELSE "chat") \in Places
  BY DEF Places, Replies
<1> QED
  BY <1>1, <1>2, <1>3, <1>4, <1>5, HandlerStep

LEMMA MovesInv ==
    ASSUME QInv, NEW q \in Client, FindResource(q) \/ EmbedQuestion(q) \/ Chat(q)
    PROVE  QInv'
<1>1. UNCHANGED <<limit, queries, vars, found>>
  BY DEF FindResource, EmbedQuestion, Chat, Smooth
<1>2. IInv' /\ had' = had
  BY <1>1, NextInv DEF QInv, vars, diskVars
<1>3. \E to \in Places : ask' = [ask EXCEPT ![q] = to]
  BY DEF FindResource, EmbedQuestion, Chat, Step, Places, Replies
<1> QED
  BY <1>1, <1>2, <1>3, HandlerMoves

\* A fault of a query counts as one; nothing else of the indexing changes.
LEMMA FaultInv ==
    ASSUME QInv, NEW q \in Client, NEW from, Fault(q, from) PROVE QInv'
<1> USE DEF Fault
<1>1. faults' \in Nat
  BY FaultsType DEF QInv, CountFault
<1>2. TypeOK'
  <2>1. TypeOK
    BY DEF QInv, IInv
  <2>2. WriterTypeOK'
    BY <2>1 DEF TypeOK, WriterTypeOK, writerVars, tableVars
  <2> QED
    BY <1>1, <2>1, <2>2, ZenonT(20)
       DEF TypeOK, writerVars, diskVars, scanVars, taskVars, watchVars, ctlVars
<1>3. IInv' /\ had' = had
  BY <1>2, QuietStep DEF QInv, diskVars, scanVars
<1>4. "error" \in Places /\ ask' = [ask EXCEPT ![q] = "error"]
  BY DEF Places, Replies, Step
<1> QED
  BY <1>3, <1>4, HandlerMoves

LEMMA IndexingInv == ASSUME QInv, Indexing PROVE QInv'
<1>1. IInv' /\ \A f \in File : had[f] \subseteq had'[f]
  BY NextInv, HadGrows DEF QInv, Indexing
<1>2. ask' \in [Client -> Places]
  BY DEF Indexing, QInv, QueryTypeOK, Places
<1>3. QueryTypeOK'
  BY <1>2 DEF Indexing, QInv, QueryTypeOK, Places
<1> QED
  BY <1>1, <1>3, QuotesFrame DEF QInv, Indexing

LEMMA QueryNextInv == QInv /\ [QueryNext]_<<vars, queryVars>> => QInv'
<1> SUFFICES ASSUME QInv, [QueryNext]_<<vars, queryVars>> PROVE QInv'
  OBVIOUS
<1>1. ASSUME NEW q \in Client, Handle(q) PROVE QInv'
  BY <1>1, MovesInv, SearchInv, FaultInv
     DEF Handle, StorageFails, ModelFails, TimesOut, WrongLength
<1>2. CASE UNCHANGED <<vars, queryVars>>
  <2>1. IInv' /\ had' = had
    BY <1>2, NextInv DEF QInv, vars, diskVars
  <2>2. QueryTypeOK'
    BY <1>2 DEF QInv, QueryTypeOK, queryVars
  <2> QED
    BY <1>2, <2>1, <2>2, QuotesFrame DEF QInv, queryVars
<1> QED
  BY <1>1, <1>2, QueryInv, IndexingInv DEF QueryNext

LEMMA QueryInvariance == QuerySpec => []QInv
  BY QueryInitInv, QueryNextInv, PTL DEF QuerySpec

\* Whatever scan, watcher and writer do between its steps, a query holds no more
\* rows than it was allowed to ask for (server.rs:260).
THEOREM QueryTypeCorrect == QuerySpec => []QueryTypeOK
<1>1. QInv => QueryTypeOK
  BY DEF QInv
<1> QED
  BY <1>1, QueryInvariance, PTL

\* What an answer quotes of a file are chunks of one version it really had, also
\* if the file is indexed anew, or deleted, while the model is asked
\* (server.rs:261-293, db.rs:580).
THEOREM AnswersCorrect == QuerySpec => []AnswersQuoteRealVersions
<1>1. QInv => AnswersQuoteRealVersions
  BY DEF QInv
<1> QED
  BY <1>1, QueryInvariance, PTL

\* A handler that searches goes on without rows if the table has none, and only
\* then.
LEMMA NoMatchStep ==
    ASSUME QInv, QueryNext, NEW q \in Client, ask[q] = "search",
           ask'[q] \in {"no_match", "chat"}
    PROVE  ask'[q] = "no_match" <=> table = {}
<1>1. ask \in [Client -> Places]
  BY DEF QInv, QueryTypeOK, Places
<1>2. ~Indexing
  BY DEF Indexing, Replies
<1>3. ASSUME NEW p \in Client PROVE ~Query(p)
  BY <1>1 DEF Query, Replies
<1>4. PICK p \in Client : Handle(p)
  BY <1>2, <1>3 DEF QueryNext
<1>5. ~FindResource(p) /\ ~EmbedQuestion(p) /\ ~Chat(p)
  BY <1>1 DEF FindResource, EmbedQuestion, Chat, Step
<1>6. ASSUME NEW from, Fault(p, from) PROVE FALSE
  BY <1>1, <1>6 DEF Fault, Step
<1>7. Search(p)
  BY <1>4, <1>5, <1>6 DEF Handle, StorageFails, ModelFails, TimesOut, WrongLength
<1>8. PICK rows \in SUBSET table :
        /\ ask' = [ask EXCEPT ![p] = IF rows = {} THEN "no_match" ELSE "chat"]
        /\ rows = {} <=> table = {}
  BY <1>7, SearchFacts
<1> QED
  BY <1>1, <1>8

\* A reply without sources means that nothing is indexed, and the other way
\* round: the lower bound of the clamp keeps a query for no sources from looking
\* like an empty index (server.rs:260-272), and no threshold keeps what is
\* irrelevant out.
THEOREM NoMatchCorrect == QuerySpec => NoMatchIffNothingIndexed
<1>1. QInv /\ [QueryNext]_<<vars, queryVars>> =>
        [\A q \in Client :
            ask[q] = "search" /\ ask'[q] \in {"no_match", "chat"} =>
                (ask'[q] = "no_match" <=> table = {})]_<<vars, queryVars>>
  BY NoMatchStep
<1> QED
  BY <1>1, QueryInvariance, PTL DEF QuerySpec, NoMatchIffNothingIndexed
=============================================================================
