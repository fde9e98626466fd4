--------------------------- MODULE ChunkerProofs ---------------------------
(***************************************************************************)
(* What the window loops of the chunker do for every configuration, every  *)
(* file and every list of node ends: both budgets are kept, the work is    *)
(* bounded, and on an orderly file nothing panics and nothing is lost.     *)
(***************************************************************************)
EXTENDS Chunker, TLAPS

USE ChunkerAssumption

LEMMA NextStartType ==
    ASSUME NEW from \in Nat, NEW to \in Nat
    PROVE  NextStart(from, to) \in Nat /\ NextStart(from, to) >= from + 1
  BY DEF NextStart

LEMMA NextStartBounds ==
    ASSUME NEW from \in Nat, NEW to \in Nat, from < to
    PROVE  NextStart(from, to) \in from + 1 .. to
  BY DEF NextStart

\* The types of what a file gives.
LEMMA FileFacts ==
    ASSUME TypeOK
    PROVE  /\ file.rows \in Nat
           /\ Ends \in Seq(0 .. file.rows)
           /\ \A i \in 1 .. Len(Ends) : Ends[i] \in 0 .. file.rows
           /\ \A i, j \in 1 .. Len(Ends) : i <= j => Ends[i] <= Ends[j]
           /\ \A r, s \in 0 .. file.rows : Chars(r, s) \in Int
<1>1. IsFile(file)
  BY DEF TypeOK
<1>2. file.rows \in Nat /\ file.ends \in Seq(0 .. file.rows)
  BY <1>1 DEF IsFile
<1>3. DOMAIN file.ends = 1 .. Len(file.ends) /\ \A i \in 1 .. Len(file.ends) : file.ends[i] \in 0 .. file.rows
  BY <1>2
<1>4. \A i, j \in 1 .. Len(file.ends) : i <= j => file.ends[i] <= file.ends[j]
  BY <1>1, <1>3 DEF IsFile
<1>5. \A r \in 0 .. file.rows : file.offset[r] \in Nat
  BY <1>1 DEF IsFile
<1>6. \A r, s \in 0 .. file.rows : Chars(r, s) \in Int
  BY <1>5 DEF Chars
<1> QED
  BY <1>2, <1>3, <1>4, <1>6 DEF Ends

\* A window that does not trap, as its rows.
LEMMA WindowFacts ==
    ASSUME TypeOK, NEW last \in DOMAIN Ends, ~Traps(Ends[last])
    PROVE  /\ Ends[last] \in Nat /\ Ends[last] + 1 \in 1 .. file.rows
           /\ start <= Ends[last] + 1
           /\ WindowLines(Ends[last]) = Ends[last] + 1 - start
           /\ SplitLimit(Ends[last]) \in Ends[last] .. Ends[last] + 1
<1>1. Ends[last] \in 0 .. file.rows /\ file.rows \in Nat /\ start \in Nat
  BY FileFacts DEF TypeOK
<1>2. Ends[last] < file.rows /\ ~(Ends[last] + 1 < start)
  BY <1>1 DEF Traps
<1> QED
  BY <1>1, <1>2 DEF WindowLines, Wrapped, SplitLimit

\* A chunk is appended; the others stay.
LEMMA EmitType ==
    ASSUME TypeOK, NEW from \in Nat, NEW to \in 0 .. file.rows, Emit(from, to)
    PROVE  chunks' \in Seq([from : Nat, to : 0 .. file.rows])
  BY DEF TypeOK, Emit

LEMMA EmitFacts ==
    ASSUME TypeOK, NEW from, NEW to, Emit(from, to)
    PROVE  /\ Len(chunks') = Len(chunks) + 1
           /\ chunks'[Len(chunks) + 1] = [from |-> from, to |-> to]
           /\ \A i \in 1 .. Len(chunks) : chunks'[i] = chunks[i]
           /\ DOMAIN chunks' = 1 .. Len(chunks) + 1
           /\ Len(chunks) \in Nat
  BY DEF TypeOK, Emit

LEMMA ProceedType ==
    ASSUME TypeOK, NEW last \in DOMAIN Ends, Proceed(last)
    PROVE  start' \in Nat /\ pc' \in {"done", "code"}
<1>1. Ends[last] + 1 \in Nat /\ start \in Nat
  BY FileFacts DEF TypeOK
<1> QED
  BY <1>1, NextStartType DEF Proceed
----------------------------------------------------------------------------
LEMMA InitType == Init => TypeOK
<1> SUFFICES ASSUME Init PROVE TypeOK
  OBVIOUS
<1>1. IsFile(file)
  BY DEF Init
<1>2. file.rows \in Nat /\ Len(Ends) \in Nat
  BY <1>1 DEF IsFile, Ends
<1> QED
  BY <1>1, <1>2 DEF Init, TypeOK

LEMMA WindowType == ASSUME TypeOK, Window PROVE TypeOK'
<1>1. PICK last \in DOMAIN Ends :
        /\ Packs(last) /\ ~PackTraps(last)
        /\ Emit(start, Ends[last] + 1)
        /\ node' = last
        /\ Proceed(last)
        /\ UNCHANGED <<file, at, limit>>
  BY DEF Window
<1>2. last \in 0 .. Len(Ends)
  BY FileFacts
<1>3. Ends[last] + 1 \in 0 .. file.rows
  <2>1. ~Traps(Ends[last])
    BY <1>1 DEF PackTraps
  <2>2. Ends[last] + 1 \in 1 .. file.rows /\ file.rows \in Nat
    BY <2>1, WindowFacts, FileFacts
  <2> QED
    BY <2>2
<1>4. chunks' \in Seq([from : Nat, to : 0 .. file.rows])
  BY <1>1, <1>3, EmitType DEF TypeOK
<1>5. start' \in Nat /\ pc' \in {"done", "code"}
  BY <1>1, ProceedType
<1> QED
  BY <1>1, <1>2, <1>4, <1>5 DEF TypeOK, Ends

LEMMA OversizedType == ASSUME TypeOK, OversizedWindow PROVE TypeOK'
<1>1. PICK last \in DOMAIN Ends :
        /\ ~PackTraps(last)
        /\ node' = last /\ pc' = "split" /\ at' = start
        /\ limit' = SplitLimit(Ends[last])
        /\ UNCHANGED <<file, start, chunks>>
  BY DEF OversizedWindow
<1>2. last \in 0 .. Len(Ends)
  BY FileFacts
<1>3. limit' \in 0 .. file.rows
  <2>1. ~Traps(Ends[last])
    BY <1>1 DEF PackTraps
  <2>2. /\ Ends[last] \in Nat /\ Ends[last] + 1 \in 1 .. file.rows /\ file.rows \in Nat
        /\ limit' \in Ends[last] .. Ends[last] + 1
    BY <1>1, <2>1, WindowFacts, FileFacts
  <2> QED
    BY <2>2
<1> QED
  BY <1>1, <1>2, <1>3 DEF TypeOK, Ends

\* The windows of chunk_text begin and end in the file.
LEMMA TextWindowFacts ==
    ASSUME TypeOK, TextWindow
    PROVE  \E to \in at + 1 .. limit :
             /\ at \in Nat /\ limit \in 0 .. file.rows /\ to \in 1 .. file.rows
             /\ Fills(to)
             /\ Emit(at, to)
             /\ IF to < limit
                THEN at' = NextStart(at, to) /\ UNCHANGED <<pc, start>>
                ELSE /\ to = limit
                     /\ UNCHANGED at
                     /\ IF pc = "text" THEN pc' = "done" /\ UNCHANGED start
                        ELSE Proceed(node)
             /\ UNCHANGED <<file, node, limit>>
<1>1. at \in Nat /\ limit \in 0 .. file.rows /\ file.rows \in Nat
  BY FileFacts DEF TypeOK
<1>2. \A to \in at + 1 .. limit : to \in 1 .. file.rows /\ (~(to < limit) => to = limit)
  BY <1>1
<1> QED
  BY <1>1, <1>2 DEF TextWindow

\* When chunk_text returns to chunk_code there is a window behind it.
LEMMA TextWindowType ==
    ASSUME TypeOK, TextWindow, pc = "split" => node > 0 PROVE TypeOK'
<1>1. PICK to \in at + 1 .. limit :
        /\ at \in Nat /\ limit \in 0 .. file.rows /\ to \in 1 .. file.rows
        /\ Emit(at, to)
        /\ IF to < limit
           THEN at' = NextStart(at, to) /\ UNCHANGED <<pc, start>>
           ELSE /\ UNCHANGED at
                /\ IF pc = "text" THEN pc' = "done" /\ UNCHANGED start
                   ELSE Proceed(node)
        /\ UNCHANGED <<file, node, limit>>
  BY TextWindowFacts
<1>0. to \in Nat /\ to \in 0 .. file.rows
  <2>1. file.rows \in Nat
    BY FileFacts
  <2> QED
    BY <1>1, <2>1
<1>2. chunks' \in Seq([from : Nat, to : 0 .. file.rows])
  BY <1>1, <1>0, EmitType
<1>3. at' \in Nat
  BY <1>1, <1>0, NextStartType
<1>4. start' \in Nat /\ pc' \in {"code", "text", "split", "done", "panicked"}
  <2>1. CASE to < limit \/ pc = "text"
    BY <1>1, <2>1 DEF TypeOK
  <2>2. CASE ~(to < limit) /\ pc = "split"
    <3>1. node \in DOMAIN Ends
      BY <2>2, FileFacts DEF TypeOK
    <3> QED
      BY <1>1, <2>2, <3>1, ProceedType
  <2> QED
    BY <2>1, <2>2 DEF TextWindow
<1> QED
  BY <1>1, <1>2, <1>3, <1>4 DEF TypeOK, Ends
----------------------------------------------------------------------------
(* The type invariant and the bound on the work go together.               *)

WorkInv == TypeOK /\ Spent /\ BoundedWork

\* rows times nodes grows with the nodes.
LEMMA RowsTimes ==
    ASSUME NEW r \in Nat, NEW m \in Nat, NEW n \in Nat, m < n
    PROVE  /\ m * r \in Nat /\ n * r \in Nat
           /\ m * r + r <= n * r
<1>1. n = m + 1 + (n - m - 1) /\ n - m - 1 \in Nat
  OBVIOUS
<1>2. n * r = m * r + r + (n - m - 1) * r
  BY <1>1
<1>3. (n - m - 1) * r \in Nat
  BY <1>1
<1> QED
  BY <1>2, <1>3

\* As many passes as there are nodes.
LEMMA SpentBounds ==
    ASSUME TypeOK, file.code, Ends # <<>>, NEW k \in Nat, NEW n \in 0 .. Len(Ends),
           k <= n * file.rows
    PROVE  k <= file.rows * (IF file.code /\ Ends # <<>> THEN Len(Ends) ELSE 1)
<1>1. file.rows \in Nat /\ Len(Ends) \in Nat /\ n \in Nat
  BY FileFacts
<1>2. n * file.rows <= Len(Ends) * file.rows
  <2>1. CASE n = Len(Ends)
    BY <1>1, <2>1
  <2>2. CASE n < Len(Ends)
    BY <1>1, <2>2, RowsTimes
  <2> QED
    BY <1>1, <2>1, <2>2
<1>3. Len(Ends) * file.rows = file.rows * Len(Ends) /\ n * file.rows \in Nat
  BY <1>1
<1>4. k <= file.rows * Len(Ends)
  BY <1>1, <1>2, <1>3
<1> QED
  BY <1>4

LEMMA InitWork == Init => WorkInv
<1> SUFFICES ASSUME Init PROVE WorkInv
  OBVIOUS
<1>1. TypeOK /\ file.rows \in Nat
  BY InitType, FileFacts
<1>2. Len(chunks) = 0 /\ node = 0 /\ at = 0
  BY DEF Init
<1>3. Spent
  BY <1>1, <1>2 DEF Init, Spent
<1>4. BoundedWork
  <2>1. Len(Ends) \in Nat
    BY <1>1, FileFacts
  <2>2. file.rows * Len(Ends) \in Nat /\ file.rows * 1 \in Nat
    BY <1>1, <2>1
  <2> QED
    BY <1>2, <2>2 DEF BoundedWork
<1> QED
  BY <1>1, <1>3, <1>4 DEF WorkInv

\* A window takes at least one node more.
LEMMA PacksFacts ==
    ASSUME TypeOK, Spent, NEW last, Packs(last)
    PROVE  /\ file.rows \in Nat /\ file.rows > 0 /\ node \in Nat /\ last \in Nat
           /\ last \in 0 .. Len(Ends) /\ node < last
<1>1. file.rows \in Nat /\ Len(Ends) \in Nat
  BY FileFacts
<1>2. node \in 0 .. Len(Ends)
  BY DEF TypeOK
<1>3. pc = "code" /\ last \in node + 1 .. Len(Ends)
  BY DEF Packs
<1> QED
  BY <1>1, <1>2, <1>3 DEF Spent

LEMMA WindowWork == ASSUME WorkInv, Window PROVE WorkInv'
<1> USE DEF WorkInv
<1>1. PICK last \in DOMAIN Ends :
        /\ Packs(last)
        /\ Emit(start, Ends[last] + 1)
        /\ node' = last
        /\ Proceed(last)
        /\ UNCHANGED <<file, at, limit>>
  BY DEF Window
<1>2. /\ file.rows \in Nat /\ file.rows > 0 /\ node \in Nat /\ last \in Nat
      /\ last \in 0 .. Len(Ends) /\ node < last
  BY <1>1, PacksFacts
<1>3. /\ Len(chunks) \in Nat /\ Len(chunks) <= node * file.rows
      /\ file.code /\ Ends # <<>>
      /\ Len(chunks') = Len(chunks) + 1
  BY <1>1, EmitFacts DEF Packs, Spent
<1>4. Len(chunks') <= last * file.rows
  <2>1. node * file.rows \in Nat /\ last * file.rows \in Nat
        /\ node * file.rows + file.rows <= last * file.rows
    BY <1>2, RowsTimes
  <2> QED
    BY <1>2, <1>3, <2>1
<1>5. TypeOK' /\ Ends' = Ends
  BY <1>1, WindowType DEF Ends
<1>6. pc' \in {"done", "code"}
  BY <1>1, ProceedType
<1>7. Spent'
  BY <1>1, <1>2, <1>3, <1>4, <1>5, <1>6 DEF Spent
<1>8. BoundedWork'
  BY <1>1, <1>2, <1>3, <1>4, <1>5, SpentBounds DEF BoundedWork
<1> QED
  BY <1>5, <1>7, <1>8

LEMMA OversizedWork == ASSUME WorkInv, OversizedWindow PROVE WorkInv'
<1> USE DEF WorkInv
<1>1. PICK last \in DOMAIN Ends :
        /\ Packs(last)
        /\ node' = last /\ pc' = "split" /\ at' = start
        /\ UNCHANGED <<file, start, chunks>>
  BY DEF OversizedWindow
<1>2. /\ file.rows \in Nat /\ file.rows > 0 /\ node \in Nat /\ last \in Nat
      /\ node < last /\ start \in Nat
  BY <1>1, PacksFacts DEF TypeOK
<1>3. /\ Len(chunks) \in Nat /\ Len(chunks) <= node * file.rows
      /\ file.code /\ Ends # <<>>
  BY <1>1 DEF Packs, Spent, TypeOK
<1>4. Len(chunks) <= (last - 1) * file.rows + start
  <2>1. CASE node = last - 1
    BY <1>2, <1>3, <2>1
  <2>2. CASE node < last - 1
    <3>1. /\ node * file.rows \in Nat /\ (last - 1) * file.rows \in Nat
          /\ node * file.rows + file.rows <= (last - 1) * file.rows
      BY <1>2, <2>2, RowsTimes
    <3> QED
      BY <1>2, <1>3, <3>1
  <2> QED
    BY <1>2, <2>1, <2>2
<1>5. TypeOK' /\ Ends' = Ends
  BY <1>1, OversizedType DEF Ends
<1>6. Spent'
  BY <1>1, <1>2, <1>3, <1>4, <1>5 DEF Spent
<1>7. BoundedWork'
  BY <1>1, <1>5 DEF BoundedWork
<1> QED
  BY <1>5, <1>6, <1>7

LEMMA OneMore ==
    ASSUME NEW k \in Nat, NEW m \in Nat, NEW n \in Nat, NEW r \in Nat, NEW a \in Nat,
           k <= m + a, a + 1 <= r, m + r <= n
    PROVE  k + 1 <= n
  OBVIOUS

LEMMA TextWindowWork == ASSUME WorkInv, TextWindow PROVE WorkInv'
<1> USE DEF WorkInv
<1>1. PICK to \in at + 1 .. limit :
        /\ at \in Nat /\ limit \in 0 .. file.rows /\ to \in 1 .. file.rows
        /\ Emit(at, to)
        /\ IF to < limit
           THEN at' = NextStart(at, to) /\ UNCHANGED <<pc, start>>
           ELSE /\ UNCHANGED at
                /\ IF pc = "text" THEN pc' = "done" /\ UNCHANGED start
                   ELSE Proceed(node)
        /\ UNCHANGED <<file, node, limit>>
  BY TextWindowFacts
<1>2. /\ file.rows \in Nat /\ to \in Nat /\ at + 1 <= to /\ to <= file.rows
      /\ node \in 0 .. Len(Ends)
  <2>1. file.rows \in Nat
    BY FileFacts
  <2> QED
    BY <1>1, <2>1 DEF TypeOK
<1>3. /\ TypeOK' /\ Ends' = Ends
      /\ pc \in {"text", "split"} /\ (pc = "split" => node > 0)
  BY <1>1, TextWindowType DEF TextWindow, Spent, Ends
<1>4. /\ Len(chunks) \in Nat /\ Len(chunks') = Len(chunks) + 1
  BY <1>1, EmitFacts
<1>5. to < limit => at' \in Nat /\ at' >= at + 1
  BY <1>1, <1>2, NextStartType
<1>6. CASE pc = "text"
  <2>1. Len(chunks) <= at /\ ~(file.code /\ Ends # <<>>)
    BY <1>6 DEF Spent
  <2>2. Spent'
    BY <1>1, <1>2, <1>3, <1>4, <1>5, <1>6, <2>1 DEF Spent
  <2>3. Len(chunks') <= file.rows * 1
    BY <1>1, <1>2, <1>4, <2>1
  <2>4. BoundedWork'
    BY <1>1, <1>3, <2>1, <2>3 DEF BoundedWork
  <2> QED
    BY <1>3, <2>2, <2>4
<1>7. CASE pc = "split"
  <2>1. /\ Len(chunks) <= (node - 1) * file.rows + at
        /\ file.code /\ Ends # <<>> /\ node > 0 /\ node \in Nat
    BY <1>2, <1>7, FileFacts DEF Spent
  <2>2. /\ (node - 1) * file.rows \in Nat /\ node * file.rows \in Nat
        /\ (node - 1) * file.rows + file.rows <= node * file.rows
    <3>1. node - 1 \in Nat /\ node - 1 < node
      BY <2>1
    <3> QED
      BY <1>2, <2>1, <3>1, RowsTimes
  <2>3. Len(chunks') <= (node - 1) * file.rows + at + 1
    BY <1>1, <1>4, <2>1, <2>2
  <2>4. at \in Nat /\ at + 1 <= file.rows
    BY <1>1, <1>2
  <2>5. Len(chunks') <= node * file.rows
    BY <1>2, <1>4, <2>1, <2>2, <2>4, OneMore
  <2>6. BoundedWork'
    BY <1>1, <1>2, <1>3, <1>4, <2>1, <2>5, SpentBounds DEF BoundedWork
  <2>7. CASE to < limit
    <3>1. at' \in Nat /\ at + 1 <= at' /\ pc' = "split" /\ file' = file /\ node' = node
      BY <1>1, <1>5, <1>7, <2>7
    <3>2. Len(chunks') <= (node - 1) * file.rows + at'
      <4> DEFINE m == (node - 1) * file.rows
      <4>1. m \in Nat /\ Len(chunks') \in Nat /\ Len(chunks') <= m + at + 1
        BY <1>4, <2>2, <2>3
      <4> HIDE DEF m
      <4>2. Len(chunks') <= m + at'
        BY <1>1, <3>1, <4>1
      <4> QED
        BY <4>2 DEF m
    <3>3. Spent'
      BY <1>2, <1>3, <2>1, <3>1, <3>2 DEF Spent
    <3> QED
      BY <1>3, <2>6, <3>3
  <2>8. CASE ~(to < limit)
    <3>1. node \in DOMAIN Ends
      BY <1>2, <2>1, FileFacts
    <3>2. pc' \in {"done", "code"}
      BY <1>1, <1>7, <2>8, <3>1, ProceedType
    <3>3. file.rows > 0
      BY <1>7 DEF Spent
    <3> QED
      <4>1. file' = file /\ node' = node
        BY <1>1
      <4>2. Spent'
        BY <1>3, <2>1, <2>5, <3>2, <3>3, <4>1 DEF Spent
      <4> QED
        BY <1>3, <2>6, <4>2
  <2> QED
    BY <2>7, <2>8
<1> QED
  BY <1>3, <1>6, <1>7

LEMMA WorkInvariance == Spec => []WorkInv
<1>1. ASSUME WorkInv, [Next]_vars PROVE WorkInv'
  <2>1. CASE Panic
    <3>1. /\ pc' = "panicked" /\ pc = "code"
          /\ UNCHANGED <<file, start, node, at, limit, chunks>>
      BY <2>1 DEF Panic, Packs
    <3> QED
      BY <1>1, <3>1 DEF WorkInv, TypeOK, Spent, BoundedWork, Ends
  <2>2. CASE Returned \/ UNCHANGED vars
    <3>1. UNCHANGED vars
      BY <2>2 DEF Returned
    <3> QED
      BY <1>1, <3>1 DEF vars, WorkInv, TypeOK, Spent, BoundedWork, Ends
  <2> QED
    BY <1>1, <2>1, <2>2, WindowWork, OversizedWork, TextWindowWork DEF Next
<1> QED
  BY <1>1, InitWork, PTL DEF Spec

\* Every variable keeps its type, whatever the configuration, the file and the
\* width of a usize, and whether overflow is checked or not.
THEOREM TypeCorrect == Spec => []TypeOK
<1>1. WorkInv => TypeOK
  BY DEF WorkInv
<1> QED
  BY <1>1, WorkInvariance, PTL

\* The two loops cannot run away: there are never more chunks than rows times
\* nodes, also with an overlap that is larger than a window
\* (chunker.rs:201-202, 242-243).
THEOREM WorkIsBounded == Spec => []BoundedWork
<1>1. WorkInv => BoundedWork
  BY DEF WorkInv
<1> QED
  BY <1>1, WorkInvariance, PTL
----------------------------------------------------------------------------
(* Both budgets.                                                           *)

LEMMA BudgetEmit ==
    ASSUME TypeOK, WithinBudget, NEW from, NEW to, Emit(from, to), file' = file,
           to <= from + 1 \/ (to - from <= ChunkLines /\ Chars(from, to) <= MaxChars)
    PROVE  WithinBudget'
<1>1. ASSUME NEW i \in DOMAIN chunks'
      PROVE  \/ i \in DOMAIN chunks /\ chunks'[i] = chunks[i]
             \/ chunks'[i] = [from |-> from, to |-> to]
  <2>1. DOMAIN chunks = 1 .. Len(chunks)
    BY DEF TypeOK
  <2>2. i \in 1 .. Len(chunks) + 1 /\ Len(chunks) \in Nat
    BY EmitFacts
  <2>3. i \in 1 .. Len(chunks) \/ i = Len(chunks) + 1
    BY <2>2
  <2> QED
    BY <2>1, <2>3, EmitFacts
<1> QED
  BY <1>1 DEF WithinBudget, Chars

\* No chunk exceeds both budgets but by one row that is too long by itself:
\* neither the windows of chunk_code (chunker.rs:181), nor those it hands to
\* chunk_text, nor the rows of a plain text (chunker.rs:223-229).
THEOREM BudgetKept == Spec => []WithinBudget
<1>1. Init => WithinBudget
  BY DEF Init, WithinBudget
<1>2. ASSUME WorkInv, WithinBudget, [Next]_vars PROVE WithinBudget'
  <2>1. CASE Window
    <3>1. PICK last \in DOMAIN Ends :
            /\ ~PackTraps(last)
            /\ ~TooBig(Ends[last])
            /\ Emit(start, Ends[last] + 1)
            /\ file' = file
      BY <2>1 DEF Window
    <3>2. /\ start \in Nat /\ Ends[last] \in Nat
          /\ WindowLines(Ends[last]) = Ends[last] + 1 - start
          /\ Ends[last] + 1 \in 1 .. file.rows
      BY <1>2, <3>1, WindowFacts DEF PackTraps, WorkInv, TypeOK
    <3>3. ~(Ends[last] + 1 - start > ChunkLines) /\ ~(Chars(start, Ends[last] + 1) > MaxChars)
      BY <3>1, <3>2 DEF TooBig
    <3>4. CASE start < Ends[last] + 1
      <4>1. /\ start \in 0 .. file.rows /\ Ends[last] + 1 \in 0 .. file.rows
        BY <1>2, <3>2, <3>4, FileFacts DEF WorkInv
      <4>2. Chars(start, Ends[last] + 1) \in Int
        BY <1>2, <4>1, FileFacts DEF WorkInv
      <4> QED
        BY <1>2, <3>1, <3>2, <3>3, <4>2, BudgetEmit DEF WorkInv
    <3>5. CASE Ends[last] + 1 <= start
      BY <1>2, <3>1, <3>2, <3>5, BudgetEmit DEF WorkInv
    <3> QED
      BY <3>2, <3>4, <3>5
  <2>2. CASE TextWindow
    <3>1. PICK to \in at + 1 .. limit : Fills(to) /\ Emit(at, to) /\ file' = file /\ at \in Nat
      BY <1>2, <2>2, TextWindowFacts DEF WorkInv
    <3> QED
      BY <1>2, <3>1, BudgetEmit DEF Fills, WorkInv
  <2>3. CASE OversizedWindow \/ Panic \/ Returned \/ UNCHANGED vars
    BY <1>2, <2>3 DEF OversizedWindow, Panic, Returned, vars, WithinBudget, Chars
  <2> QED
    BY <1>2, <2>1, <2>2, <2>3 DEF Next
<1> QED
  BY <1>1, <1>2, WorkInvariance, PTL DEF Spec
----------------------------------------------------------------------------
(* Orderly files: no panic, no chunk without content, no text lost.        *)

LEMMA OrderlyFacts ==
    ASSUME TypeOK, Orderly, file.code
    PROVE  /\ \A i \in 1 .. Len(Ends) : Ends[i] \in Nat /\ Ends[i] < file.rows
           /\ \A i \in 1 .. Len(Ends) : i + 1 <= Len(Ends) /\ Ends[i + 1] = Ends[i] =>
                  OverlapLines > 0 /\ Chars(Ends[i], Ends[i] + 1) <= MaxChars
<1>1. DOMAIN Ends = 1 .. Len(Ends) /\ Len(Ends) \in Nat /\ file.rows \in Nat
  BY FileFacts
<1>2. ASSUME NEW i \in 1 .. Len(Ends)
      PROVE  Ends[i] \in Nat /\ Ends[i] < file.rows
  <2>1. Ends[i] \in 0 .. file.rows
    BY FileFacts
  <2> QED
    BY <1>1, <2>1 DEF Orderly
<1>3. ASSUME NEW i \in 1 .. Len(Ends), i + 1 <= Len(Ends), Ends[i + 1] = Ends[i]
      PROVE  OverlapLines > 0 /\ Chars(Ends[i], Ends[i] + 1) <= MaxChars
  <2>1. i + 1 \in DOMAIN Ends \ {1} /\ (i + 1) - 1 = i
    BY <1>1, <1>3
  <2> QED
    BY <1>3, <2>1 DEF Orderly
<1> QED
  BY <1>2, <1>3

\* A window that stops before a node that ends on its own last row would have
\* taken that node too, unless it began earlier.
LEMMA PackStops ==
    ASSUME TypeOK, Orderly, file.code, NEW last, Packs(last), start <= Ends[node + 1]
    PROVE  /\ last \in DOMAIN Ends
           /\ start <= Ends[last]
           /\ ~PackTraps(last)
           /\ last < Len(Ends) => start < Ends[last] \/ Ends[last] < Ends[last + 1]
<1>1. /\ node \in Nat /\ Len(Ends) \in Nat /\ last \in node + 1 .. Len(Ends)
      /\ DOMAIN Ends = 1 .. Len(Ends) /\ start \in Nat /\ file.rows \in Nat
  BY FileFacts DEF TypeOK, Packs
<1>2. /\ last \in 1 .. Len(Ends) /\ node + 1 \in 1 .. Len(Ends)
      /\ (last < Len(Ends) => last + 1 \in 1 .. Len(Ends))
  BY <1>1
<1>3. /\ Ends[node + 1] <= Ends[last]
      /\ last < Len(Ends) => Ends[last] <= Ends[last + 1]
  BY <1>1, <1>2, FileFacts
<1>4. \A i \in 1 .. Len(Ends) : Ends[i] \in Nat /\ Ends[i] < file.rows
  BY OrderlyFacts
<1>5. start <= Ends[last] /\ (last < Len(Ends) => start <= Ends[last + 1])
  BY <1>1, <1>2, <1>3, <1>4
<1>6. \A i \in 1 .. Len(Ends) : start <= Ends[i] => ~Traps(Ends[i])
  BY <1>1, <1>4 DEF Traps
<1>7. ~PackTraps(last)
  BY <1>2, <1>5, <1>6 DEF PackTraps
<1>8. ASSUME last < Len(Ends), ~(start < Ends[last]), ~(Ends[last] < Ends[last + 1])
      PROVE  FALSE
  <2>1. Ends[last] = start /\ Ends[last + 1] = start
    BY <1>1, <1>2, <1>3, <1>4, <1>5, <1>8
  <2>2. Chars(start, start + 1) <= MaxChars /\ start + 1 \in 0 .. file.rows
        /\ start \in 0 .. file.rows
    BY <1>1, <1>2, <1>4, <1>8, <2>1, OrderlyFacts
  <2>3. Chars(start, start + 1) \in Int
    BY <2>2, FileFacts
  <2>4. ~TooBig(start)
    BY <1>1, <2>2, <2>3 DEF TooBig, WindowLines, Wrapped
  <2>5. Takes(last + 1)
    BY <1>2, <1>5, <1>6, <1>8, <2>1, <2>4 DEF Takes
  <2> QED
    BY <1>8, <2>5 DEF Packs
<1> QED
  BY <1>1, <1>2, <1>5, <1>7, <1>8

\* The next window of chunk_code begins within reach.
LEMMA ProceedStart ==
    ASSUME TypeOK, Orderly, file.code, NEW last \in 1 .. Len(Ends), start <= Ends[last],
           last < Len(Ends) => start < Ends[last] \/ Ends[last] < Ends[last + 1],
           Proceed(last)
    PROVE  pc' = "code" => /\ last < Len(Ends)
                           /\ start' <= Ends[last + 1] /\ start' <= Ends[last] + 1
<1>1. /\ Len(Ends) \in Nat /\ last \in Nat /\ start \in Nat /\ Ends[last] \in Nat
  BY FileFacts, OrderlyFacts DEF TypeOK
<1>2. CASE last = Len(Ends)
  BY <1>2 DEF Proceed
<1>3. CASE last < Len(Ends)
  <2>1. start' = NextStart(start, Ends[last] + 1)
    BY <1>1, <1>3 DEF Proceed
  <2>2. /\ last + 1 \in 1 .. Len(Ends) /\ Ends[last + 1] \in Nat
        /\ Ends[last] <= Ends[last + 1]
    <3>1. last + 1 \in 1 .. Len(Ends)
      BY <1>1, <1>3
    <3> QED
      BY <1>1, <3>1, FileFacts, OrderlyFacts
  <2>3. Ends[last + 1] = Ends[last] => OverlapLines > 0
    BY <1>3, <1>1, OrderlyFacts
  <2>4. start' \in start + 1 .. Ends[last] + 1
    BY <1>1, <2>1, NextStartBounds
  <2>5. start' <= Ends[last + 1]
    BY <1>1, <1>3, <2>1, <2>2, <2>3 DEF NextStart
  <2> QED
    BY <1>1, <1>3, <2>4, <2>5
<1> QED
  BY <1>1, <1>2, <1>3

\* What a new chunk holds is held, and what was held stays so.
LEMMA HeldEmit ==
    ASSUME TypeOK, NEW from \in Nat, NEW to \in Nat, Emit(from, to), HasContent, from < to
    PROVE  /\ HasContent'
           /\ \A r : Held(r) => Held(r)'
           /\ \A r \in from .. to - 1 : Held(r)'
<1>1. /\ DOMAIN chunks = 1 .. Len(chunks) /\ DOMAIN chunks' = 1 .. Len(chunks) + 1
      /\ Len(chunks) \in Nat
      /\ \A i \in 1 .. Len(chunks) : chunks'[i] = chunks[i]
      /\ chunks'[Len(chunks) + 1] = [from |-> from, to |-> to]
  BY EmitFacts DEF TypeOK
<1>2. \A i \in DOMAIN chunks' : i \in DOMAIN chunks \/ i = Len(chunks) + 1
  BY <1>1
<1>3. \A i \in DOMAIN chunks : i \in DOMAIN chunks'
  BY <1>1
<1>4. HasContent'
  BY <1>1, <1>2 DEF HasContent
<1>5. \A r : Held(r) => Held(r)'
  BY <1>1, <1>3 DEF Held
<1>6. Len(chunks) + 1 \in DOMAIN chunks'
  BY <1>1
<1>7. \A r \in from .. to - 1 : Held(r)'
  BY <1>1, <1>6 DEF Held
<1> QED
  BY <1>4, <1>5, <1>7

\* So the rows without a gap grow by a chunk that begins among them.
LEMMA CoveredEmit ==
    ASSUME TypeOK, NEW from \in Nat, NEW to \in Nat, Emit(from, to), HasContent, from < to,
           NEW n \in Nat, Covered(n), from <= n
    PROVE  /\ HasContent'
           /\ \A r \in 0 .. to - 1 : Chars(r, r + 1) > 1 => Held(r)'
<1>1. ASSUME NEW r \in 0 .. to - 1, Chars(r, r + 1) > 1
      PROVE  Held(r)'
  <2>1. CASE r < from
    <3>1. r \in 0 .. n - 1
      BY <2>1
    <3> QED
      BY <1>1, <3>1, HeldEmit DEF Covered
  <2>2. CASE from <= r
    <3>1. r \in from .. to - 1
      BY <2>2
    <3> QED
      BY <3>1, HeldEmit
  <2> QED
    BY <2>1, <2>2
<1>2. HasContent'
  BY HeldEmit
<1> QED
  BY <1>1, <1>2

\* Rows that are covered stay so when nothing is emitted.
LEMMA CoveredFrame ==
    ASSUME UNCHANGED <<file, chunks>>, NEW m \in Nat, NEW n \in Nat, Covered(n), m <= n
    PROVE  Covered(m)'
<1>1. \A r \in 0 .. m - 1 : r \in 0 .. n - 1
  OBVIOUS
<1> QED
  BY <1>1 DEF Covered, Held, Chars

\* SplitLimit leaves out an empty row at most.
LEMMA SplitRows ==
    ASSUME NEW end \in Nat, NEW r \in 0 .. end, Chars(r, r + 1) > 1
    PROVE  r \in 0 .. SplitLimit(end) - 1
  BY DEF SplitLimit

LEMMA InitClean == Init => CInv
<1> SUFFICES ASSUME Init PROVE CInv
  OBVIOUS
<1>1. TypeOK
  BY InitType
<1>2. file.rows \in Nat /\ Len(Ends) \in Nat /\ node = 0 /\ start = 0 /\ at = 0
  BY <1>1, FileFacts DEF Init
<1>3. Covered(0) /\ HasContent /\ pc # "panicked"
  BY DEF Init, Covered, HasContent
<1>4. ASSUME Orderly PROVE InPlace /\ NoGap
  <2>1. CASE pc = "code"
    <3>1. file.code /\ Ends # <<>>
      BY <2>1 DEF Init
    <3>2. 1 \in 1 .. Len(Ends)
      BY <1>1, <1>2, <3>1, FileFacts
    <3>3. Ends[1] \in Nat
      BY <1>1, <1>4, <3>1, <3>2, OrderlyFacts
    <3>4. Behind = 0
      BY <1>2 DEF Behind
    <3> QED
      BY <1>2, <1>3, <2>1, <3>1, <3>2, <3>3, <3>4 DEF InPlace, NoGap
  <2>2. CASE pc = "text"
    BY <1>2, <1>3, <2>2 DEF Init, InPlace, NoGap
  <2>3. CASE pc = "done"
    <3>1. file.rows = 0
      BY <2>3 DEF Init
    <3>2. ~(file.code /\ Ends # <<>>)
      <4>1. SUFFICES ASSUME file.code, Ends # <<>> PROVE FALSE
        OBVIOUS
      <4>2. 1 \in 1 .. Len(Ends)
        BY <1>1, <1>2, <4>1, FileFacts
      <4> QED
        BY <1>1, <1>4, <3>1, <4>1, <4>2, OrderlyFacts
    <3>3. LastRow + 1 = 0
      BY <3>1, <3>2 DEF LastRow
    <3> QED
      BY <1>3, <2>3, <3>3 DEF InPlace, NoGap
  <2> QED
    BY <2>1, <2>2, <2>3 DEF Init
<1> QED
  BY <1>1, <1>3, <1>4 DEF CInv

\* chunk_code is done with a window whose rows are covered.
LEMMA ProceedClean ==
    ASSUME TypeOK, Orderly, file.code, NEW last \in 1 .. Len(Ends), start <= Ends[last],
           last < Len(Ends) => start < Ends[last] \/ Ends[last] < Ends[last + 1],
           Proceed(last), node' = last, file' = file,
           \A r \in 0 .. Ends[last] : Chars(r, r + 1) > 1 => Held(r)'
    PROVE  (InPlace /\ NoGap)' /\ pc' # "panicked"
<1>1. /\ pc' = "code" => /\ last < Len(Ends)
                         /\ start' <= Ends[last + 1] /\ start' <= Ends[last] + 1
      /\ pc' \in {"code", "done"}
      /\ pc' = "done" => last = Len(Ends)
  BY ProceedStart, ProceedType, FileFacts DEF Proceed
<1>2. Ends' = Ends /\ Ends # <<>> /\ last > 0
  BY FileFacts DEF Ends
<1>3. Behind' = Ends[last] + 1
  BY <1>2 DEF Behind
<1>4. pc' = "done" => LastRow' = Ends[last]
  BY <1>1, <1>2 DEF LastRow
<1>5. InPlace'
  BY <1>1, <1>2, <1>3 DEF InPlace
<1>6. NoGap'
  <2> DEFINE top == Ends[last]
  <2>1. top \in Nat
    BY OrderlyFacts
  <2>2. \A r \in 0 .. top : (Chars(r, r + 1))' > 1 => Held(r)'
    BY DEF Chars
  <2>3. Behind' = top + 1 /\ (pc' = "done" => LastRow' = top)
    BY <1>3, <1>4
  <2> HIDE DEF top
  <2>4. 0 .. top = 0 .. (top + 1) - 1
    BY <2>1
  <2>5. Covered(Behind)'
    BY <2>2, <2>3, <2>4 DEF Covered
  <2>6. pc' = "done" => Covered(LastRow + 1)'
    BY <2>2, <2>3, <2>4 DEF Covered
  <2> QED
    BY <1>1, <2>5, <2>6 DEF NoGap
<1> QED
  BY <1>1, <1>5, <1>6

LEMMA WindowClean == ASSUME CInv, WorkInv, Window PROVE CInv'
<1>1. PICK last \in DOMAIN Ends :
        /\ Packs(last)
        /\ Emit(start, Ends[last] + 1)
        /\ node' = last
        /\ Proceed(last)
        /\ UNCHANGED <<file, at, limit>>
  BY DEF Window
<1>2. TypeOK /\ TypeOK' /\ Orderly' = Orderly
  BY <1>1, WindowType DEF CInv, Orderly, Ends, Chars
<1>3. ASSUME Orderly PROVE (InPlace /\ NoGap /\ HasContent)' /\ pc' # "panicked"
  <2>1. /\ pc = "code" /\ file.code
        /\ start <= Ends[node + 1] /\ start <= Behind /\ Covered(Behind) /\ HasContent
    BY <1>1, <1>3 DEF CInv, InPlace, NoGap, Packs
  <2>2. /\ start <= Ends[last]
        /\ last < Len(Ends) => start < Ends[last] \/ Ends[last] < Ends[last + 1]
    BY <1>1, <1>2, <1>3, <2>1, PackStops
  <2>3. last \in 1 .. Len(Ends) /\ Ends[last] \in Nat /\ start \in Nat
    <3>1. last \in 1 .. Len(Ends)
      BY <1>2, FileFacts
    <3> QED
      BY <1>2, <1>3, <2>1, <3>1, OrderlyFacts DEF TypeOK
  <2>4. Behind \in Nat
    <3>1. node \in 0 .. Len(Ends) /\ Len(Ends) \in Nat
      BY <1>2, FileFacts DEF TypeOK
    <3>2. node # 0 => Ends[node] \in Nat
      BY <1>2, <3>1, FileFacts
    <3> QED
      BY <3>2 DEF Behind
  <2>5. HasContent' /\ \A r \in 0 .. Ends[last] : Chars(r, r + 1) > 1 => Held(r)'
    <3> DEFINE to == Ends[last] + 1
    <3>1. to \in Nat /\ start < to /\ Emit(start, to) /\ 0 .. Ends[last] = 0 .. to - 1
      BY <1>1, <2>2, <2>3
    <3> HIDE DEF to
    <3>2. HasContent' /\ \A r \in 0 .. to - 1 : Chars(r, r + 1) > 1 => Held(r)'
      BY <1>2, <2>1, <2>3, <2>4, <3>1, CoveredEmit
    <3> QED
      BY <3>1, <3>2
  <2> QED
    BY <1>1, <1>2, <1>3, <2>1, <2>2, <2>3, <2>5, ProceedClean
<1> QED
  BY <1>2, <1>3 DEF CInv

LEMMA OversizedClean == ASSUME CInv, OversizedWindow PROVE CInv'
<1>1. PICK last \in DOMAIN Ends :
        /\ Packs(last)
        /\ node' = last /\ pc' = "split" /\ at' = start
        /\ limit' = SplitLimit(Ends[last])
        /\ UNCHANGED <<file, start, chunks>>
  BY DEF OversizedWindow
<1>2. TypeOK /\ TypeOK' /\ Orderly' = Orderly
  BY OversizedType, <1>1 DEF CInv, Orderly, Ends, Chars
<1>3. ASSUME Orderly PROVE (InPlace /\ NoGap /\ HasContent)'
  <2>1. /\ pc = "code" /\ file.code
        /\ start <= Ends[node + 1] /\ start <= Behind /\ Covered(Behind) /\ HasContent
    BY <1>1, <1>3 DEF CInv, InPlace, NoGap, Packs
  <2>2. /\ start <= Ends[last]
        /\ last < Len(Ends) => start < Ends[last] \/ Ends[last] < Ends[last + 1]
    BY <1>1, <1>2, <1>3, <2>1, PackStops
  <2>3. last > 0 /\ start \in Nat /\ Ends' = Ends
    BY <1>1, <1>2, FileFacts DEF TypeOK, Ends
  <2>4. Behind \in Nat
    <3>1. node \in 0 .. Len(Ends) /\ Len(Ends) \in Nat
      BY <1>2, FileFacts DEF TypeOK
    <3>2. node # 0 => Ends[node] \in Nat
      BY <1>2, <3>1, FileFacts
    <3> QED
      BY <3>2 DEF Behind
  <2>5. InPlace'
    BY <1>1, <2>1, <2>2, <2>3 DEF InPlace, SplitLimit, Chars
  <2>6. Covered(start)' /\ start' = start
    BY <1>1, <2>1, <2>3, <2>4, CoveredFrame
  <2> QED
    BY <1>1, <2>1, <2>5, <2>6 DEF NoGap, HasContent, Covered
<1> QED
  BY <1>1, <1>2, <1>3 DEF CInv

LEMMA TextWindowClean == ASSUME CInv, WorkInv, TextWindow PROVE CInv'
<1>1. PICK to \in at + 1 .. limit :
        /\ at \in Nat /\ limit \in 0 .. file.rows /\ to \in 1 .. file.rows
        /\ Emit(at, to)
        /\ IF to < limit
           THEN at' = NextStart(at, to) /\ UNCHANGED <<pc, start>>
           ELSE /\ to = limit
                /\ UNCHANGED at
                /\ IF pc = "text" THEN pc' = "done" /\ UNCHANGED start
                   ELSE Proceed(node)
        /\ UNCHANGED <<file, node, limit>>
  BY TextWindowFacts DEF CInv
<1>2. /\ TypeOK /\ TypeOK' /\ Orderly' = Orderly /\ Ends' = Ends
      /\ pc \in {"text", "split"} /\ file' = file
  BY <1>1, TextWindowType DEF CInv, WorkInv, Spent, Orderly, Ends, Chars, TextWindow
<1>3. to \in Nat /\ at < to
  <2>1. file.rows \in Nat
    BY <1>2, FileFacts
  <2> QED
    BY <1>1, <2>1
<1>4. ASSUME Orderly PROVE (InPlace /\ NoGap /\ HasContent)' /\ pc' # "panicked"
  <2>1. InPlace /\ Covered(at) /\ HasContent
    BY <1>2, <1>4 DEF CInv, NoGap
  <2>2. HasContent' /\ \A r \in 0 .. to - 1 : Chars(r, r + 1) > 1 => Held(r)'
    BY <1>1, <1>2, <1>3, <2>1, CoveredEmit
  <2>3. CASE to < limit
    <3>1. at' \in at + 1 .. to /\ pc' = pc
      BY <1>1, <1>3, <2>3, NextStartBounds
    <3>2. Covered(at)'
      <4>1. at' \in Int /\ at' <= to
        BY <1>1, <1>3, <3>1
      <4>2. \A n \in Int : n <= to => \A r \in 0 .. n - 1 : r \in 0 .. to - 1
        BY <1>3
      <4> QED
        BY <1>2, <2>2, <4>1, <4>2 DEF Covered, Chars
    <3>3. InPlace'
      BY <1>1, <1>2, <2>1, <2>3 DEF InPlace, SplitLimit, Chars
    <3> QED
      BY <1>2, <2>2, <3>1, <3>2, <3>3 DEF NoGap
  <2>4. CASE ~(to < limit) /\ pc = "text"
    <3>1. pc' = "done" /\ to = file.rows /\ LastRow' + 1 = to
      <4>1. ~(file.code /\ Ends # <<>>) /\ limit = file.rows /\ file.rows \in Nat
        BY <1>2, <2>1, <2>4, FileFacts DEF InPlace
      <4> QED
        BY <1>1, <1>2, <2>4, <4>1 DEF LastRow
    <3>2. Covered(LastRow + 1)'
      BY <1>2, <2>2, <3>1 DEF Covered, Chars
    <3> QED
      BY <2>2, <3>1, <3>2 DEF InPlace, NoGap
  <2>5. CASE ~(to < limit) /\ pc = "split"
    <3>1. /\ file.code /\ node > 0 /\ start <= Ends[node]
          /\ node < Len(Ends) => start < Ends[node] \/ Ends[node] < Ends[node + 1]
          /\ to = SplitLimit(Ends[node])
          /\ Proceed(node) /\ node' = node
      BY <1>1, <2>1, <2>5 DEF InPlace
    <3>2. node \in 1 .. Len(Ends)
      BY <1>2, <3>1, FileFacts DEF TypeOK
    <3>3. Ends[node] \in Nat
      BY <1>2, <3>2, FileFacts
    <3>4. ASSUME NEW r \in 0 .. Ends[node], Chars(r, r + 1) > 1
          PROVE  Held(r)'
      <4>1. r \in 0 .. to - 1
        BY <3>1, <3>3, <3>4, SplitRows
      <4> QED
        BY <2>2, <3>4, <4>1
    <3>5. (InPlace /\ NoGap)' /\ pc' # "panicked"
      BY <1>2, <1>4, <3>1, <3>2, <3>4, ProceedClean
    <3> QED
      BY <2>2, <3>5
  <2> QED
    BY <1>2, <2>3, <2>4, <2>5
<1> QED
  BY <1>2, <1>4 DEF CInv

LEMMA CleanInvariance == Spec => []CInv
<1>1. ASSUME CInv, WorkInv, [Next]_vars PROVE CInv'
  <2>1. CASE Panic
    <3>1. TypeOK'
      BY <1>1, <2>1 DEF Panic, CInv, TypeOK, Ends
    <3>2. Orderly' = Orderly /\ TypeOK
      BY <1>1, <2>1 DEF Panic, CInv, Orderly, Ends, Chars
    <3>3. ~Orderly
      <4>1. SUFFICES ASSUME Orderly PROVE FALSE
        OBVIOUS
      <4>2. PICK last \in DOMAIN Ends : Packs(last) /\ PackTraps(last)
        BY <2>1 DEF Panic
      <4>3. file.code /\ start <= Ends[node + 1]
        BY <1>1, <4>1, <4>2 DEF CInv, InPlace, Packs
      <4> QED
        BY <3>2, <4>1, <4>2, <4>3, PackStops
    <3> QED
      BY <3>1, <3>2, <3>3 DEF CInv
  <2>2. CASE Returned \/ UNCHANGED vars
    <3>1. UNCHANGED vars
      BY <2>2 DEF Returned
    <3> QED
      BY <1>1, <3>1 DEF vars, CInv, TypeOK, Orderly, InPlace, NoGap, HasContent, Covered, Held,
         Behind, LastRow, SplitLimit, Chars, Ends
  <2> QED
    BY <1>1, <2>1, <2>2, WindowClean, OversizedClean, TextWindowClean DEF Next
<1> QED
  BY <1>1, InitClean, WorkInvariance, PTL DEF Spec

\* On an orderly file the arithmetic of chunk_code stays in range (no
\* subtraction at chunker.rs:170 or 179 goes below zero, no row range at
\* chunker.rs:157 is out of bounds), and every chunk has content.
THEOREM CleanSplit == Spec => []SplitsCleanly
<1>1. CInv => SplitsCleanly
  BY DEF CInv, SplitsCleanly
<1> QED
  BY <1>1, CleanInvariance, PTL

\* On an orderly file every row with text up to the last node is in some chunk,
\* whatever the sizes of rows, nodes, windows and overlap.
THEOREM NoTextLost == Spec => []NothingLost
<1>1. CInv => NothingLost
  <2> SUFFICES ASSUME CInv, Orderly, pc = "done", NEW r \in 0 .. LastRow, Chars(r, r + 1) > 1
               PROVE  Held(r)
    BY DEF NothingLost
  <2>1. Covered(LastRow + 1)
    BY DEF CInv, NoGap
  <2>2. LastRow \in Int
    <3>1. /\ file.rows \in Nat /\ Len(Ends) \in Nat
          /\ Ends # <<>> => Len(Ends) \in 1 .. Len(Ends)
      BY FileFacts DEF CInv
    <3>2. Ends # <<>> => Ends[Len(Ends)] \in Int
      BY <3>1, FileFacts DEF CInv
    <3> QED
      BY <3>1, <3>2 DEF LastRow
  <2>3. 0 .. LastRow = 0 .. (LastRow + 1) - 1
    BY <2>2
  <2> QED
    BY <2>1, <2>3 DEF Covered
<1> QED
  BY <1>1, CleanInvariance, PTL
============================================================================
