------------------------------ MODULE Chunker ------------------------------
(***************************************************************************)
(* chunk_file, chunk_code and chunk_text of src/src/chunker.rs: how a file *)
(* is cut into overlapping windows of rows, one step per window.           *)
(*                                                                         *)
(* Data abstraction.  Of a file there are its rows, the number of bytes    *)
(* before each (line breaks counted), and the rows on which its top-level  *)
(* syntax nodes end, in order.  A chunk is the rows from `from` up to, not *)
(* including, `to`; its content is theirs.                                 *)
(***************************************************************************)
EXTENDS Integers, Sequences

CONSTANTS
    Files,         \* the files a run may be given
    ChunkLines, OverlapLines, MaxChars,  \* ChunkingConfig
    Checked,       \* arithmetic is checked (a debug build) or it wraps
    WordSize       \* how many values a usize has

\* rows, offset[r]: bytes before row r, code: a parser knows the extension,
\* ends: the rows of node.end_position().  A node that includes the last line
\* break ends on the row after the last.
IsFile(f) ==
    /\ f.rows \in Nat
    /\ f.rows < WordSize
    /\ f.offset \in [0 .. f.rows -> Nat]
    /\ \A r, s \in 0 .. f.rows : r < s => f.offset[r] < f.offset[s]
    /\ f.code \in BOOLEAN
    /\ f.ends \in Seq(0 .. f.rows)
    /\ \A i, j \in DOMAIN f.ends : i <= j => f.ends[i] <= f.ends[j]

ASSUME ChunkerAssumption ==
    /\ {ChunkLines, MaxChars} \subseteq Nat \ {0}
    /\ OverlapLines \in Nat
    /\ Checked \in BOOLEAN
    /\ WordSize \in Nat
    /\ \A f \in Files : IsFile(f)

VARIABLES
    file,    \* the argument of chunk_file
    pc,      \* "code" and "text": in the loop of that function; "split": in
             \* the one of chunk_text, called by chunk_code; "done", "panicked"
    start,   \* start_line of chunk_code
    node,    \* node_idx: nodes in the windows so far
    at,      \* start of chunk_text, as a row of the file
    limit,   \* lines.len() of chunk_text, as a row of the file
    chunks

vars == <<file, pc, start, node, at, limit, chunks>>

Ends == file.ends
Chars(from, to) == file.offset[to] - file.offset[from]

Init ==
    /\ file \in Files
    /\ pc = IF file.rows = 0 THEN "done"
            ELSE IF file.code /\ Ends # <<>> THEN "code" ELSE "text"
    /\ start = 0 /\ node = 0
    /\ at = 0 /\ limit = file.rows
    /\ chunks = <<>>

Emit(from, to) == chunks' = Append(chunks, [from |-> from, to |-> to])

\* Mutants of NextStart: the overlap alone, and the same without saturation.
NextStartOverlap(from, to) == IF to > OverlapLines THEN to - OverlapLines ELSE 0
NextStartSigned(from, to) == to - OverlapLines

\* The window after rows from .. to - 1 repeats some, but starts later.
NextStart(from, to) ==
    IF to > OverlapLines + from + 1 THEN to - OverlapLines ELSE from + 1
----------------------------------------------------------------------------
(* chunk_code: windows of whole top-level nodes.                           *)

\* end - start + 1 on usize.
Wrapped(n) == IF n < 0 THEN n + WordSize ELSE n
WindowLines(end) == Wrapped(end + 1 - start)

\* The subtraction overflows, or the range lines[start..=end] is not one.
Traps(end) ==
    \/ Checked /\ end < start
    \/ end + 1 < start
    \/ end >= file.rows

\* Mutant of TooBig: the characters are not counted.
TooBigInLines(end) == WindowLines(end) > ChunkLines

TooBig(end) == WindowLines(end) > ChunkLines \/ Chars(start, end + 1) > MaxChars

\* The inner loop goes on to node i, unless that traps.
Takes(i) == ~Traps(Ends[i]) /\ ~TooBig(Ends[i])

\* It takes the nodes up to `last`.
Packs(last) ==
    /\ pc = "code"
    /\ last \in node + 1 .. Len(Ends)
    /\ \A i \in node + 2 .. last : Takes(i)
    /\ last < Len(Ends) => ~Takes(last + 1)

\* One of the ranges that it, or the code after it, computes traps.
PackTraps(last) ==
    \/ Traps(Ends[last])
    \/ last < Len(Ends) /\ Traps(Ends[last + 1])

Panic ==
    /\ \E last \in DOMAIN Ends : Packs(last) /\ PackTraps(last)
    /\ pc' = "panicked"
    /\ UNCHANGED <<file, start, node, at, limit, chunks>>

\* Mutant of Proceed: the next window does not reach back.
ProceedAfter(last) ==
    IF last = Len(Ends)
    THEN pc' = "done" /\ UNCHANGED start
    ELSE pc' = "code" /\ start' = Ends[last] + 1

\* The window up to node `last` is done.
Proceed(last) ==
    IF last = Len(Ends)
    THEN pc' = "done" /\ UNCHANGED start
    ELSE pc' = "code" /\ start' = NextStart(start, Ends[last] + 1)

Window ==
    \E last \in DOMAIN Ends :
        /\ Packs(last) /\ ~PackTraps(last)
        /\ ~TooBig(Ends[last])
        /\ Emit(start, Ends[last] + 1)
        /\ node' = last
        /\ Proceed(last)
        /\ UNCHANGED <<file, at, limit>>

\* Mutant of SplitLimit: the last row of an oversized window is left out.
SplitLimitShort(end) == IF end > start THEN end ELSE end + 1

\* chunk_text's lines() does not see a last row that is empty.
SplitLimit(end) == IF Chars(end, end + 1) = 1 THEN end ELSE end + 1

\* A window over the budget is handed to chunk_text.
OversizedWindow ==
    \E last \in DOMAIN Ends :
        LET end == Ends[last] IN
        /\ Packs(last) /\ ~PackTraps(last)
        /\ TooBig(end)
        /\ node' = last
        /\ pc' = "split"
        /\ at' = start
        /\ limit' = SplitLimit(end)
        /\ UNCHANGED <<file, start, chunks>>
----------------------------------------------------------------------------
(* chunk_text: windows of rows.                                            *)

\* The first row is taken whatever its length.
Fills(to) == to = at + 1 \/ (to - at <= ChunkLines /\ Chars(at, to) <= MaxChars)

TextWindow ==
    /\ pc \in {"text", "split"}
    /\ \E to \in at + 1 .. limit :
        /\ Fills(to)
        /\ to < limit => ~Fills(to + 1)
        /\ Emit(at, to)
        /\ IF to < limit
           THEN at' = NextStart(at, to) /\ UNCHANGED <<pc, start>>
           ELSE /\ UNCHANGED at
                /\ IF pc = "text" THEN pc' = "done" /\ UNCHANGED start ELSE Proceed(node)
    /\ UNCHANGED <<file, node, limit>>

\* The call has returned, or its task has panicked.
Returned == pc \in {"done", "panicked"} /\ UNCHANGED vars

Next == Window \/ OversizedWindow \/ Panic \/ TextWindow \/ Returned

Spec == Init /\ [][Next]_vars
----------------------------------------------------------------------------
TypeOK ==
    /\ IsFile(file)
    /\ pc \in {"code", "text", "split", "done", "panicked"}
    /\ start \in Nat /\ at \in Nat
    /\ node \in 0 .. Len(Ends)
    /\ limit \in 0 .. file.rows
    /\ chunks \in Seq([from : Nat, to : 0 .. file.rows])

\* chunker.rs:18-25: every chunk keeps to both budgets, those of an oversized
\* node too; only a row that is too long by itself makes a longer one.
WithinBudget ==
    \A i \in DOMAIN chunks :
        LET c == chunks[i] IN
        c.to <= c.from + 1 \/ (c.to - c.from <= ChunkLines /\ Chars(c.from, c.to) <= MaxChars)

\* What chunk_code relies on: no node ends past the last row; and where two
\* nodes end on one row, windows overlap and the row alone is within budget.
Orderly ==
    file.code =>
        /\ \A i \in DOMAIN Ends : Ends[i] < file.rows
        /\ \A i \in DOMAIN Ends \ {1} :
            Ends[i] = Ends[i - 1] =>
                OverlapLines > 0 /\ Chars(Ends[i], Ends[i] + 1) <= MaxChars

\* chunker.rs:18: a file is split into chunks that can be embedded: on an
\* orderly file the call does not panic, in a build that checks overflow
\* either, and no chunk is without content.
HasContent == \A i \in DOMAIN chunks : chunks[i].from < chunks[i].to

SplitsCleanly == Orderly => pc # "panicked" /\ HasContent

\* chunker.rs:416 (the gaps its test looks for in chunk_text): on an orderly
\* file no text is lost: every row that is not empty is in a chunk, up to the
\* end of the last node, after which there is only white space.
LastRow == IF file.code /\ Ends # <<>> THEN Ends[Len(Ends)] ELSE file.rows - 1

Held(r) == \E i \in DOMAIN chunks : r \in chunks[i].from .. chunks[i].to - 1

NothingLost ==
    Orderly /\ pc = "done" =>
        \A r \in 0 .. LastRow : Chars(r, r + 1) > 1 => Held(r)

\* chunker.rs:316: the loops end whatever the configuration, also where a
\* window repeats more rows than it holds: chunk_text makes no more chunks than
\* there are rows, and chunk_code calls it at most once for each node.
BoundedWork == Len(chunks) <= file.rows * (IF file.code /\ Ends # <<>> THEN Len(Ends) ELSE 1)
----------------------------------------------------------------------------
(* The inductive invariants behind SplitsCleanly and NothingLost, on an     *)
(* orderly file, and behind BoundedWork, on any.                            *)

\* The rows that the windows so far reach.
Behind == IF node = 0 THEN 0 ELSE Ends[node] + 1

\* The next window begins no later than where the last ended, and holds the
\* end of the next node; also if chunk_text has still to return first.
InPlace ==
    /\ pc \in {"code", "split"} => file.code
    /\ pc = "code" => node < Len(Ends) /\ start <= Ends[node + 1] /\ start <= Behind
    /\ pc = "split" =>
        /\ node > 0
        /\ start <= Ends[node]
        /\ node < Len(Ends) => start < Ends[node] \/ Ends[node] < Ends[node + 1]
        /\ limit = SplitLimit(Ends[node])
    /\ pc = "text" => limit = file.rows /\ ~(file.code /\ Ends # <<>>)

Covered(n) == \A r \in 0 .. n - 1 : Chars(r, r + 1) > 1 => Held(r)

NoGap ==
    /\ pc = "code" => Covered(Behind)
    /\ pc \in {"split", "text"} => Covered(at)
    /\ pc = "done" => Covered(LastRow + 1)

CInv == TypeOK /\ (Orderly => InPlace /\ NoGap /\ HasContent /\ pc # "panicked")

\* Every chunk stands for a row of its own in the pass of its node.
Spent ==
    /\ pc # "done" => file.rows > 0
    /\ pc = "code" => Len(chunks) <= node * file.rows
    /\ pc = "split" => node > 0 /\ Len(chunks) <= (node - 1) * file.rows + at
    /\ pc = "text" => Len(chunks) <= at /\ ~(file.code /\ Ends # <<>>)
    /\ pc \in {"code", "split"} => file.code /\ Ends # <<>>
============================================================================
