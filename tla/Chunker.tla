------------------------------ MODULE Chunker ------------------------------
(***************************************************************************)
(* How chunker.rs cuts one file into chunks, one loop iteration per step:  *)
(* a Symbol chunk for each span the parser reports, then the remaining     *)
(* lines, run by run, in Module chunks bounded in lines and bytes; or      *)
(* overlapping Windows when the language has no parser.                    *)
(*                                                                         *)
(* A line is its length in bytes with the newline that joins it to the     *)
(* next one, and whether it is blank.  Chunks are line spans: the body of  *)
(* a chunk is the lines of its span.                                       *)
(***************************************************************************)
EXTENDS Integers, Sequences

CONSTANTS
  Lines,          \* the lines a file may have: [bytes, blank]
  MaxFileLines,   \* bound: lines of the file
  MaxSymbols,     \* bound: spans the parser reports
  MaxChunkLines, MaxChunkBytes, WindowLines, WindowOverlap

ASSUME CapAssumption ==
  /\ Lines \subseteq [bytes : Nat \ {0}, blank : BOOLEAN]
  /\ MaxFileLines \in Nat /\ MaxSymbols \in Nat
  /\ MaxChunkLines \in Nat \ {0} /\ MaxChunkBytes \in Nat \ {0}
  /\ WindowLines \in Nat \ {0} /\ WindowOverlap \in 0..(WindowLines - 1)

VARIABLES
  file,      \* the lines
  parsed,    \* its language has a parser
  spans,     \* the spans of parse_source_spans that are still to do
  at,        \* the loop the chunker is in
  covered,   \* lines covered by a symbol
  chunks,    \* the chunks so far
  scan,      \* the line the outer loop is at, or the start of the next window
  runStart,  \* start of the open run of uncovered lines, 0 if there is none
  segStart, line, back, runEnd, lineCount, byteCount, lastBlank  \* split_module_run

input    == <<file, parsed>>
splitter == <<segStart, line, back, runEnd, lineCount, byteCount, lastBlank>>
vars     == <<input, spans, at, covered, chunks, scan, runStart, splitter>>

Places == {"symbols", "scan", "split", "back", "windows", "done"}
Total  == Len(file)

Chunk(kind, from, to) == [kind |-> kind, start |-> from, end |-> to]
LinesOf(c)  == c.start .. c.end
ModuleChunks == {i \in 1..Len(chunks) : chunks[i].kind = "Module"}

(* A symbol begins on a line of the file; it may end with the newline that  *)
(* ends the file.                                                           *)
ReportedSpans(n) == {s \in (1..n) \X (1..n + 1) : s[1] <= s[2]}

BoundedSeq(S, n) == UNION {[1..k -> S] : k \in 0..n}

Init ==
  /\ file \in BoundedSeq(Lines, MaxFileLines)
  /\ parsed \in BOOLEAN
  /\ spans \in IF parsed THEN BoundedSeq(ReportedSpans(Len(file)), MaxSymbols) ELSE {<<>>}
  /\ at = IF parsed THEN "symbols" ELSE IF file = <<>> THEN "done" ELSE "windows"
  /\ covered = {}
  /\ chunks = <<>>
  /\ scan = 1
  /\ runStart = 0
  /\ segStart = 0 /\ line = 0 /\ back = 0 /\ runEnd = 0
  /\ lineCount = 0 /\ byteCount = 0 /\ lastBlank = 0

------------------------------------------------------------------------------

(* A slip: the end of the span is not clamped to the file. *)
ClampedStart(s) == <<s[1], s[2]>>

(* The span clamped to the lines of the file. *)
Clamped(s) ==
  LET end == IF s[2] <= Total THEN s[2] ELSE Total
  IN  <<s[1], IF end >= s[1] THEN end ELSE s[1]>>

(* A slip: the guard against two symbols with one span is missing. *)
EmitEverySymbol ==
  /\ at = "symbols"
  /\ spans # <<>>
  /\ LET s == Clamped(Head(spans)) IN
       /\ covered' = covered \union (s[1]..s[2])
       /\ chunks' = Append(chunks, Chunk("Symbol", s[1], s[2]))
  /\ spans' = Tail(spans)
  /\ UNCHANGED <<input, at, scan, runStart, splitter>>

(* One span: a second symbol with the span of an earlier one is skipped. *)
EmitSymbol ==
  /\ at = "symbols"
  /\ spans # <<>>
  /\ LET s == Clamped(Head(spans)) IN
       IF \E i \in 1..Len(chunks) : <<chunks[i].start, chunks[i].end>> = s
         THEN UNCHANGED <<covered, chunks>>
         ELSE /\ covered' = covered \union (s[1]..s[2])
              /\ chunks' = Append(chunks, Chunk("Symbol", s[1], s[2]))
  /\ spans' = Tail(spans)
  /\ UNCHANGED <<input, at, scan, runStart, splitter>>

SymbolsDone ==
  /\ at = "symbols"
  /\ spans = <<>>
  /\ at' = "scan"
  /\ UNCHANGED <<input, spans, covered, chunks, scan, runStart, splitter>>

(* split_module_run is called for the run from..to. *)
EnterSplit(from, to) ==
  /\ at' = "split"
  /\ segStart' = from /\ line' = from /\ runEnd' = to /\ back' = 0
  /\ lineCount' = 0 /\ byteCount' = 0 /\ lastBlank' = 0

(* A slip: a run is closed by a covered line only. *)
ScanToCovered ==
  /\ at = "scan"
  /\ scan <= Total
  /\ scan' = scan + 1
  /\ LET start == IF runStart = 0 /\ scan \notin covered THEN scan ELSE runStart IN
       IF start # 0 /\ scan \in covered
         THEN runStart' = 0 /\ EnterSplit(start, scan - 1)
         ELSE runStart' = start /\ UNCHANGED <<at, splitter>>
  /\ UNCHANGED <<input, spans, covered, chunks>>

(* One line of the outer loop: it opens a run, or closes one at a covered   *)
(* line or at the last line of the file.                                    *)
ScanLine ==
  /\ at = "scan"
  /\ scan <= Total
  /\ scan' = scan + 1
  /\ LET start == IF runStart = 0 /\ scan \notin covered THEN scan ELSE runStart IN
       IF start # 0 /\ (scan \in covered \/ scan = Total)
         THEN /\ runStart' = 0
              /\ EnterSplit(start, IF scan \in covered THEN scan - 1 ELSE scan)
         ELSE runStart' = start /\ UNCHANGED <<at, splitter>>
  /\ UNCHANGED <<input, spans, covered, chunks>>

ScanDone ==
  /\ at = "scan"
  /\ scan > Total
  /\ at' = "done"
  /\ UNCHANGED <<input, spans, covered, chunks, scan, runStart, splitter>>

------------------------------------------------------------------------------

(* A slip: an off-by-one in the line cap. *)
OverflowsLate ==
  /\ lineCount > 0
  /\ lineCount > MaxChunkLines \/ byteCount + file[line].bytes > MaxChunkBytes

(* would_overflow: `line` does not fit into the segment, which is not empty. *)
Overflows ==
  /\ lineCount > 0
  /\ lineCount + 1 > MaxChunkLines \/ byteCount + file[line].bytes > MaxChunkBytes

(* Line l is accounted to the segment. *)
Count(l) ==
  /\ lineCount' = lineCount + 1
  /\ byteCount' = byteCount + file[l].bytes
  /\ lastBlank' = IF file[l].blank THEN l ELSE lastBlank

TakeLine ==
  /\ at = "split"
  /\ line <= runEnd
  /\ ~ Overflows
  /\ Count(line)
  /\ line' = line + 1
  /\ UNCHANGED <<input, spans, at, covered, chunks, scan, runStart, segStart, back, runEnd>>

(* A slip: a segment that begins with its last blank line has none. *)
SegEndBeyondStart == IF lastBlank > segStart THEN lastBlank ELSE line - 1

(* The last blank line of the segment, or the line before `line` if it has none. *)
SegEnd == IF lastBlank >= segStart THEN lastBlank ELSE line - 1

Cut ==
  /\ at = "split"
  /\ line <= runEnd
  /\ Overflows
  /\ chunks' = Append(chunks, Chunk("Module", segStart, SegEnd))
  /\ segStart' = SegEnd + 1
  /\ back' = SegEnd + 1
  /\ lineCount' = 0 /\ byteCount' = 0 /\ lastBlank' = 0
  /\ at' = "back"
  /\ UNCHANGED <<input, spans, covered, scan, runStart, line, runEnd>>

(* The lines between the cut and `line` are carried over, accounted anew. *)
CountBack ==
  /\ at = "back"
  /\ back < line
  /\ Count(back)
  /\ back' = back + 1
  /\ UNCHANGED <<input, spans, at, covered, chunks, scan, runStart, segStart, line, runEnd>>

(* And `line` joins them, whatever they add up to by now. *)
TakeAfterCut ==
  /\ at = "back"
  /\ back = line
  /\ Count(line)
  /\ line' = line + 1
  /\ at' = "split"
  /\ UNCHANGED <<input, spans, covered, chunks, scan, runStart, segStart, back, runEnd>>

(* The trailing segment; back to the outer loop. *)
FlushTail ==
  /\ at = "split"
  /\ line > runEnd
  /\ at' = "scan"
  /\ chunks' = IF lineCount > 0 THEN Append(chunks, Chunk("Module", segStart, runEnd))
                                ELSE chunks
  /\ UNCHANGED <<input, spans, covered, scan, runStart, splitter>>

------------------------------------------------------------------------------

(* A slip: the windows do not overlap. *)
NoStride == WindowLines

Stride == WindowLines - WindowOverlap

(* One window; the last one reaches the end of the file. *)
Window ==
  /\ at = "windows"
  /\ LET end == IF scan + WindowLines - 1 <= Total THEN scan + WindowLines - 1 ELSE Total IN
       /\ chunks' = Append(chunks, Chunk("Window", scan, end))
       /\ IF end >= Total THEN at' = "done" /\ UNCHANGED scan
                          ELSE scan' = scan + Stride /\ UNCHANGED at
  /\ UNCHANGED <<input, spans, covered, runStart, splitter>>

Done == at = "done" /\ UNCHANGED vars

Next ==
  \/ EmitSymbol
  \/ SymbolsDone
  \/ ScanLine
  \/ ScanDone
  \/ TakeLine
  \/ Cut
  \/ CountBack
  \/ TakeAfterCut
  \/ FlushTail
  \/ Window
  \/ Done

Spec == Init /\ [][Next]_vars

------------------------------------------------------------------------------

(* Every variable has its type, and no chunk reaches beyond the file. *)
TypeOK ==
  /\ file \in Seq(Lines)
  /\ parsed \in BOOLEAN
  /\ spans \in Seq(Nat \X Nat)
  /\ at \in Places
  /\ covered \subseteq 1..Total
  /\ chunks \in Seq([kind : {"Symbol", "Module", "Window"}, start : 1..Total, end : 1..Total])
  /\ scan \in Nat /\ runStart \in Nat
  /\ segStart \in Nat /\ line \in Nat /\ back \in Nat /\ runEnd \in Nat
  /\ lineCount \in Nat /\ byteCount \in Nat /\ lastBlank \in Nat

(***************************************************************************)
(* No two chunks of a file have one span, hence one chunk id: it is the    *)
(* primary key of chunks, and a duplicate makes the insert fail and drops  *)
(* the whole file from the index (chunk_ids_pairwise_distinct).            *)
(* ChunkFileAssumption of IndexStore relies on it.                         *)
(***************************************************************************)
SpansDistinct ==
  \A i, j \in 1..Len(chunks) :
    chunks[i].start = chunks[j].start /\ chunks[i].end = chunks[j].end => i = j

(***************************************************************************)
(* Every line of the file is searchable in some chunk, and a line outside  *)
(* the symbols in exactly one: nothing is lost or doubled where a segment  *)
(* is cut at an earlier blank line and the lines after it are carried over.*)
(***************************************************************************)
CoversFile ==
  /\ at = "done" => UNION {LinesOf(chunks[i]) : i \in 1..Len(chunks)} = 1..Total
  /\ \A i \in ModuleChunks :
       /\ LinesOf(chunks[i]) \intersect covered = {}
       /\ \A j \in ModuleChunks \ {i} : LinesOf(chunks[i]) \intersect LinesOf(chunks[j]) = {}

\* The bytes of the first l - 1 lines of s.
BytesBefore(s) ==
  LET sum[l \in 1..Len(s) + 1] == IF l = 1 THEN 0 ELSE sum[l - 1] + s[l - 1].bytes IN sum

Bytes(from, to) == BytesBefore(file)[to + 1] - BytesBefore(file)[from]

(***************************************************************************)
(* A cut at a blank line carries lines over and takes one more without a   *)
(* second test.  Yet no Module chunk has more than MAX_CHUNK_LINES lines,  *)
(* and only the last line of one goes beyond MAX_CHUNK_BYTES: what comes   *)
(* before it fits.                                                         *)
(***************************************************************************)
CapsKept ==
  \A i \in ModuleChunks :
    /\ chunks[i].end - chunks[i].start < MaxChunkLines
    /\ Bytes(chunks[i].start, chunks[i].end - 1) <= MaxChunkBytes

(* A run is cut at a blank line if the segment has one: a chunk followed by *)
(* more of its run ends with a blank line or contains none.                 *)
CutsAtBlank ==
  \A i, j \in ModuleChunks :
    chunks[j].start = chunks[i].end + 1 =>
      \/ file[chunks[i].end].blank
      \/ \A l \in LinesOf(chunks[i]) : ~ file[l].blank

(* Each window begins WINDOW_OVERLAP lines before the end of the one before *)
(* it and reaches beyond it: what straddles a seam is whole in one of them, *)
(* and no window is redundant.                                              *)
WindowsOverlap ==
  \A i \in 1..Len(chunks) - 1 : chunks[i].kind = "Window" =>
    /\ chunks[i + 1].start = chunks[i].end - WindowOverlap + 1
    /\ chunks[i + 1].end > chunks[i].end


(***************************************************************************)
(* The test chunk_caps_module_remainder asserts of every Module chunk that *)
(* it has at most MAX_CHUNK_BYTES, and insert_chunk_full_with relies on it *)
(* (storage.rs:251): it embeds and indexes no more of a chunk's text.  A   *)
(* single line that is longer cannot be cut.                               *)
(***************************************************************************)
ModuleBytesBounded ==
  \A i \in ModuleChunks :
    chunks[i].start < chunks[i].end =>
      Bytes(chunks[i].start, chunks[i].end) - 1 <= MaxChunkBytes
=============================================================================
