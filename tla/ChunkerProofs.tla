--------------------------- MODULE ChunkerProofs ---------------------------
(***************************************************************************)
(* The invariants of Chunker, for files of any length, any spans and any   *)
(* caps.  The inductive invariant says where each loop is, what the open   *)
(* segment has accounted, and how far the chunks reach.  A second one, on  *)
(* top of it, says how many bytes the open segment has.                    *)
(***************************************************************************)
EXTENDS Chunker, TLAPS, NaturalsInduction, WellFoundedInduction

Splitting == at \in {"split", "back"}

\* The spans that are still to do lie in the file.
SpansInFile ==
  \A k \in 1..Len(spans) :
    /\ spans[k][1] \in 1..Total
    /\ spans[k][2] \in Nat
    /\ spans[k][1] <= spans[k][2]

\* Where the loops are: an open run has only uncovered lines, and none is open
\* beyond the last line.
Loops ==
  /\ scan \in 1..(Total + 1)
  /\ at = "symbols" => scan = 1
  /\ at = "windows" => scan <= Total
  /\ at = "windows" => ~ parsed
  /\ at \in {"symbols", "scan", "split", "back"} => parsed
  /\ runStart # 0 =>
       /\ at = "scan"
       /\ runStart < scan
       /\ scan <= Total
       /\ \A l \in runStart..(scan - 1) : l \notin covered

\* The line up to which the segment is accounted.
Counted == IF at = "back" THEN back ELSE line

\* split_module_run: its run is maximal, and the counters are those of the lines
\* from segStart to the one before Counted.
Segment ==
  Splitting =>
    /\ segStart \in 1..line
    /\ line <= runEnd + 1
    /\ runEnd < scan
    /\ \A l \in segStart..runEnd : l \notin covered
    /\ \A l \in (runEnd + 1)..(scan - 1) : l \in covered
    /\ runEnd = Total \/ runEnd + 1 \in covered
    /\ Counted \in segStart..line
    /\ lineCount = Counted - segStart
    /\ lineCount <= MaxChunkLines
    /\ at = "back" => line <= runEnd /\ line - segStart < MaxChunkLines
    /\ lastBlank < Counted
    /\ lastBlank # 0 => lastBlank >= segStart /\ file[lastBlank].blank
    /\ \A l \in segStart..(Counted - 1) : l > lastBlank => ~ file[l].blank

\* Every line before the frontier is in a chunk, and no Module chunk reaches it.
Frontier == IF Splitting THEN segStart ELSE IF runStart # 0 THEN runStart ELSE scan

Shapes ==
  \A i \in 1..Len(chunks) :
    /\ chunks[i].start <= chunks[i].end
    /\ chunks[i].kind = "Window" <=> ~ parsed
    /\ chunks[i].kind = "Symbol" => chunks[i].start \in covered
    /\ at = "symbols" => chunks[i].kind = "Symbol"

SymbolsApart ==
  \A i, j \in 1..Len(chunks) :
    /\ chunks[i].kind = "Symbol" /\ chunks[j].kind = "Symbol"
    /\ chunks[i].start = chunks[j].start /\ chunks[i].end = chunks[j].end
    => i = j

ModulesApart ==
  /\ \A i \in ModuleChunks : \A l \in LinesOf(chunks[i]) : l \notin covered
  /\ \A i \in ModuleChunks : chunks[i].end < Frontier
  /\ \A i, j \in ModuleChunks : i < j => chunks[i].end < chunks[j].start

LineCap == \A i \in ModuleChunks : chunks[i].end - chunks[i].start < MaxChunkLines

\* A chunk is followed by the rest of its run only where it was cut.
Seams ==
  \A i \in ModuleChunks :
    \/ file[chunks[i].end].blank
    \/ \A l \in LinesOf(chunks[i]) : ~ file[l].blank
    \/ chunks[i].end = Total
    \/ chunks[i].end + 1 \in covered

InSomeChunk(l) == \E i \in 1..Len(chunks) : l \in LinesOf(chunks[i])

Reached ==
  /\ \A l \in covered : InSomeChunk(l)
  /\ \A l \in 1..Total : l < Frontier => InSomeChunk(l)
  /\ at = "done" => \A l \in 1..Total : InSomeChunk(l)

Windows ==
  ~ parsed =>
    /\ \A i, j \in 1..Len(chunks) : i < j => chunks[i].start < chunks[j].start
    /\ \A i \in 1..(Len(chunks) - 1) :
         /\ chunks[i + 1].start = chunks[i].end - WindowOverlap + 1
         /\ chunks[i + 1].end > chunks[i].end
    /\ at = "windows" => \A i \in 1..Len(chunks) : chunks[i].start < scan
    /\ at = "windows" /\ chunks # <<>> =>
         /\ scan = chunks[Len(chunks)].end - WindowOverlap + 1
         /\ chunks[Len(chunks)].end < Total

IInv ==
  /\ TypeOK
  /\ SpansInFile
  /\ Loops
  /\ Segment
  /\ Shapes
  /\ SymbolsApart
  /\ ModulesApart
  /\ LineCap
  /\ Seams
  /\ Reached
  /\ Windows

ChunkType == [kind : {"Symbol", "Module", "Window"}, start : 1..Total, end : 1..Total]

------------------------------------------------------------------------------

LEMMA Appended ==
  ASSUME NEW S, NEW s \in Seq(S), NEW e \in S
  PROVE  /\ Append(s, e) \in Seq(S)
         /\ Len(Append(s, e)) = Len(s) + 1
         /\ \A i \in 1..Len(s) : Append(s, e)[i] = s[i]
         /\ Append(s, e)[Len(s) + 1] = e
         /\ Append(s, e) # <<>>
OBVIOUS

LEMMA LineType ==
  ASSUME TypeOK
  PROVE  /\ Total \in Nat
         /\ \A l \in 1..Total : file[l].bytes \in Nat /\ file[l].blank \in BOOLEAN
BY CapAssumption DEF TypeOK, Total

LEMMA ChunkTyped ==
  ASSUME TypeOK
  PROVE  /\ Len(chunks) \in Nat
         /\ chunks \in Seq(ChunkType)
         /\ \A i \in 1..Len(chunks) :
              /\ chunks[i].kind \in {"Symbol", "Module", "Window"}
              /\ chunks[i].start \in Nat /\ chunks[i].start >= 1 /\ chunks[i].start <= Total
              /\ chunks[i].end \in Nat /\ chunks[i].end >= 1 /\ chunks[i].end <= Total
<1>1. chunks \in Seq(ChunkType)
  BY DEF TypeOK, ChunkType
<1>2. \A i \in 1..Len(chunks) : chunks[i] \in ChunkType
  BY <1>1
<1>3. Total \in Nat
  BY LineType
<1> QED BY <1>1, <1>2, <1>3 DEF ChunkType

(* Every file, any spans, no chunk yet. *)
LEMMA InitIInv == Init => IInv
<1> SUFFICES ASSUME Init PROVE IInv
  OBVIOUS
<1>1. /\ file \in Seq(Lines)
      /\ parsed \in BOOLEAN
  BY DEF Init, BoundedSeq
<1>2. Total \in Nat
  BY <1>1 DEF Total
<1>3. spans \in Seq(ReportedSpans(Total))
  <2>1. \A S : BoundedSeq(S, MaxSymbols) \subseteq Seq(S)
    BY CapAssumption DEF BoundedSeq
  <2>2. CASE parsed
    BY <2>1, <2>2 DEF Init, Total
  <2>3. CASE ~ parsed
    BY <2>3 DEF Init
  <2> QED BY <2>2, <2>3
<1>4. spans \in Seq(Nat \X Nat) /\ SpansInFile
  <2>1. /\ Len(spans) \in Nat
        /\ \A k \in 1..Len(spans) : spans[k] \in ReportedSpans(Total)
    BY <1>3
  <2>2. \A s \in ReportedSpans(Total) :
          s \in Nat \X Nat /\ s[1] \in 1..Total /\ s[2] \in Nat /\ s[1] <= s[2]
    BY <1>2 DEF ReportedSpans
  <2>3. spans \in Seq(Nat \X Nat)
    BY <1>3, <2>1, <2>2
  <2> QED BY <2>1, <2>2, <2>3 DEF SpansInFile
<1>5. TypeOK
  BY <1>1, <1>4 DEF Init, TypeOK, Places
<1>6. Total = 0 <=> file = <<>>
  BY <1>1 DEF Total
<1>7. Loops
  BY <1>2, <1>6, <1>5 DEF Init, Loops, TypeOK
<1>8. Segment /\ Shapes /\ SymbolsApart /\ ModulesApart /\ LineCap /\ Seams /\ Windows
  BY DEF Init, Segment, Splitting, Shapes, SymbolsApart, ModulesApart, ModuleChunks, LineCap,
         Seams, Windows
<1>9. Reached
  BY <1>2, <1>6 DEF Init, Reached, Frontier, Splitting
<1> QED BY <1>4, <1>5, <1>7, <1>8, <1>9 DEF IInv

(* An action that leaves the chunks, the symbols and the lines alone leaves *)
(* what relates them alone.                                                 *)
LEMMA ChunksKept ==
  ASSUME IInv, UNCHANGED <<file, parsed, covered, chunks>>,
         at' = "symbols" => at = "symbols", at' = "windows" => at = "windows" /\ scan' = scan
  PROVE  Shapes' /\ SymbolsApart' /\ LineCap' /\ Seams' /\ Windows'
<1>1. Shapes'
  BY DEF IInv, Shapes
<1>2. SymbolsApart' /\ LineCap'
  BY DEF IInv, SymbolsApart, LineCap, ModuleChunks
<1>3. Seams'
  BY DEF IInv, Seams, ModuleChunks, LinesOf, Total
<1>4. Windows'
  BY DEF IInv, Windows, Total
<1> QED BY <1>1, <1>2, <1>3, <1>4

(* And if it does not move the frontier back either, the chunks still end   *)
(* before it and the lines before it are still in chunks.                   *)
LEMMA FrontierKept ==
  ASSUME IInv, UNCHANGED <<file, covered, chunks>>, Frontier' = Frontier, at' # "done"
  PROVE  ModulesApart' /\ Reached'
<1>1. ModulesApart'
  BY DEF IInv, ModulesApart, ModuleChunks, LinesOf
<1>2. Reached'
  BY DEF IInv, Reached, InSomeChunk, LinesOf, Total
<1> QED BY <1>1, <1>2

LEMMA SymbolsDoneStep == IInv /\ SymbolsDone => IInv'
<1> SUFFICES ASSUME IInv, SymbolsDone PROVE IInv'
  OBVIOUS
<1>1. /\ at = "symbols" /\ at' = "scan"
      /\ UNCHANGED <<file, parsed, spans, covered, chunks, scan, runStart, segStart, line, back,
                     runEnd, lineCount, byteCount, lastBlank>>
  BY DEF SymbolsDone, input, splitter
<1>2. TypeOK' /\ SpansInFile' /\ Loops' /\ Segment'
  BY <1>1 DEF IInv, TypeOK, SpansInFile, Loops, Segment, Splitting, Places, Total
<1>3. Frontier' = Frontier
  BY <1>1 DEF Frontier, Splitting
<1> QED BY <1>1, <1>2, <1>3, ChunksKept, FrontierKept DEF IInv

LEMMA ScanDoneStep == IInv /\ ScanDone => IInv'
<1> SUFFICES ASSUME IInv, ScanDone PROVE IInv'
  OBVIOUS
<1>1. /\ at = "scan" /\ at' = "done" /\ scan > Total
      /\ UNCHANGED <<file, parsed, spans, covered, chunks, scan, runStart, segStart, line, back,
                     runEnd, lineCount, byteCount, lastBlank>>
  BY DEF ScanDone, input, splitter
<1>2. Total \in Nat /\ scan \in Nat /\ runStart \in Nat
  BY LineType DEF IInv, TypeOK
<1>3. runStart = 0
  BY <1>1, <1>2 DEF IInv, Loops
<1>4. TypeOK' /\ SpansInFile' /\ Loops' /\ Segment'
  BY <1>1, <1>3 DEF IInv, TypeOK, SpansInFile, Loops, Segment, Splitting, Places, Total
<1>5. Frontier = scan /\ Frontier' = scan
  BY <1>1, <1>3 DEF Frontier, Splitting
<1>6. ModulesApart'
  BY <1>1, <1>5 DEF IInv, ModulesApart, ModuleChunks, LinesOf
<1>7. \A l \in 1..Total : InSomeChunk(l)
  BY <1>1, <1>2, <1>5 DEF IInv, Reached
<1>8. Reached'
  BY <1>1, <1>7 DEF IInv, Reached, InSomeChunk, LinesOf, Total
<1> QED BY <1>1, <1>4, <1>6, <1>8, ChunksKept DEF IInv

LEMMA ScanLineStep == IInv /\ ScanLine => IInv'
<1> SUFFICES ASSUME IInv, ScanLine PROVE IInv'
  OBVIOUS
<1> DEFINE start == IF runStart = 0 /\ scan \notin covered THEN scan ELSE runStart
           last  == IF scan \in covered THEN scan - 1 ELSE scan
<1>1. /\ at = "scan" /\ scan <= Total /\ scan' = scan + 1
      /\ UNCHANGED <<file, parsed, spans, covered, chunks>>
      /\ IF start # 0 /\ (scan \in covered \/ scan = Total)
           THEN runStart' = 0 /\ EnterSplit(start, last)
           ELSE runStart' = start /\ UNCHANGED <<at, splitter>>
  BY DEF ScanLine, input
<1>2. Total \in Nat /\ scan \in Nat /\ runStart \in Nat /\ scan >= 1
  BY LineType DEF IInv, TypeOK, Loops
<1>3. /\ Loops
      /\ start \in Nat /\ start <= scan
      /\ start # 0 => \A l \in start..last : l \notin covered
  BY <1>1, <1>2 DEF IInv, Loops
<1>4. TypeOK' /\ SpansInFile'
  <2>1. /\ at' \in Places /\ runStart' \in Nat
        /\ segStart' \in Nat /\ line' \in Nat /\ back' \in Nat /\ runEnd' \in Nat
        /\ lineCount' \in Nat /\ byteCount' \in Nat /\ lastBlank' \in Nat
    <3>1. /\ segStart \in Nat /\ line \in Nat /\ back \in Nat /\ runEnd \in Nat
          /\ lineCount \in Nat /\ byteCount \in Nat /\ lastBlank \in Nat
      BY DEF IInv, TypeOK
    <3>2. last \in Nat
      BY <1>2
    <3> HIDE DEF last
    <3> QED BY <1>1, <1>3, <3>1, <3>2 DEF EnterSplit, splitter, Places
  <2> QED BY SMTT(30), <1>1, <1>2, <2>1 DEF IInv, TypeOK, SpansInFile, Total
<1>5. CASE start # 0 /\ (scan \in covered \/ scan = Total)
  <2>1. /\ runStart' = 0 /\ at' = "split"
        /\ segStart' = start /\ line' = start /\ runEnd' = last /\ back' = 0
        /\ lineCount' = 0 /\ byteCount' = 0 /\ lastBlank' = 0
    BY <1>1, <1>5 DEF EnterSplit
  <2>2. Loops'
    BY <1>1, <1>2, <1>3, <2>1 DEF Loops, Total
  <2>3. start <= last
    BY <1>1, <1>2, <1>3 DEF Loops
  <2>4. Segment'
    BY <1>1, <1>2, <1>3, <1>5, <2>1, <2>3, CapAssumption DEF Segment, Splitting, Counted, Total
  <2>5. Frontier = start /\ Frontier' = start
    BY <1>1, <1>5, <2>1 DEF Frontier, Splitting
  <2> QED BY <1>1, <1>4, <2>1, <2>2, <2>4, <2>5, ChunksKept, FrontierKept DEF IInv
<1>6. CASE ~ (start # 0 /\ (scan \in covered \/ scan = Total))
  <2>1. runStart' = start /\ at' = "scan"
    BY <1>1, <1>6
  <2>2. Loops'
    BY <1>1, <1>2, <1>3, <1>6, <2>1 DEF Loops, Total
  <2>3. Segment'
    BY <2>1 DEF Segment, Splitting
  <2>4. CASE start # 0
    <3>1. Frontier = start /\ Frontier' = start
      BY <1>1, <2>1, <2>4 DEF Frontier, Splitting
    <3> QED BY <1>1, <1>4, <2>1, <2>2, <2>3, <3>1, ChunksKept, FrontierKept DEF IInv
  <2>5. CASE start = 0
    <3>1. Frontier = scan /\ Frontier' = scan + 1 /\ scan \in covered
      BY <1>1, <1>2, <2>1, <2>5 DEF Frontier, Splitting
    <3>2. ModulesApart'
      <4>1. \A i \in ModuleChunks : chunks[i].end \in Nat
        BY ChunkTyped DEF IInv, ModuleChunks
      <4>2. \A i \in ModuleChunks : chunks[i].end < scan
        BY <3>1 DEF IInv, ModulesApart
      <4>3. \A i \in ModuleChunks : chunks[i].end < Frontier'
        BY <1>2, <3>1, <4>1, <4>2
      <4> QED BY <1>1, <4>3 DEF IInv, ModulesApart, ModuleChunks, LinesOf
    <3>3. \A l \in 1..Total : l < scan + 1 => InSomeChunk(l)
      BY <1>2, <3>1 DEF IInv, Reached
    <3>4. Reached'
      BY <1>1, <2>1, <3>1, <3>3 DEF IInv, Reached, InSomeChunk, LinesOf, Total
    <3> QED BY <1>1, <1>4, <2>1, <2>2, <2>3, <3>2, <3>4, ChunksKept DEF IInv
  <2> QED BY <2>4, <2>5
<1> QED BY <1>5, <1>6

LEMMA TakeLineStep == IInv /\ TakeLine => IInv'
<1> SUFFICES ASSUME IInv, TakeLine PROVE IInv'
  OBVIOUS
<1>1. /\ at = "split" /\ line <= runEnd /\ ~ Overflows /\ Count(line) /\ line' = line + 1
      /\ UNCHANGED <<file, parsed, spans, at, covered, chunks, scan, runStart, segStart, back,
                     runEnd>>
  BY DEF TakeLine, input
<1>2. /\ Total \in Nat
      /\ \A l \in 1..Total : file[l].bytes \in Nat /\ file[l].blank \in BOOLEAN
  BY LineType DEF IInv
<1>3. /\ scan \in Nat /\ scan <= Total + 1
      /\ segStart \in Nat /\ line \in Nat /\ runEnd \in Nat
      /\ lineCount \in Nat /\ byteCount \in Nat /\ lastBlank \in Nat
  BY <1>2 DEF IInv, TypeOK, Loops
<1>4. /\ segStart >= 1 /\ segStart <= line /\ runEnd < scan
      /\ lineCount = line - segStart
      /\ lastBlank < line
      /\ lastBlank # 0 => lastBlank >= segStart /\ file[lastBlank].blank
      /\ \A l \in segStart..(line - 1) : l > lastBlank => ~ file[l].blank
  BY <1>1, <1>3 DEF IInv, Segment, Splitting, Counted
<1>5. line \in 1..Total
  BY <1>1, <1>2, <1>3, <1>4
<1>6. /\ lineCount' = lineCount + 1 /\ lineCount' \in Nat /\ byteCount' \in Nat
      /\ lastBlank' = IF file[line].blank THEN line ELSE lastBlank
      /\ lastBlank' \in Nat
  BY <1>1, <1>2, <1>3, <1>5 DEF Count
<1>7. TypeOK' /\ SpansInFile' /\ Loops'
  BY <1>1, <1>3, <1>6 DEF IInv, TypeOK, SpansInFile, Loops, Total
<1>8. lineCount' <= MaxChunkLines
  BY <1>1, <1>3, <1>6, CapAssumption DEF Overflows
<1>9. \A l \in segStart..line : l > lastBlank' => ~ file[l].blank
  BY <1>3, <1>4, <1>6
<1>10. Segment'
  BY <1>1, <1>3, <1>4, <1>5, <1>6, <1>8, <1>9 DEF IInv, Segment, Splitting, Counted, Total
<1>11. Frontier' = Frontier
  BY <1>1 DEF Frontier, Splitting
<1> QED BY <1>1, <1>7, <1>10, <1>11, ChunksKept, FrontierKept DEF IInv

LEMMA CountBackStep == IInv /\ CountBack => IInv'
<1> SUFFICES ASSUME IInv, CountBack PROVE IInv'
  OBVIOUS
<1>1. /\ at = "back" /\ back < line /\ Count(back) /\ back' = back + 1
      /\ UNCHANGED <<file, parsed, spans, at, covered, chunks, scan, runStart, segStart, line,
                     runEnd>>
  BY DEF CountBack, input
<1>2. /\ Total \in Nat
      /\ \A l \in 1..Total : file[l].bytes \in Nat /\ file[l].blank \in BOOLEAN
  BY LineType DEF IInv
<1>3. /\ scan \in Nat /\ scan <= Total + 1
      /\ segStart \in Nat /\ line \in Nat /\ back \in Nat /\ runEnd \in Nat
      /\ lineCount \in Nat /\ byteCount \in Nat /\ lastBlank \in Nat
  BY <1>2 DEF IInv, TypeOK, Loops
<1>4. /\ segStart >= 1 /\ segStart <= back /\ runEnd < scan /\ line <= runEnd
      /\ line - segStart < MaxChunkLines
      /\ lineCount = back - segStart
      /\ lastBlank < back
      /\ lastBlank # 0 => lastBlank >= segStart /\ file[lastBlank].blank
      /\ \A l \in segStart..(back - 1) : l > lastBlank => ~ file[l].blank
  BY <1>1, <1>3 DEF IInv, Segment, Splitting, Counted
<1>5. back \in 1..Total
  BY <1>1, <1>2, <1>3, <1>4
<1>6. /\ lineCount' = lineCount + 1 /\ lineCount' \in Nat /\ byteCount' \in Nat
      /\ lastBlank' = IF file[back].blank THEN back ELSE lastBlank
      /\ lastBlank' \in Nat
  BY <1>1, <1>2, <1>3, <1>5 DEF Count
<1>7. TypeOK' /\ SpansInFile' /\ Loops'
  BY <1>1, <1>3, <1>6 DEF IInv, TypeOK, SpansInFile, Loops, Total
<1>8. lineCount' <= MaxChunkLines
  BY <1>1, <1>3, <1>4, <1>6, CapAssumption
<1>9. \A l \in segStart..back : l > lastBlank' => ~ file[l].blank
  BY <1>3, <1>4, <1>6
<1>10. Segment'
  BY <1>1, <1>3, <1>4, <1>5, <1>6, <1>8, <1>9 DEF IInv, Segment, Splitting, Counted, Total
<1>11. Frontier' = Frontier
  BY <1>1 DEF Frontier, Splitting
<1> QED BY <1>1, <1>7, <1>10, <1>11, ChunksKept, FrontierKept DEF IInv

LEMMA TakeAfterCutStep == IInv /\ TakeAfterCut => IInv'
<1> SUFFICES ASSUME IInv, TakeAfterCut PROVE IInv'
  OBVIOUS
<1>1. /\ at = "back" /\ back = line /\ Count(line) /\ line' = line + 1 /\ at' = "split"
      /\ UNCHANGED <<file, parsed, spans, covered, chunks, scan, runStart, segStart, back,
                     runEnd>>
  BY DEF TakeAfterCut, input
<1>2. /\ Total \in Nat
      /\ \A l \in 1..Total : file[l].bytes \in Nat /\ file[l].blank \in BOOLEAN
  BY LineType DEF IInv
<1>3. /\ scan \in Nat /\ scan <= Total + 1
      /\ segStart \in Nat /\ line \in Nat /\ back \in Nat /\ runEnd \in Nat
      /\ lineCount \in Nat /\ byteCount \in Nat /\ lastBlank \in Nat
  BY <1>2 DEF IInv, TypeOK, Loops
<1>4. /\ segStart >= 1 /\ segStart <= line /\ runEnd < scan /\ line <= runEnd
      /\ line - segStart < MaxChunkLines
      /\ lineCount = line - segStart
      /\ lastBlank < line
      /\ lastBlank # 0 => lastBlank >= segStart /\ file[lastBlank].blank
      /\ \A l \in segStart..(line - 1) : l > lastBlank => ~ file[l].blank
  BY <1>1, <1>3 DEF IInv, Segment, Splitting, Counted
<1>5. line \in 1..Total
  BY <1>2, <1>3, <1>4
<1>6. /\ lineCount' = lineCount + 1 /\ lineCount' \in Nat /\ byteCount' \in Nat
      /\ lastBlank' = IF file[line].blank THEN line ELSE lastBlank
      /\ lastBlank' \in Nat
  BY <1>1, <1>2, <1>3, <1>5 DEF Count
<1>7. TypeOK' /\ SpansInFile' /\ Loops'
  BY <1>1, <1>3, <1>6 DEF IInv, TypeOK, SpansInFile, Loops, Total, Places
<1>8. lineCount' <= MaxChunkLines
  BY <1>3, <1>4, <1>6, CapAssumption
<1>9. \A l \in segStart..line : l > lastBlank' => ~ file[l].blank
  BY <1>3, <1>4, <1>6
<1>10. Segment'
  BY <1>1, <1>3, <1>4, <1>5, <1>6, <1>8, <1>9 DEF IInv, Segment, Splitting, Counted, Total
<1>11. Frontier' = Frontier
  BY <1>1 DEF Frontier, Splitting
<1> QED BY <1>1, <1>7, <1>10, <1>11, ChunksKept, FrontierKept DEF IInv

(* A Module chunk from segStart to `to` is appended, and the frontier moves *)
(* behind it, over lines of symbols only.                                   *)
LEMMA ModuleAppended ==
  ASSUME IInv, at = "split", NEW to \in segStart..runEnd,
         UNCHANGED <<file, parsed, covered>>,
         chunks' = Append(chunks, Chunk("Module", segStart, to)),
         at' \in {"back", "scan"},
         to - segStart < MaxChunkLines,
         \/ file[to].blank
         \/ \A l \in segStart..to : ~ file[l].blank
         \/ to = Total
         \/ to + 1 \in covered,
         NEW f \in Nat, Frontier' = f, to < f,
         \A l \in (to + 1)..(f - 1) : l \in covered
  PROVE  /\ chunks' \in Seq([kind : {"Symbol", "Module", "Window"}, start : 1..Total, end : 1..Total])
         /\ Shapes' /\ SymbolsApart' /\ ModulesApart' /\ LineCap' /\ Seams' /\ Reached' /\ Windows'
<1> DEFINE n == Len(chunks)
           c == Chunk("Module", segStart, to)
<1>1. Total \in Nat /\ scan \in Nat /\ scan <= Total + 1 /\ segStart \in Nat /\ runEnd \in Nat
  BY LineType DEF IInv, TypeOK, Loops
<1>2. /\ segStart >= 1 /\ runEnd < scan /\ parsed
      /\ \A l \in segStart..runEnd : l \notin covered
  BY <1>1 DEF IInv, Segment, Splitting, Loops
<1>3. to \in Nat /\ segStart <= to /\ to <= Total /\ to <= runEnd
  BY <1>1, <1>2
<1>4. /\ c \in ChunkType /\ c.kind = "Module" /\ c.start = segStart /\ c.end = to
  BY <1>1, <1>2, <1>3 DEF Chunk, ChunkType
<1>5. /\ n \in Nat /\ chunks \in Seq(ChunkType)
      /\ \A i \in 1..n :
           /\ chunks[i].start \in Nat /\ chunks[i].end \in Nat
           /\ chunks[i].end <= Total
  BY ChunkTyped DEF IInv
<1>6. /\ chunks' \in Seq(ChunkType) /\ Len(chunks') = n + 1
      /\ \A i \in 1..n : chunks'[i] = chunks[i]
      /\ chunks'[n + 1] = c
  BY <1>4, <1>5, Appended
<1>7. \A i \in 1..Len(chunks)' :
        \/ i \in 1..n /\ chunks'[i] = chunks[i]
        \/ i = n + 1 /\ chunks'[i] = c
  BY <1>5, <1>6
<1>8. Frontier = segStart
  BY DEF Frontier, Splitting
<1>9. /\ ModuleChunks \subseteq 1..n
      /\ \A i \in ModuleChunks' :
           \/ i \in ModuleChunks /\ i \in 1..n /\ chunks'[i] = chunks[i]
           \/ i = n + 1 /\ chunks'[i] = c
  BY <1>7 DEF ModuleChunks
<1> HIDE DEF n, c
<1>10. Shapes'
  BY <1>2, <1>3, <1>4, <1>7 DEF IInv, Shapes, n
<1>11. SymbolsApart'
  BY <1>4, <1>7 DEF IInv, SymbolsApart, n
<1>12. ModulesApart'
  <2>1. ASSUME NEW i \in ModuleChunks'
        PROVE  /\ \A l \in LinesOf(chunks'[i]) : l \notin covered
               /\ chunks'[i].end < f
    <3>1. CASE i \in ModuleChunks /\ i \in 1..n /\ chunks'[i] = chunks[i]
      <4>1. chunks[i].end < segStart /\ chunks[i].end \in Nat
        BY <1>5, <1>8, <3>1 DEF IInv, ModulesApart
      <4>2. chunks[i].end < f
        BY <1>1, <1>3, <4>1
      <4>3. \A l \in LinesOf(chunks[i]) : l \notin covered
        BY <3>1 DEF IInv, ModulesApart
      <4> QED BY <3>1, <4>2, <4>3
    <3>2. CASE i = n + 1 /\ chunks'[i] = c
      <4>1. LinesOf(chunks'[i]) = segStart..to /\ chunks'[i].end = to
        BY <1>4, <3>2 DEF LinesOf
      <4>2. \A l \in segStart..to : l \in segStart..runEnd
        BY <1>1, <1>3
      <4> QED BY <1>2, <4>1, <4>2
    <3> QED BY <1>9, <2>1, <3>1, <3>2
  <2>2. ASSUME NEW i \in ModuleChunks', NEW j \in ModuleChunks', i < j
        PROVE  chunks'[i].end < chunks'[j].start
    <3>1. i \in ModuleChunks /\ i \in 1..n /\ chunks'[i] = chunks[i]
      <4>1. j \in 1..n \/ j = n + 1
        BY <1>9, <2>2
      <4>2. i \in 1..n \/ i = n + 1
        BY <1>9, <2>2
      <4>3. i # n + 1
        BY <1>5, <2>2, <4>1, <4>2
      <4> QED BY <1>9, <2>2, <4>3
    <3>2. CASE j \in ModuleChunks /\ chunks'[j] = chunks[j]
      BY <2>2, <3>1, <3>2 DEF IInv, ModulesApart
    <3>3. CASE chunks'[j] = c
      BY <1>4, <1>8, <3>1, <3>3 DEF IInv, ModulesApart
    <3> QED BY <1>9, <2>2, <3>2, <3>3
  <2> QED BY <2>1, <2>2 DEF ModulesApart, LinesOf
<1>13. LineCap'
  BY <1>4, <1>9 DEF IInv, LineCap
<1>14. Seams'
  BY <1>4, <1>9 DEF IInv, Seams, LinesOf, Total
<1>15. Reached'
  <2>1. \A l : InSomeChunk(l) => InSomeChunk(l)'
    <3> SUFFICES ASSUME NEW l, NEW i \in 1..n, l \in LinesOf(chunks[i])
                 PROVE  InSomeChunk(l)'
      BY DEF InSomeChunk, n
    <3>1. i \in 1..Len(chunks') /\ chunks'[i] = chunks[i]
      BY <1>5, <1>6
    <3> QED BY <3>1 DEF InSomeChunk, LinesOf
  <2>2. \A l \in segStart..to : InSomeChunk(l)'
    <3>1. n + 1 \in 1..Len(chunks')
      BY <1>5, <1>6
    <3> QED BY <1>4, <1>6, <3>1 DEF InSomeChunk, LinesOf
  <2>3. ASSUME NEW l \in 1..Total, l < f PROVE InSomeChunk(l)'
    <3>1. CASE l < segStart
      BY <1>8, <2>1, <3>1 DEF IInv, Reached
    <3>2. CASE l \in segStart..to
      BY <2>2, <3>2
    <3>3. CASE l > to
      <4>1. l \in (to + 1)..(f - 1)
        BY <1>1, <1>3, <2>3, <3>3
      <4> QED BY <2>1, <4>1 DEF IInv, Reached
    <3> QED BY <1>1, <1>3, <3>1, <3>2, <3>3
  <2> QED BY <2>1, <2>3 DEF IInv, Reached, Total
<1>16. Windows'
  BY <1>2 DEF Windows
<1> QED BY <1>6, <1>10, <1>11, <1>12, <1>13, <1>14, <1>15, <1>16 DEF ChunkType

LEMMA CutStep == IInv /\ Cut => IInv'
<1> SUFFICES ASSUME IInv, Cut PROVE IInv'
  OBVIOUS
<1>1. /\ at = "split" /\ line <= runEnd /\ Overflows
      /\ chunks' = Append(chunks, Chunk("Module", segStart, SegEnd))
      /\ segStart' = SegEnd + 1 /\ back' = SegEnd + 1
      /\ lineCount' = 0 /\ byteCount' = 0 /\ lastBlank' = 0
      /\ at' = "back"
      /\ UNCHANGED <<file, parsed, spans, covered, scan, runStart, line, runEnd>>
  BY DEF Cut, input
<1>2. /\ Total \in Nat
      /\ \A l \in 1..Total : file[l].bytes \in Nat /\ file[l].blank \in BOOLEAN
  BY LineType DEF IInv
<1>3. /\ scan \in Nat /\ scan <= Total + 1
      /\ segStart \in Nat /\ line \in Nat /\ runEnd \in Nat
      /\ lineCount \in Nat /\ lastBlank \in Nat
  BY <1>2 DEF IInv, TypeOK, Loops
<1>4. /\ segStart >= 1 /\ segStart <= line /\ runEnd < scan
      /\ lineCount = line - segStart /\ lineCount <= MaxChunkLines
      /\ lastBlank < line
      /\ lastBlank # 0 => lastBlank >= segStart /\ file[lastBlank].blank
      /\ \A l \in segStart..(line - 1) : l > lastBlank => ~ file[l].blank
  BY <1>1, <1>3 DEF IInv, Segment, Splitting, Counted
<1>5. segStart < line
  BY <1>1, <1>3, <1>4 DEF Overflows
<1>6. /\ SegEnd \in Nat /\ SegEnd >= segStart /\ SegEnd < line
      /\ file[SegEnd].blank \/ \A l \in segStart..SegEnd : ~ file[l].blank
  BY <1>3, <1>4, <1>5 DEF SegEnd
<1>7. Frontier' = SegEnd + 1
  BY <1>1 DEF Frontier, Splitting
<1>8. /\ chunks' \in Seq([kind : {"Symbol", "Module", "Window"}, start : 1..Total, end : 1..Total])
      /\ Shapes' /\ SymbolsApart' /\ ModulesApart' /\ LineCap' /\ Seams' /\ Reached' /\ Windows'
  <2>1. SegEnd \in segStart..runEnd /\ SegEnd - segStart < MaxChunkLines
    BY <1>1, <1>3, <1>4, <1>6, CapAssumption
  <2>2. PICK f \in Nat : f = SegEnd + 1
    BY <1>6
  <2>3. /\ SegEnd < f
        /\ \A l \in (SegEnd + 1)..(f - 1) : l \in covered
    BY <1>6, <2>2
  <2>4. \/ file[SegEnd].blank
        \/ \A l \in segStart..SegEnd : ~ file[l].blank
        \/ SegEnd = Total
        \/ SegEnd + 1 \in covered
    BY <1>6
  <2>5. /\ UNCHANGED <<file, parsed, covered>>
        /\ at' \in {"back", "scan"}
        /\ Frontier' = f
    BY <1>1, <1>7, <2>2
  <2> QED BY <1>1, <2>1, <2>3, <2>4, <2>5, ModuleAppended
<1>9. TypeOK' /\ SpansInFile' /\ Loops'
  BY <1>1, <1>3, <1>6, <1>8 DEF IInv, TypeOK, SpansInFile, Loops, Places, Total
<1>10. Segment'
  <2>1. line - (SegEnd + 1) < MaxChunkLines
    BY <1>3, <1>4, <1>6, CapAssumption
  <2>2. \A l \in (SegEnd + 1)..runEnd : l \notin covered
    BY <1>1, <1>3, <1>6 DEF IInv, Segment, Splitting
  <2> QED BY <1>1, <1>3, <1>4, <1>6, <2>1, <2>2, CapAssumption
          DEF IInv, Segment, Splitting, Counted, Total
<1> QED BY <1>8, <1>9, <1>10 DEF IInv

LEMMA FlushTailStep == IInv /\ FlushTail => IInv'
<1> SUFFICES ASSUME IInv, FlushTail PROVE IInv'
  OBVIOUS
<1>1. /\ at = "split" /\ line > runEnd /\ at' = "scan"
      /\ chunks' = IF lineCount > 0 THEN Append(chunks, Chunk("Module", segStart, runEnd))
                                    ELSE chunks
      /\ UNCHANGED <<file, parsed, spans, covered, scan, runStart, segStart, line, back,
                     runEnd, lineCount, byteCount, lastBlank>>
  BY DEF FlushTail, input, splitter
<1>2. Total \in Nat
  BY LineType DEF IInv
<1>3. /\ scan \in Nat /\ scan >= 1 /\ scan <= Total + 1
      /\ segStart \in Nat /\ line \in Nat /\ runEnd \in Nat
      /\ lineCount \in Nat /\ runStart = 0
  BY <1>1, <1>2 DEF IInv, TypeOK, Loops
<1>4. /\ segStart >= 1 /\ segStart <= line /\ line = runEnd + 1 /\ runEnd < scan
      /\ lineCount = line - segStart /\ lineCount <= MaxChunkLines
      /\ runEnd = Total \/ runEnd + 1 \in covered
      /\ \A l \in (runEnd + 1)..(scan - 1) : l \in covered
  BY <1>1, <1>3 DEF IInv, Segment, Splitting, Counted
<1>5. Frontier = segStart /\ Frontier' = scan
  BY <1>1, <1>3 DEF Frontier, Splitting
<1>6. SpansInFile' /\ Loops' /\ Segment'
  BY <1>1, <1>3 DEF IInv, SpansInFile, Loops, Segment, Splitting, Total
<1>7. CASE lineCount > 0
  <2>1. /\ chunks' \in Seq([kind : {"Symbol", "Module", "Window"}, start : 1..Total, end : 1..Total])
        /\ Shapes' /\ SymbolsApart' /\ ModulesApart' /\ LineCap' /\ Seams' /\ Reached' /\ Windows'
    <3>1. runEnd \in segStart..runEnd /\ runEnd - segStart < MaxChunkLines
      BY <1>3, <1>4, <1>7, CapAssumption
    <3> QED BY <1>1, <1>3, <1>4, <1>5, <1>7, <3>1, ModuleAppended
  <2>2. TypeOK'
    BY <1>1, <2>1 DEF IInv, TypeOK, Places, Total
  <2> QED BY <1>6, <2>1, <2>2 DEF IInv
<1>8. CASE ~ (lineCount > 0)
  <2>1. chunks' = chunks /\ segStart = runEnd + 1
    BY <1>1, <1>3, <1>4, <1>8
  <2>2. TypeOK'
    BY <1>1, <2>1 DEF IInv, TypeOK, Places, Total
  <2>3. ModulesApart'
    <3>1. \A i \in ModuleChunks : chunks[i].end < scan
      <4>1. \A i \in ModuleChunks : chunks[i].end \in Nat /\ chunks[i].end < segStart
        BY <1>5, ChunkTyped DEF IInv, ModuleChunks, ModulesApart
      <4> QED BY <1>3, <1>4, <2>1, <4>1
    <3> QED BY <1>1, <1>5, <2>1, <3>1 DEF IInv, ModulesApart, ModuleChunks, LinesOf
  <2>4. \A l \in 1..Total : l < scan => InSomeChunk(l)
    BY <1>2, <1>3, <1>4, <1>5, <2>1 DEF IInv, Reached
  <2>5. Reached'
    BY <1>1, <1>5, <2>1, <2>4 DEF IInv, Reached, InSomeChunk, LinesOf, Total
  <2> QED BY <1>1, <1>6, <2>1, <2>2, <2>3, <2>5, ChunksKept DEF IInv
<1> QED BY <1>7, <1>8

LEMMA EmitSymbolStep == IInv /\ EmitSymbol => IInv'
<1> SUFFICES ASSUME IInv, EmitSymbol PROVE IInv'
  OBVIOUS
<1> DEFINE s == Clamped(Head(spans))
           n == Len(chunks)
           c == Chunk("Symbol", s[1], s[2])
           Known == \E i \in 1..n : <<chunks[i].start, chunks[i].end>> = s
<1>1. /\ at = "symbols" /\ spans # <<>> /\ spans' = Tail(spans)
      /\ IF Known THEN UNCHANGED <<covered, chunks>>
                  ELSE /\ covered' = covered \union (s[1]..s[2])
                       /\ chunks' = Append(chunks, c)
      /\ UNCHANGED <<file, parsed, at, scan, runStart, segStart, line, back, runEnd,
                     lineCount, byteCount, lastBlank>>
  BY DEF EmitSymbol, input, splitter
<1>2. /\ Total \in Nat /\ scan = 1 /\ runStart = 0 /\ parsed
      /\ \A i \in 1..n : chunks[i].kind = "Symbol"
  BY <1>1, LineType DEF IInv, Loops, Shapes
<1>3. /\ spans' \in Seq(Nat \X Nat) /\ SpansInFile'
      /\ Head(spans)[1] \in 1..Total /\ Head(spans)[2] \in Nat
      /\ Head(spans)[1] <= Head(spans)[2]
  <2>1. spans \in Seq(Nat \X Nat)
    BY DEF IInv, TypeOK
  <2>2. /\ spans' \in Seq(Nat \X Nat) /\ Len(spans') = Len(spans) - 1
        /\ 1 \in 1..Len(spans) /\ Head(spans) = spans[1]
        /\ \A k \in 1..Len(spans') : spans'[k] = spans[k + 1] /\ k + 1 \in 1..Len(spans)
    BY SMTT(30), <1>1, <2>1
  <2> QED BY <1>1, <2>2 DEF IInv, SpansInFile, Total
<1>4. /\ s = <<s[1], s[2]>>
      /\ s[1] \in 1..Total /\ s[2] \in 1..Total /\ s[1] <= s[2]
  BY <1>2, <1>3 DEF Clamped
<1> HIDE DEF s
<1>5. c \in ChunkType /\ c.kind = "Symbol" /\ c.start = s[1] /\ c.end = s[2]
  BY <1>4 DEF Chunk, ChunkType
<1>6. ModuleChunks = {}
  BY <1>2 DEF ModuleChunks
<1>7. CASE Known
  <2>1. covered' = covered /\ chunks' = chunks
    BY <1>1, <1>7
  <2>2. TypeOK' /\ Loops' /\ Segment'
    BY <1>1, <1>3, <2>1 DEF IInv, TypeOK, Loops, Segment, Splitting, Total
  <2>3. Frontier' = Frontier
    BY <1>1 DEF Frontier, Splitting
  <2> QED BY <1>1, <1>3, <2>1, <2>2, <2>3, ChunksKept, FrontierKept DEF IInv
<1>8. CASE ~ Known
  <2>1. covered' = covered \union (s[1]..s[2]) /\ chunks' = Append(chunks, c)
    BY <1>1, <1>8
  <2>2. n \in Nat /\ chunks \in Seq(ChunkType)
    BY ChunkTyped DEF IInv
  <2>3. /\ chunks' \in Seq(ChunkType) /\ Len(chunks') = n + 1
        /\ \A i \in 1..n : chunks'[i] = chunks[i]
        /\ chunks'[n + 1] = c
    BY <1>5, <2>1, <2>2, Appended
  <2>4. \A i \in 1..Len(chunks)' :
          \/ i \in 1..n /\ chunks'[i] = chunks[i]
          \/ i = n + 1 /\ chunks'[i] = c
    BY <2>2, <2>3
  <2>5. \A i \in 1..n : ~ (chunks[i].start = s[1] /\ chunks[i].end = s[2])
    BY <1>4, <1>8
  <2> HIDE DEF n, c, Known
  <2>6. TypeOK'
    <3>1. covered' \subseteq 1..Total
      BY SMTT(30), <1>2, <1>4, <2>1 DEF IInv, TypeOK
    <3> QED BY <1>1, <1>3, <2>3, <3>1 DEF IInv, TypeOK, ChunkType, Total
  <2>7. Loops' /\ Segment'
    BY <1>1, <1>2 DEF IInv, Loops, Segment, Splitting, Total
  <2>8. Shapes'
    <3>1. s[1] \in covered'
      BY <1>4, <2>1
    <3> QED BY <1>2, <1>4, <1>5, <2>1, <2>4, <3>1, <1>1 DEF IInv, Shapes, n
  <2>9. SymbolsApart'
    BY <1>5, <2>4, <2>5 DEF IInv, SymbolsApart, n
  <2>10. ModuleChunks' = {}
    BY <1>2, <1>5, <2>4 DEF ModuleChunks
  <2>11. ModulesApart' /\ LineCap' /\ Seams' /\ Windows'
    BY <1>1, <1>2, <2>10 DEF ModulesApart, LineCap, Seams, Windows
  <2>12. Reached'
    <3>1. \A l : InSomeChunk(l) => InSomeChunk(l)'
      <4> SUFFICES ASSUME NEW l, NEW i \in 1..n, l \in LinesOf(chunks[i])
                   PROVE  InSomeChunk(l)'
        BY DEF InSomeChunk, n
      <4>1. i \in 1..Len(chunks') /\ chunks'[i] = chunks[i]
        BY <2>2, <2>3
      <4> QED BY <4>1 DEF InSomeChunk, LinesOf
    <3>2. \A l \in s[1]..s[2] : InSomeChunk(l)'
      <4>1. n + 1 \in 1..Len(chunks')
        BY <2>2, <2>3
      <4> QED BY <1>5, <2>3, <4>1 DEF InSomeChunk, LinesOf
    <3>3. \A l \in covered' : InSomeChunk(l)'
      BY <2>1, <3>1, <3>2 DEF IInv, Reached
    <3>4. Frontier' = 1
      BY <1>1, <1>2 DEF Frontier, Splitting
    <3> QED BY <1>1, <1>2, <3>3, <3>4 DEF Reached, Total
  <2> QED BY <1>3, <2>6, <2>7, <2>8, <2>9, <2>11, <2>12 DEF IInv
<1> QED BY <1>7, <1>8

LEMMA WindowStep == IInv /\ Window => IInv'
<1> SUFFICES ASSUME IInv, Window PROVE IInv'
  OBVIOUS
<1> DEFINE end == IF scan + WindowLines - 1 <= Total THEN scan + WindowLines - 1 ELSE Total
           n == Len(chunks)
           c == Chunk("Window", scan, end)
<1>1. /\ at = "windows" /\ chunks' = Append(chunks, c)
      /\ IF end >= Total THEN at' = "done" /\ scan' = scan
                         ELSE scan' = scan + Stride /\ at' = "windows"
      /\ UNCHANGED <<file, parsed, spans, covered, runStart, segStart, line, back, runEnd,
                     lineCount, byteCount, lastBlank>>
  BY DEF Window, input, splitter
<1>2. /\ Total \in Nat /\ scan \in Nat /\ scan >= 1 /\ scan <= Total
      /\ ~ parsed /\ runStart = 0
  <2>1. runStart \in Nat /\ scan \in Nat
    BY DEF IInv, TypeOK
  <2> QED BY <1>1, <2>1, LineType DEF IInv, Loops
<1>3. /\ WindowLines \in Nat /\ WindowLines >= 1
      /\ WindowOverlap \in Nat /\ WindowOverlap < WindowLines
      /\ Stride = WindowLines - WindowOverlap /\ Stride \in Nat /\ Stride >= 1
  BY CapAssumption DEF Stride
<1>4. /\ end \in Nat /\ end >= scan /\ end <= Total
      /\ end < Total => end = scan + WindowLines - 1
      /\ end < scan + WindowLines
  BY <1>2, <1>3
<1>5. c \in ChunkType /\ c.kind = "Window" /\ c.start = scan /\ c.end = end
  BY <1>2, <1>4 DEF Chunk, ChunkType
<1>6. /\ n \in Nat /\ chunks \in Seq(ChunkType)
      /\ \A i \in 1..n : chunks[i].start \in Nat /\ chunks[i].end \in Nat
      /\ \A i \in 1..n : chunks[i].kind = "Window"
  BY <1>2, ChunkTyped DEF IInv, Shapes
<1>7. /\ chunks' \in Seq(ChunkType) /\ Len(chunks') = n + 1
      /\ \A i \in 1..n : chunks'[i] = chunks[i]
      /\ chunks'[n + 1] = c
      /\ chunks' # <<>>
  BY <1>1, <1>5, <1>6, Appended
<1>8. \A i \in 1..Len(chunks)' :
        \/ i \in 1..n /\ chunks'[i] = chunks[i]
        \/ i = n + 1 /\ chunks'[i] = c
  BY <1>6, <1>7
<1> HIDE DEF c, n, end
<1>9. TypeOK'
  BY SMTT(30), <1>1, <1>2, <1>3, <1>7 DEF IInv, TypeOK, ChunkType, Places, Total
<1>10. SpansInFile' /\ Loops' /\ Segment'
  <2>1. scan' \in Nat /\ scan' >= 1 /\ scan' <= Total
    BY <1>1, <1>2, <1>3, <1>4
  <2>2. at' \in {"done", "windows"}
    BY <1>1
  <2>3. SpansInFile'
    BY <1>1 DEF IInv, SpansInFile, Total
  <2>4. Segment'
    BY <2>2 DEF Segment, Splitting
  <2>5. scan' \in 1..(Total' + 1) /\ scan' <= Total'
    BY <1>1, <1>2, <2>1 DEF Total
  <2>6. runStart' = 0 /\ parsed' = parsed
    BY <1>1, <1>2
  <2>7. Loops'
    BY <1>2, <2>2, <2>5, <2>6 DEF Loops
  <2> QED BY <2>3, <2>4, <2>7
<1>11. ModuleChunks' = {}
  BY <1>5, <1>6, <1>8 DEF ModuleChunks
<1>12. ModulesApart' /\ LineCap' /\ Seams'
  BY <1>11 DEF ModulesApart, LineCap, Seams
<1>13. Shapes' /\ SymbolsApart'
  BY <1>1, <1>2, <1>4, <1>5, <1>6, <1>8 DEF IInv, Shapes, SymbolsApart, n
<1>14. Reached'
  <2>1. \A l : InSomeChunk(l) => InSomeChunk(l)'
    <3> SUFFICES ASSUME NEW l, NEW i \in 1..n, l \in LinesOf(chunks[i])
                 PROVE  InSomeChunk(l)'
      BY DEF InSomeChunk, n
    <3>1. i \in 1..Len(chunks') /\ chunks'[i] = chunks[i]
      BY <1>6, <1>7
    <3> QED BY <3>1 DEF InSomeChunk, LinesOf
  <2>2. \A l \in scan..end : InSomeChunk(l)'
    <3>1. n + 1 \in 1..Len(chunks')
      BY <1>6, <1>7
    <3> QED BY <1>5, <1>7, <3>1 DEF InSomeChunk, LinesOf
  <2>3. Frontier = scan /\ Frontier' = scan'
    BY <1>1, <1>2 DEF Frontier, Splitting
  <2>4. \A l \in 1..Total : l <= end => InSomeChunk(l)'
    BY <1>2, <1>4, <2>1, <2>2, <2>3 DEF IInv, Reached
  <2>5. \A l \in 1..Total : l < Frontier' => InSomeChunk(l)'
    BY <1>1, <1>2, <1>3, <1>4, <2>3, <2>4
  <2>6. at' = "done" => \A l \in 1..Total : InSomeChunk(l)'
    BY <1>1, <1>2, <1>4, <2>4
  <2>7. \A l \in covered' : InSomeChunk(l)'
    BY <1>1, <2>1 DEF IInv, Reached
  <2> QED BY <1>1, <2>5, <2>6, <2>7 DEF Reached, Total
<1>15. Windows'
  <2>1. /\ \A i \in 1..n : chunks[i].start < scan
        /\ n > 0 => /\ scan = chunks[n].end - WindowOverlap + 1
                    /\ chunks[n].end < Total
    BY <1>1, <1>2, <1>6 DEF IInv, Windows, n
  <2>2. ASSUME NEW i \in 1..Len(chunks'), NEW j \in 1..Len(chunks'), i < j
        PROVE  chunks'[i].start < chunks'[j].start
    <3>1. i \in 1..n /\ chunks'[i] = chunks[i]
      BY <1>6, <1>7, <2>2
    <3>2. CASE j \in 1..n /\ chunks'[j] = chunks[j]
      BY <1>2, <2>2, <3>1, <3>2 DEF IInv, Windows, n
    <3>3. CASE chunks'[j] = c
      BY <1>5, <2>1, <3>1, <3>3
    <3> QED BY <1>8, <3>2, <3>3
  <2>3. ASSUME NEW i \in 1..(Len(chunks') - 1)
        PROVE  /\ chunks'[i + 1].start = chunks'[i].end - WindowOverlap + 1
               /\ chunks'[i + 1].end > chunks'[i].end
    <3>1. i \in 1..n /\ chunks'[i] = chunks[i]
      BY <1>6, <1>7
    <3>2. CASE i \in 1..(n - 1)
      <4>1. chunks'[i + 1] = chunks[i + 1]
        BY <1>6, <1>7, <3>2
      <4> QED BY <1>2, <3>1, <3>2, <4>1 DEF IInv, Windows, n
    <3>3. CASE i = n
      <4>1. chunks'[i + 1] = c /\ n > 0 /\ chunks[n].end \in Nat
        BY <1>6, <1>7, <3>1, <3>3
      <4>2. end > chunks[n].end
        BY SMTT(30), <1>2, <1>3, <1>4, <2>1, <4>1 DEF end
      <4> QED BY <1>5, <2>1, <3>1, <3>3, <4>1, <4>2
    <3> QED BY <1>6, <3>1, <3>2, <3>3
  <2>4. at' = "windows" =>
          /\ \A i \in 1..Len(chunks') : chunks'[i].start < scan'
          /\ scan' = chunks'[Len(chunks')].end - WindowOverlap + 1
          /\ chunks'[Len(chunks')].end < Total
    <3> SUFFICES ASSUME at' = "windows"
                 PROVE  /\ \A i \in 1..Len(chunks') : chunks'[i].start < scan'
                        /\ scan' = chunks'[Len(chunks')].end - WindowOverlap + 1
                        /\ chunks'[Len(chunks')].end < Total
      OBVIOUS
    <3>1. end < Total /\ scan' = scan + Stride /\ end = scan + WindowLines - 1
      BY <1>1, <1>2, <1>4
    <3>2. chunks'[Len(chunks')].end = end
      BY <1>5, <1>6, <1>7
    <3>3. \A i \in 1..Len(chunks') : chunks'[i].start <= scan /\ chunks'[i].start \in Nat
      BY <1>2, <1>5, <1>6, <1>8, <2>1
    <3> QED BY SMTT(30), <1>2, <1>3, <3>1, <3>2, <3>3
  <2> QED BY <1>1, <2>2, <2>3, <2>4 DEF Windows, Total
<1> QED BY <1>9, <1>10, <1>12, <1>13, <1>14, <1>15 DEF IInv

------------------------------------------------------------------------------

LEMMA StepIInv == IInv /\ [Next]_vars => IInv'
<1> SUFFICES ASSUME IInv, [Next]_vars PROVE IInv'
  OBVIOUS
<1>1. CASE UNCHANGED vars
  <2>1. UNCHANGED <<file, parsed, spans, at, covered, chunks, scan, runStart, segStart, line,
                    back, runEnd, lineCount, byteCount, lastBlank>>
    BY <1>1 DEF vars, input, splitter
  <2>2. TypeOK' /\ SpansInFile' /\ Loops' /\ Segment'
    BY <2>1 DEF IInv, TypeOK, SpansInFile, Loops, Segment, Splitting, Counted, Total
  <2>3. Frontier' = Frontier
    BY <2>1 DEF Frontier, Splitting
  <2>4. ModulesApart' /\ Reached'
    BY <2>1, <2>3 DEF IInv, ModulesApart, Reached, ModuleChunks, InSomeChunk, LinesOf, Total
  <2> QED BY <2>1, <2>2, <2>4, ChunksKept DEF IInv
<1>2. CASE Next
  <2>1. CASE Done
    BY <2>1, <1>1 DEF Done
  <2> QED BY <1>2, <2>1, EmitSymbolStep, SymbolsDoneStep, ScanLineStep, ScanDoneStep, TakeLineStep,
          CutStep, CountBackStep, TakeAfterCutStep, FlushTailStep, WindowStep DEF Next
<1> QED BY <1>1, <1>2

LEMMA Inductive == Spec => []IInv
BY InitIInv, StepIInv, PTL DEF Spec

(* Every variable keeps its type, and no chunk reaches beyond the file:     *)
(* join_range never cuts a body short and chunk_parsed stays in bounds.     *)
THEOREM TypeCorrect == Spec => []TypeOK
<1>1. IInv => TypeOK
  BY DEF IInv
<1> QED BY <1>1, Inductive, PTL

(***************************************************************************)
(* chunk_file never yields two chunks of one span, for any spans the parser*)
(* may report: symbols are told apart by the guard, Module chunks by their *)
(* order, the two kinds by `covered`, windows by the stride.  It is what   *)
(* ChunkFileAssumption of IndexStore asks of the constant ChunkFile.       *)
(***************************************************************************)
THEOREM ChunkSpansDistinct == Spec => []SpansDistinct
<1>1. IInv => SpansDistinct
  <2> SUFFICES ASSUME IInv, NEW i \in 1..Len(chunks), NEW j \in 1..Len(chunks),
                      chunks[i].start = chunks[j].start, chunks[i].end = chunks[j].end
               PROVE  i = j
    BY DEF SpansDistinct
  <2>1. /\ Len(chunks) \in Nat
        /\ \A k \in 1..Len(chunks) :
             /\ chunks[k].kind \in {"Symbol", "Module", "Window"}
             /\ chunks[k].start \in Nat /\ chunks[k].end \in Nat
             /\ chunks[k].start <= chunks[k].end
    BY ChunkTyped DEF IInv, Shapes
  <2>2. \A k \in ModuleChunks : k \in 1..Len(chunks) /\ chunks[k].start \notin covered
    BY <2>1 DEF IInv, ModulesApart, ModuleChunks, LinesOf
  <2>3. CASE parsed
    <3>1. \A k \in 1..Len(chunks) : k \in ModuleChunks \/ chunks[k].kind = "Symbol"
      BY <2>1, <2>3 DEF IInv, Shapes, ModuleChunks
    <3>2. \A k \in 1..Len(chunks) : chunks[k].kind = "Symbol" => chunks[k].start \in covered
      BY DEF IInv, Shapes
    <3>3. CASE i \in ModuleChunks /\ j \in ModuleChunks
      <4>1. ~ (i < j) /\ ~ (j < i)
        BY <2>1, <3>3 DEF IInv, ModulesApart
      <4> QED BY <2>1, <4>1
    <3>4. CASE chunks[i].kind = "Symbol" /\ chunks[j].kind = "Symbol"
      BY <3>4 DEF IInv, SymbolsApart
    <3> QED BY <2>2, <3>1, <3>2, <3>3, <3>4
  <2>4. CASE ~ parsed
    <3>1. ~ (i < j) /\ ~ (j < i)
      BY <2>1, <2>4 DEF IInv, Windows
    <3> QED BY <2>1, <3>1
  <2> QED BY <2>3, <2>4
<1> QED BY <1>1, Inductive, PTL

(* No line of a file is lost: when chunk_file returns, its chunks are all   *)
(* of the file, and a line outside the symbols is in one Module chunk only. *)
THEOREM NoLineLost == Spec => []CoversFile
<1>1. IInv => CoversFile
  <2> SUFFICES ASSUME IInv PROVE CoversFile
    OBVIOUS
  <2>1. /\ Len(chunks) \in Nat /\ Total \in Nat
        /\ \A k \in 1..Len(chunks) :
             /\ chunks[k].start \in Nat /\ chunks[k].start >= 1
             /\ chunks[k].end \in Nat /\ chunks[k].end <= Total
    BY ChunkTyped, LineType DEF IInv
  <2>2. at = "done" => UNION {LinesOf(chunks[i]) : i \in 1..Len(chunks)} = 1..Total
    <3> SUFFICES ASSUME at = "done"
                 PROVE  UNION {LinesOf(chunks[i]) : i \in 1..Len(chunks)} = 1..Total
      OBVIOUS
    <3>1. \A l \in 1..Total : \E i \in 1..Len(chunks) : l \in LinesOf(chunks[i])
      BY DEF IInv, Reached, InSomeChunk
    <3>2. \A i \in 1..Len(chunks) : LinesOf(chunks[i]) \subseteq 1..Total
      BY <2>1 DEF LinesOf
    <3> QED BY <3>1, <3>2
  <2>3. ASSUME NEW i \in ModuleChunks
        PROVE  /\ LinesOf(chunks[i]) \intersect covered = {}
               /\ \A j \in ModuleChunks \ {i} :
                    LinesOf(chunks[i]) \intersect LinesOf(chunks[j]) = {}
    <3>1. LinesOf(chunks[i]) \intersect covered = {}
      BY DEF IInv, ModulesApart
    <3>2. ASSUME NEW j \in ModuleChunks, j # i
          PROVE  LinesOf(chunks[i]) \intersect LinesOf(chunks[j]) = {}
      <4>1. i \in 1..Len(chunks) /\ j \in 1..Len(chunks)
        BY DEF ModuleChunks
      <4>2. i < j \/ j < i
        BY <2>1, <3>2, <4>1
      <4>3. chunks[i].end < chunks[j].start \/ chunks[j].end < chunks[i].start
        BY <4>2 DEF IInv, ModulesApart
      <4> QED BY <2>1, <4>1, <4>3 DEF LinesOf
    <3> QED BY <3>1, <3>2
  <2> QED BY <2>2, <2>3 DEF CoversFile
<1> QED BY <1>1, Inductive, PTL

------------------------------------------------------------------------------
(* The bytes of a segment.                                                  *)

(* What holds of a number whenever it holds of all below holds of all.      *)
LEMMA FromBelow ==
  ASSUME NEW S, \A n \in Nat : (\A m \in 0..n - 1 : m \in S) => n \in S
  PROVE  Nat \subseteq S
<1> DEFINE Out == Nat \ S
<1> SUFFICES ASSUME Out # {} PROVE FALSE
  OBVIOUS
<1>1. IsWellFoundedOn(OpToRel(<, Nat), Nat)
  BY NatLessThanWellFounded
<1>2. Out \subseteq Nat
  OBVIOUS
<1>3. PICK n \in Out : \A m \in Out : ~ (<<m, n>> \in OpToRel(<, Nat))
  <2> HIDE DEF Out
  <2> QED BY <1>1, <1>2, WFMin
<1>4. \A m \in Out : ~ (m < n)
  BY <1>2, <1>3 DEF OpToRel
<1>5. \A m \in 0..n - 1 : m \in S
  <2> SUFFICES ASSUME NEW m \in 0..n - 1, m \notin S PROVE FALSE
    OBVIOUS
  <2>1. m \in Out /\ m < n
    OBVIOUS
  <2> QED BY <2>1, <1>4
<1> QED BY <1>5

SumsUpTo(s, f, n) == f = [l \in 1..n |-> IF l = 1 THEN 0 ELSE f[l - 1] + s[l - 1].bytes]

(* The recursive definition of BytesBefore defines a function.              *)
LEMMA SumsExist ==
  ASSUME NEW s, Len(s) \in Nat
  PROVE  \E f : SumsUpTo(s, f, Len(s) + 1)
<1> DEFINE S == {n \in Nat : \E f : SumsUpTo(s, f, n + 1)}
<1>1. ASSUME NEW n \in Nat, \A m \in 0..n - 1 : m \in S PROVE n \in S
  <2>1. CASE n = 0
    <3>1. SumsUpTo(s, [l \in 1..1 |-> 0], 1)
      BY DEF SumsUpTo
    <3> QED BY <2>1, <3>1
  <2>2. CASE n # 0
    <3>1. n - 1 \in S /\ n - 1 + 1 = n
      BY <1>1, <2>2
    <3>2. PICK g : SumsUpTo(s, g, n)
      BY <3>1
    <3> DEFINE f == [l \in 1..n + 1 |-> IF l = 1 THEN 0 ELSE g[l - 1] + s[l - 1].bytes]
    <3>3. \A l \in 1..n : g[l] = IF l = 1 THEN 0 ELSE g[l - 1] + s[l - 1].bytes
      BY <3>2 DEF SumsUpTo
    <3>4. \A l \in 1..n : f[l] = g[l]
      BY <3>3
    <3>5. \A l \in 1..n + 1 : l # 1 => l - 1 \in 1..n
      OBVIOUS
    <3>6. \A l \in 1..n + 1 : f[l] = IF l = 1 THEN 0 ELSE f[l - 1] + s[l - 1].bytes
      BY <3>4, <3>5
    <3>7. SumsUpTo(s, f, n + 1)
      <4>1. f = [l \in 1..n + 1 |-> f[l]]
        OBVIOUS
      <4> HIDE DEF f
      <4> QED BY <3>6, <4>1 DEF SumsUpTo
    <3> QED BY <3>7
  <2> QED BY <2>1, <2>2
<1>2. Nat \subseteq S
  <2> HIDE DEF S
  <2> QED BY <1>1, FromBelow
<1> QED BY <1>2

LEMMA SumsUnfold ==
  ASSUME NEW s, Len(s) \in Nat
  PROVE  \A l \in 1..Len(s) + 1 :
           BytesBefore(s)[l] = IF l = 1 THEN 0 ELSE BytesBefore(s)[l - 1] + s[l - 1].bytes
<1>1. PICK f : SumsUpTo(s, f, Len(s) + 1)
  BY SumsExist
<1>2. SumsUpTo(s, BytesBefore(s), Len(s) + 1)
  BY <1>1 DEF SumsUpTo, BytesBefore
<1> QED BY <1>2 DEF SumsUpTo

(* It adds up the lines, and the later the line, the more is before it.     *)
LEMMA SumsOfFile ==
  ASSUME TypeOK
  PROVE  /\ \A l \in 1..Total + 1 : BytesBefore(file)[l] \in Nat
         /\ \A l \in 1..Total : BytesBefore(file)[l + 1] = BytesBefore(file)[l] + file[l].bytes
         /\ \A k, l \in 1..Total + 1 : k <= l => BytesBefore(file)[k] <= BytesBefore(file)[l]
<1> DEFINE B == BytesBefore(file)
<1>1. Total \in Nat /\ Len(file) = Total /\ \A l \in 1..Total : file[l].bytes \in Nat
  BY LineType DEF Total
<1>2. \A l \in 1..Total + 1 : B[l] = IF l = 1 THEN 0 ELSE B[l - 1] + file[l - 1].bytes
  BY <1>1, SumsUnfold
<1> HIDE DEF B
<1>3. \A l \in 1..Total : B[l + 1] = B[l] + file[l].bytes
  <2> TAKE l \in 1..Total
  <2>1. l + 1 \in 1..Total + 1 /\ l + 1 # 1 /\ l + 1 - 1 = l
    BY <1>1
  <2> QED BY <1>2, <2>1
<1> DEFINE S == {n \in Nat : n + 1 <= Total + 1 =>
                   /\ B[n + 1] \in Nat
                   /\ \A k \in 1..n + 1 : B[k] <= B[n + 1]}
<1>4. ASSUME NEW n \in Nat, \A m \in 0..n - 1 : m \in S PROVE n \in S
  <2> SUFFICES ASSUME n <= Total
               PROVE  B[n + 1] \in Nat /\ \A k \in 1..n + 1 : B[k] <= B[n + 1]
    BY <1>1
  <2>1. CASE n = 0
    <3>1. B[1] = 0
      BY <1>1, <1>2
    <3> QED BY <2>1, <3>1
  <2>2. CASE n # 0
    <3>1. n - 1 \in S /\ n - 1 + 1 = n
      BY <1>4, <2>2
    <3>2. B[n] \in Nat /\ \A k \in 1..n : B[k] <= B[n]
      BY <1>1, <3>1
    <3>3. \A k \in 1..n : B[k] \in Nat
      <4> TAKE k \in 1..n
      <4>1. k - 1 \in S /\ k - 1 + 1 = k
        BY <1>4
      <4> QED BY <1>1, <4>1
    <3>4. B[n + 1] = B[n] + file[n].bytes /\ file[n].bytes \in Nat
      BY <1>1, <1>3, <2>2
    <3>5. ASSUME NEW k \in 1..n + 1 PROVE B[k] <= B[n + 1]
      <4>1. CASE k = n + 1
        BY <3>2, <3>4, <4>1
      <4>2. CASE k \in 1..n
        BY <3>2, <3>3, <3>4, <4>2
      <4> QED BY <4>1, <4>2
    <3> QED BY <3>2, <3>4, <3>5
  <2> QED BY <2>1, <2>2
<1>5. Nat \subseteq S
  <2> HIDE DEF S
  <2> QED BY <1>4, FromBelow
<1>6. ASSUME NEW l \in 1..Total + 1
      PROVE  B[l] \in Nat /\ \A k \in 1..l : B[k] <= B[l]
  <2>1. l - 1 \in S /\ l - 1 + 1 = l
    BY <1>5
  <2> QED BY <1>1, <2>1
<1> QED BY <1>3, <1>6 DEF B

\* byteCount is that of the counted lines, all lines but the last fit, and where
\* the last one does not, no blank line comes before it to be cut at; what a cut
\* carries over fits as a whole.
SegmentBytes ==
  Splitting =>
    /\ byteCount = Bytes(segStart, Counted - 1)
    /\ at = "split" /\ segStart < line =>
         /\ Bytes(segStart, line - 2) <= MaxChunkBytes
         /\ byteCount <= MaxChunkBytes \/ lastBlank = 0 \/ lastBlank = line - 1
    /\ at = "back" =>
         /\ Bytes(segStart, line - 1) <= MaxChunkBytes
         /\ \A l \in segStart..(line - 1) : ~ file[l].blank

ByteCap == \A i \in ModuleChunks : Bytes(chunks[i].start, chunks[i].end - 1) <= MaxChunkBytes

BytesInv == SegmentBytes /\ ByteCap

\* The same, in terms of what comes before a line.
LEMMA BytesAre ==
  ASSUME IInv, SegmentBytes
  PROVE  /\ at = "split" =>
              /\ byteCount = BytesBefore(file)[line] - BytesBefore(file)[segStart]
              /\ segStart < line =>
                   /\ BytesBefore(file)[line - 1] - BytesBefore(file)[segStart] <= MaxChunkBytes
                   /\ byteCount <= MaxChunkBytes \/ lastBlank = 0 \/ lastBlank = line - 1
         /\ at = "back" =>
              /\ byteCount = BytesBefore(file)[back] - BytesBefore(file)[segStart]
              /\ BytesBefore(file)[line] - BytesBefore(file)[segStart] <= MaxChunkBytes
              /\ \A l \in segStart..(line - 1) : ~ file[l].blank
<1>1. line \in Nat /\ back \in Nat
  BY DEF IInv, TypeOK
<1>2. line - 1 + 1 = line /\ back - 1 + 1 = back /\ line - 2 + 1 = line - 1
  BY <1>1
<1> QED BY <1>2 DEF SegmentBytes, Splitting, Counted, Bytes

\* Where the segment lies.
LEMMA SegmentPlace ==
  ASSUME IInv, Splitting
  PROVE  /\ Total \in Nat /\ segStart \in Nat /\ line \in Nat /\ back \in Nat /\ runEnd \in Nat
         /\ byteCount \in Nat /\ lineCount \in Nat /\ lastBlank \in Nat
         /\ 1 <= segStart /\ segStart <= line /\ line <= Total + 1
         /\ line <= runEnd + 1 /\ runEnd <= Total
         /\ at = "split" => lineCount = line - segStart
         /\ at = "back" => segStart <= back /\ back <= line /\ line <= runEnd
         /\ lastBlank < Counted
         /\ lastBlank # 0 => lastBlank >= segStart /\ file[lastBlank].blank
<1>1. Total \in Nat
  BY LineType DEF IInv
<1>2. scan <= Total + 1 /\ scan \in Nat
  BY <1>1 DEF IInv, Loops
<1> QED BY <1>1, <1>2 DEF IInv, Segment, Splitting, Counted, TypeOK

LEMMA ByteCapKept ==
  ASSUME ByteCap, UNCHANGED <<file, chunks>>
  PROVE  ByteCap'
BY DEF ByteCap, ModuleChunks, Bytes

\* A chunk that is appended fits but for its last line, or is no Module chunk.
LEMMA ByteCapAppended ==
  ASSUME IInv, ByteCap, file' = file, NEW kind, NEW from \in Nat, NEW to \in Nat,
         chunks' = Append(chunks, Chunk(kind, from, to)),
         kind = "Module" => BytesBefore(file)[to] - BytesBefore(file)[from] <= MaxChunkBytes
  PROVE  ByteCap'
<1>1. /\ Len(chunks) \in Nat /\ Len(chunks') = Len(chunks) + 1
      /\ \A i \in 1..Len(chunks) : chunks'[i] = chunks[i]
      /\ chunks'[Len(chunks) + 1] = Chunk(kind, from, to)
  BY DEF IInv, TypeOK
<1> SUFFICES ASSUME NEW i \in ModuleChunks'
             PROVE  Bytes(chunks[i].start, chunks[i].end - 1)' <= MaxChunkBytes
  BY DEF ByteCap
<1>2. i \in 1..Len(chunks') /\ chunks'[i].kind = "Module"
  BY DEF ModuleChunks
<1>3. CASE i \in 1..Len(chunks)
  BY <1>1, <1>2, <1>3 DEF ByteCap, ModuleChunks, Bytes
<1>4. CASE i = Len(chunks) + 1
  <2>1. /\ kind = "Module" /\ chunks'[i].start = from /\ chunks'[i].end = to
        /\ to - 1 + 1 = to
    BY <1>1, <1>2, <1>4 DEF Chunk
  <2> QED BY <2>1 DEF Bytes
<1> QED BY <1>1, <1>2, <1>3, <1>4

LEMMA StepBytes ==
  ASSUME IInv, BytesInv, [Next]_vars
  PROVE  BytesInv'
<1> DEFINE B == BytesBefore(file)
<1>1. /\ \A l \in 1..Total + 1 : B[l] \in Nat
      /\ \A l \in 1..Total : B[l + 1] = B[l] + file[l].bytes
      /\ \A k, l \in 1..Total + 1 : k <= l => B[k] <= B[l]
      /\ Total \in Nat /\ MaxChunkBytes \in Nat
  BY SumsOfFile, LineType, CapAssumption DEF IInv
<1>2. SegmentBytes /\ ByteCap
  BY DEF BytesInv
<1>3. CASE EmitSymbol
  <2>1. at' = "symbols" /\ file' = file
    BY <1>3 DEF EmitSymbol, input
  <2>2. SegmentBytes'
    BY <2>1 DEF SegmentBytes, Splitting
  <2>3. CASE chunks' = chunks
    BY <1>2, <2>1, <2>2, <2>3, ByteCapKept DEF BytesInv
  <2>4. CASE chunks' # chunks
    <3>1. spans \in Seq(Nat \X Nat) /\ spans # <<>>
      BY <1>3 DEF EmitSymbol, IInv, TypeOK
    <3>2. PICK s : s = Clamped(Head(spans)) /\ chunks' = Append(chunks, Chunk("Symbol", s[1], s[2]))
      BY <1>3, <2>4 DEF EmitSymbol
    <3>3. s[1] \in Nat /\ s[2] \in Nat
      <4>1. Head(spans) \in Nat \X Nat
        BY <3>1
      <4> QED BY <1>1, <3>2, <4>1 DEF Clamped
    <3> QED BY <1>2, <2>1, <2>2, <3>2, <3>3, ByteCapAppended DEF BytesInv
  <2> QED BY <2>3, <2>4
<1>4. CASE SymbolsDone \/ ScanDone
  <2>1. at' \in {"scan", "done"} /\ UNCHANGED <<file, chunks>>
    BY <1>4 DEF SymbolsDone, ScanDone, input
  <2> QED BY <1>2, <2>1, ByteCapKept DEF BytesInv, SegmentBytes, Splitting
<1>5. CASE ScanLine
  <2>1. UNCHANGED <<file, chunks>> /\ at = "scan"
    BY <1>5 DEF ScanLine, input
  <2>2. \/ at' = "scan"
        \/ at' = "split" /\ segStart' = line' /\ line' \in 1..Total /\ byteCount' = 0
    <3>1. scan \in Nat /\ scan <= Total /\ scan >= 1 /\ runStart \in Nat
          /\ (runStart # 0 => runStart < scan)
      BY <1>5, <1>1 DEF ScanLine, IInv, TypeOK, Loops
    <3>2. PICK start \in Nat : /\ start = IF runStart = 0 /\ scan \notin covered THEN scan
                                                                                 ELSE runStart
                               /\ start <= scan
      BY <3>1
    <3>3. \/ at' = at
          \/ /\ start # 0
             /\ EnterSplit(start, IF scan \in covered THEN scan - 1 ELSE scan)
      BY <1>5, <3>2 DEF ScanLine
    <3> QED BY <1>1, <2>1, <3>1, <3>2, <3>3 DEF EnterSplit
  <2>3. SegmentBytes'
    <3>1. CASE at' = "scan"
      BY <3>1 DEF SegmentBytes, Splitting
    <3>2. CASE at' = "split" /\ segStart' = line' /\ line' \in 1..Total /\ byteCount' = 0
      <4>1. line' - 1 + 1 = line' /\ ~ (segStart' < line') /\ line' \in 1..Total + 1
        <5>1. Total \in Nat /\ line' \in 1..Total /\ segStart' = line'
          BY <1>1, <3>2
        <5>2. line' \in Nat
          BY <5>1
        <5>3. \A n \in Nat : n - 1 + 1 = n /\ ~ (n < n)
          OBVIOUS
        <5>4. line' \in 1..Total + 1
          BY <5>1
        <5> QED BY <5>1, <5>2, <5>3, <5>4, Zenon
      <4>2. BytesBefore(file)[line'] - BytesBefore(file)[line'] = 0
        <5> HIDE DEF B
        <5>1. B[line'] \in Nat
          BY <1>1, <4>1
        <5> QED BY <5>1 DEF B
      <4> QED BY <2>1, <3>2, <4>1, <4>2 DEF SegmentBytes, Splitting, Counted, Bytes
    <3> QED BY <2>2, <3>1, <3>2
  <2> QED BY <1>2, <2>1, <2>3, ByteCapKept DEF BytesInv
<1>6. CASE TakeLine
  <2>1. /\ at = "split" /\ at' = "split" /\ line <= runEnd /\ ~ Overflows /\ line' = line + 1
        /\ byteCount' = byteCount + file[line].bytes
        /\ lastBlank' = IF file[line].blank THEN line ELSE lastBlank
        /\ UNCHANGED <<file, chunks, segStart>>
    BY <1>6 DEF TakeLine, Count, input
  <2>2. /\ segStart \in Nat /\ line \in Nat /\ byteCount \in Nat /\ lineCount = line - segStart
        /\ lastBlank \in Nat /\ 1 <= segStart /\ segStart <= line /\ line <= Total
        /\ lastBlank < line /\ (lastBlank # 0 => lastBlank >= segStart)
    BY <1>1, <2>1, SegmentPlace DEF Splitting, Counted
  <2>3. byteCount = B[line] - B[segStart]
    BY <1>2, <2>1, BytesAre
  <2>4. /\ B[line] \in Nat /\ B[segStart] \in Nat /\ B[line + 1] = B[line] + file[line].bytes
        /\ file[line].bytes \in Nat
    BY <1>1, <2>2, LineType DEF IInv
  <2> HIDE DEF B
  <2>5. byteCount' = B[line'] - B[segStart]
    BY <2>1, <2>2, <2>3, <2>4
  <2>6. CASE line = segStart
    <3>1. B[line] - B[segStart] <= MaxChunkBytes /\ lastBlank = 0
      BY <1>1, <2>2, <2>4, <2>6
    <3>2. lastBlank' = 0 \/ lastBlank' = line' - 1
      BY <2>1, <2>2, <3>1
    <3>3. SegmentBytes'
      <4>1. line' - 1 + 1 = line' /\ line' - 2 + 1 = line
        BY <2>1, <2>2
      <4> QED BY <2>1, <2>5, <3>1, <3>2, <4>1 DEF SegmentBytes, Splitting, Counted, Bytes, B
    <3> QED BY <1>2, <2>1, <3>3, ByteCapKept DEF BytesInv
  <2>7. CASE line # segStart
    <3>1. byteCount' <= MaxChunkBytes /\ byteCount <= MaxChunkBytes
      BY <1>1, <2>1, <2>2, <2>4, <2>7 DEF Overflows
    <3>3. SegmentBytes'
      <4>1. line' - 1 + 1 = line' /\ line' - 2 + 1 = line
        BY <2>1, <2>2
      <4> QED BY <2>1, <2>3, <2>5, <3>1, <4>1 DEF SegmentBytes, Splitting, Counted, Bytes, B
    <3> QED BY <1>2, <2>1, <3>3, ByteCapKept DEF BytesInv
  <2> QED BY <2>6, <2>7
<1>7. CASE Cut
  <2>1. /\ at = "split" /\ at' = "back" /\ line <= runEnd /\ Overflows
        /\ chunks' = Append(chunks, Chunk("Module", segStart, SegEnd))
        /\ segStart' = SegEnd + 1 /\ back' = SegEnd + 1 /\ byteCount' = 0
        /\ UNCHANGED <<file, line>>
    BY <1>7 DEF Cut, input
  <2>2. /\ segStart \in Nat /\ line \in Nat /\ byteCount \in Nat /\ lineCount = line - segStart
        /\ lastBlank \in Nat /\ 1 <= segStart /\ segStart <= line /\ line <= Total
        /\ lastBlank < line /\ (lastBlank # 0 => lastBlank >= segStart)
    BY <1>1, <2>1, SegmentPlace DEF Splitting, Counted
  <2>3. segStart < line
    BY <2>1, <2>2 DEF Overflows
  <2>4. /\ byteCount = B[line] - B[segStart]
        /\ B[line - 1] - B[segStart] <= MaxChunkBytes
        /\ byteCount <= MaxChunkBytes \/ lastBlank = 0 \/ lastBlank = line - 1
    BY <1>2, <2>1, <2>3, BytesAre
  <2>5. /\ SegEnd \in Nat /\ segStart <= SegEnd /\ SegEnd <= line - 1
        /\ SegEnd = line - 1 \/ byteCount <= MaxChunkBytes
    <3>1. byteCount <= MaxChunkBytes \/ lastBlank = 0 \/ lastBlank = line - 1
      BY <2>4
    <3>2. CASE lastBlank >= segStart
      BY <2>2, <2>3, <3>1, <3>2 DEF SegEnd
    <3>3. CASE ~ (lastBlank >= segStart)
      BY <2>2, <2>3, <3>3 DEF SegEnd
    <3> QED BY <3>2, <3>3
  <2>6. \A l \in (SegEnd + 1)..(line - 1) : ~ file[l].blank
    <3>1. \A l \in segStart..(line - 1) : l > lastBlank => ~ file[l].blank
      BY <2>1 DEF IInv, Segment, Splitting, Counted
    <3> QED BY <2>2, <2>5, <3>1 DEF SegEnd
  <2>7. /\ B[SegEnd] \in Nat /\ B[SegEnd + 1] \in Nat /\ B[line] \in Nat /\ B[segStart] \in Nat
        /\ B[line - 1] \in Nat
        /\ B[SegEnd] <= B[line - 1] /\ B[segStart] <= B[SegEnd + 1]
    BY <1>1, <2>2, <2>3, <2>5
  <2> HIDE DEF B
  <2>8. B[SegEnd] - B[segStart] <= MaxChunkBytes
    BY <1>1, <2>4, <2>7
  <2>9. B[line] - B[SegEnd + 1] <= MaxChunkBytes
    <3>1. CASE SegEnd = line - 1
      <4>1. SegEnd + 1 = line
        BY <2>2, <3>1
      <4> QED BY <1>1, <2>7, <4>1
    <3>2. CASE byteCount <= MaxChunkBytes
      BY <1>1, <2>4, <2>7, <3>2
    <3> QED BY <2>5, <3>1, <3>2
  <2>10. SegmentBytes'
    <3>1. line' - 1 + 1 = line' /\ back' - 1 + 1 = back' /\ back' = segStart'
      BY <2>1, <2>2, <2>5
    <3>2. B[segStart'] - B[segStart'] = 0
      BY <2>1, <2>7
    <3> QED BY <2>1, <2>6, <2>9, <3>1, <3>2 DEF SegmentBytes, Splitting, Counted, Bytes, B
  <2>11. ByteCap'
    BY <1>2, <2>1, <2>2, <2>5, <2>8, ByteCapAppended DEF B
  <2> QED BY <2>10, <2>11 DEF BytesInv
<1>8. CASE CountBack
  <2>1. /\ at = "back" /\ at' = "back" /\ back < line /\ back' = back + 1
        /\ byteCount' = byteCount + file[back].bytes
        /\ UNCHANGED <<file, chunks, segStart, line>>
    BY <1>8 DEF CountBack, Count, input
  <2>2. /\ segStart \in Nat /\ line \in Nat /\ back \in Nat
        /\ 1 <= segStart /\ segStart <= back /\ back \in 1..Total
    BY <1>1, <2>1, SegmentPlace DEF Splitting
  <2>3. /\ byteCount = B[back] - B[segStart]
        /\ B[line] - B[segStart] <= MaxChunkBytes
        /\ \A l \in segStart..(line - 1) : ~ file[l].blank
    BY <1>2, <2>1, BytesAre
  <2>4. /\ B[back] \in Nat /\ B[segStart] \in Nat /\ B[back + 1] = B[back] + file[back].bytes
        /\ file[back].bytes \in Nat
    BY <1>1, <2>2, LineType DEF IInv
  <2> HIDE DEF B
  <2>5. byteCount' = B[back'] - B[segStart]
    BY <2>1, <2>3, <2>4
  <2>6. line' - 1 + 1 = line /\ back' - 1 + 1 = back'
    BY <2>1, <2>2
  <2>7. SegmentBytes'
    BY <2>1, <2>3, <2>5, <2>6 DEF SegmentBytes, Splitting, Counted, Bytes, B
  <2> QED BY <1>2, <2>1, <2>7, ByteCapKept DEF BytesInv
<1>9. CASE TakeAfterCut
  <2>1. /\ at = "back" /\ at' = "split" /\ back = line /\ line' = line + 1
        /\ byteCount' = byteCount + file[line].bytes
        /\ lastBlank' = IF file[line].blank THEN line ELSE lastBlank
        /\ UNCHANGED <<file, chunks, segStart>>
    BY <1>9 DEF TakeAfterCut, Count, input
  <2>2. /\ segStart \in Nat /\ line \in Nat /\ lastBlank \in Nat
        /\ 1 <= segStart /\ segStart <= line /\ line \in 1..Total
        /\ lastBlank < line /\ (lastBlank # 0 => lastBlank >= segStart /\ file[lastBlank].blank)
    BY <1>1, <2>1, SegmentPlace DEF Splitting, Counted
  <2>3. /\ byteCount = B[line] - B[segStart]
        /\ B[line] - B[segStart] <= MaxChunkBytes
        /\ \A l \in segStart..(line - 1) : ~ file[l].blank
    BY <1>2, <2>1, BytesAre
  <2>4. lastBlank = 0
    BY <2>2, <2>3
  <2>5. /\ B[line] \in Nat /\ B[segStart] \in Nat /\ B[line + 1] = B[line] + file[line].bytes
        /\ file[line].bytes \in Nat
    BY <1>1, <2>2, LineType DEF IInv
  <2> HIDE DEF B
  <2>6. byteCount' = B[line'] - B[segStart]
    BY <2>1, <2>3, <2>5
  <2>7. line' - 1 + 1 = line' /\ line' - 2 + 1 = line /\ (lastBlank' = 0 \/ lastBlank' = line' - 1)
    BY <2>1, <2>2, <2>4
  <2>8. SegmentBytes'
    BY <2>1, <2>3, <2>6, <2>7 DEF SegmentBytes, Splitting, Counted, Bytes, B
  <2> QED BY <1>2, <2>1, <2>8, ByteCapKept DEF BytesInv
<1>10. CASE FlushTail
  <2>1. /\ at = "split" /\ at' = "scan" /\ line > runEnd /\ file' = file
        /\ chunks' = IF lineCount > 0 THEN Append(chunks, Chunk("Module", segStart, runEnd))
                                      ELSE chunks
    BY <1>10 DEF FlushTail, input
  <2>2. /\ segStart \in Nat /\ line \in Nat /\ runEnd \in Nat /\ runEnd = line - 1
        /\ lineCount = line - segStart
    BY <2>1, SegmentPlace DEF Splitting
  <2>3. SegmentBytes'
    BY <2>1 DEF SegmentBytes, Splitting
  <2>4. CASE lineCount > 0
    <3>1. B[runEnd] - B[segStart] <= MaxChunkBytes
      BY <1>2, <2>1, <2>2, <2>4, BytesAre
    <3> QED BY <1>2, <2>1, <2>2, <2>3, <2>4, <3>1, ByteCapAppended DEF BytesInv
  <2>5. CASE ~ (lineCount > 0)
    BY <1>2, <2>1, <2>3, <2>5, ByteCapKept DEF BytesInv
  <2> QED BY <2>4, <2>5
<1>11. CASE Window
  <2>1. at' \in {"windows", "done"} /\ file' = file /\ scan \in Nat
    BY <1>11 DEF Window, input, IInv, TypeOK
  <2>2. PICK to : /\ to = IF scan + WindowLines - 1 <= Total THEN scan + WindowLines - 1 ELSE Total
                  /\ chunks' = Append(chunks, Chunk("Window", scan, to))
    BY <1>11 DEF Window
  <2>3. to \in Nat
    BY <1>1, <2>1, <2>2, CapAssumption
  <2> QED BY <1>2, <2>1, <2>2, <2>3, ByteCapAppended DEF BytesInv, SegmentBytes, Splitting
<1>12. CASE Done \/ UNCHANGED vars
  <2>1. UNCHANGED <<file, chunks, at, segStart, line, back, byteCount, lastBlank>>
    BY <1>12 DEF Done, vars, input, splitter
  <2> QED BY <1>2, <2>1, ByteCapKept DEF BytesInv, SegmentBytes, Splitting, Counted, Bytes
<1> QED BY <1>3, <1>4, <1>5, <1>6, <1>7, <1>8, <1>9, <1>10, <1>11, <1>12 DEF Next

(* No Module chunk exceeds MAX_CHUNK_LINES: what a cut carries over is      *)
(* shorter than the segment, so there is room for the untested line.  For   *)
(* the bytes there may be no room, but then the very next line is cut off:  *)
(* what comes before the last line of a chunk is within MAX_CHUNK_BYTES.    *)
THEOREM CapsHold == Spec => []CapsKept
<1>1. Init => BytesInv
  BY DEF Init, BytesInv, SegmentBytes, Splitting, ByteCap, ModuleChunks
<1>2. IInv /\ BytesInv /\ [Next]_vars => BytesInv'
  BY StepBytes
<1>3. IInv /\ BytesInv => CapsKept
  BY DEF IInv, LineCap, BytesInv, ByteCap, CapsKept
<1> QED BY <1>1, <1>2, <1>3, Inductive, PTL DEF Spec

(* split_module_run cuts at a blank line whenever the segment has one.      *)
THEOREM CutAtBlankLines == Spec => []CutsAtBlank
<1>1. IInv => CutsAtBlank
  <2> SUFFICES ASSUME IInv, NEW i \in ModuleChunks, NEW j \in ModuleChunks,
                      chunks[j].start = chunks[i].end + 1
               PROVE  \/ file[chunks[i].end].blank
                      \/ \A l \in LinesOf(chunks[i]) : ~ file[l].blank
    BY DEF CutsAtBlank
  <2>1. j \in 1..Len(chunks) /\ i \in 1..Len(chunks)
    BY DEF ModuleChunks
  <2>2. /\ chunks[j].start \in Nat /\ chunks[j].start <= Total
        /\ chunks[i].end \in Nat /\ Total \in Nat
        /\ chunks[j].end \in Nat /\ chunks[j].start <= chunks[j].end
    BY <2>1, ChunkTyped, LineType DEF IInv, Shapes
  <2>3. chunks[j].start \notin covered
    BY <2>2 DEF IInv, ModulesApart, LinesOf
  <2>4. chunks[i].end # Total /\ chunks[i].end + 1 \notin covered
    BY <2>2, <2>3
  <2> QED BY <2>4 DEF IInv, Seams
<1> QED BY <1>1, Inductive, PTL

(* chunk_windows: each window overlaps the one before it by WINDOW_OVERLAP  *)
(* lines and goes beyond it, the shorter last one included.                 *)
THEOREM WindowsOverlapping == Spec => []WindowsOverlap
<1>1. IInv => WindowsOverlap
  <2> SUFFICES ASSUME IInv, NEW i \in 1..(Len(chunks) - 1), chunks[i].kind = "Window"
               PROVE  /\ chunks[i + 1].start = chunks[i].end - WindowOverlap + 1
                      /\ chunks[i + 1].end > chunks[i].end
    BY DEF WindowsOverlap
  <2>1. i \in 1..Len(chunks)
    BY ChunkTyped DEF IInv
  <2>2. ~ parsed
    BY <2>1 DEF IInv, Shapes
  <2> QED BY <2>2 DEF IInv, Windows
<1> QED BY <1>1, Inductive, PTL
=============================================================================
