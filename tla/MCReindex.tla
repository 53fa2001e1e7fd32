----------------------------- MODULE MCReindex -----------------------------
EXTENDS Reindex, TLC
CONSTANTS r1, r2, p1, p2, c1, c2, s1, s2, e1, e2

\* c1 is cut into a symbol and a module chunk, c2 into one chunk that has the
\* span of the first of c1: an edit frees a rowid and reuses a chunk id.
MCChunkFile ==
  [f \in Paths \X Contents |->
     IF f[2] = c1
       THEN <<[span |-> s1, symbol |-> f[1] \in Parsed],
              [span |-> s2, symbol |-> FALSE]>>
       ELSE <<[span |-> s1, symbol |-> FALSE]>>]
SameWidth == [e \in Embedders |-> 1]
MCParsed == {p1}
\* One of the files is there at first: the edit may change it, delete it or add
\* or change the other.
RaceInit == Init /\ disk[p1] = c1 /\ root = r1
RaceSpec == RaceInit /\ [][Next]_vars
WorkerSymmetry == Permutations(Workers)
=============================================================================
