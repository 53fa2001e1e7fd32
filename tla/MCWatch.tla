------------------------------ MODULE MCWatch ------------------------------
EXTENDS Watch, TLC
CONSTANTS p1, p2, c1, c2, s1, s2, e1, e2

\* The chunks of MCReindex.
MCChunkFile ==
  [f \in Paths \X Contents |->
     IF f[2] = c1
       THEN <<[span |-> s1, symbol |-> f[1] \in Parsed],
              [span |-> s2, symbol |-> FALSE]>>
       ELSE <<[span |-> s1, symbol |-> FALSE]>>]
SameWidth == [e \in Embedders |-> 1]
MCParsed == {p1}

\* One file is there at first: an edit may change it, delete it or add the other.
OneFileInit == WatchInit /\ disk = [p \in Paths |-> IF p = p1 THEN c1 ELSE Absent]
OneFileSpec == OneFileInit /\ [][WatchNext]_allVars /\ WF_allVars(WatcherStep)
=============================================================================
