----------------------------- MODULE MCChunker -----------------------------
EXTENDS Chunker

\* A blank, a short and a long line; as in the code, two of the longest lines
\* (MAX_LINE_BYTES in walker.rs) do not fit into one chunk, by the newlines.
MCLines == {[bytes |-> 1, blank |-> TRUE], [bytes |-> 2, blank |-> FALSE],
            [bytes |-> 4, blank |-> FALSE]}
=============================================================================
