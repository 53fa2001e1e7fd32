---------------------------- MODULE MCEmbedding ----------------------------
EXTENDS Embedding
CONSTANTS r1, r2, p1, p2, c1, s1, s2, d1, d2, m1, m2, m3, g1, g2

MCChunkFile ==
  [f \in Paths \X Contents |->
     <<[span |-> s1, symbol |-> f[1] \in Parsed], [span |-> s2, symbol |-> FALSE]>>]
MCDim == [e \in Embedders |-> IF e = EMBEDDINGGEMMA_ID THEN MATRYOSHKA_DIM ELSE EMBED_DIM]
MCGgufId == [d \in Dirs |-> IF d = d1 THEN g1 ELSE g2]

Bert(width, loads, w) ==
  [model_type |-> "bert", hidden_size |-> width, loads |-> loads, weights |-> w]
MCCheckpoints ==
  {Bert(2, TRUE, m1), Bert(2, TRUE, m2), Bert(3, TRUE, m1),
   [model_type |-> "gemma3_text", hidden_size |-> 3, loads |-> TRUE, weights |-> m3]}

\* One file is there; a model is configured, and may or may not lie there.
RunInit ==
  /\ EmbeddingInit
  /\ root = r1
  /\ job = [w \in Workers |-> [force |-> FALSE, emb |-> FEATURE_HASH_ID, rid |-> r1]]
  /\ disk = [p \in Paths |-> IF p = p1 THEN c1 ELSE Absent]
  /\ conf = [w \in Workers |-> [gguf_embed |-> TRUE, path |-> d1]]
  /\ shelf[d1] \in {Bert(2, TRUE, m1), NoCheckpoint}
  /\ shelf[d2] = Bert(2, TRUE, m2)
RunSpec == RunInit /\ [][EmbeddingNext]_allVars
=============================================================================
