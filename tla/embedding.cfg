\* One process after the other on one index: models come, go and change, the
\* environment is set anew, the repository is edited and moved.
SPECIFICATION RunSpec
CONSTANTS
  p1 = p1
  p2 = p2
  c1 = c1
  r1 = r1
  r2 = r2
  s1 = s1
  s2 = s2
  d1 = d1
  d2 = d2
  m1 = m1
  m2 = m2
  m3 = m3
  g1 = g1
  g2 = g2
  Paths = {p1, p2}
  Contents = {c1}
  Absent = Absent
  Spans = {s1, s2}
  ChunkFile <- MCChunkFile
  Parsed = {p1}
  FEATURE_HASH_ID = FEATURE_HASH_ID
  EMBEDDINGGEMMA_ID = EMBEDDINGGEMMA_ID
  Embedders = {FEATURE_HASH_ID, EMBEDDINGGEMMA_ID, g1, g2}
  Dim <- MCDim
  EMBED_DIM = 2
  MATRYOSHKA_DIM = 1
  GgufId <- MCGgufId
  Dirs = {d1, d2}
  Weights = {m1, m2, m3}
  Checkpoints <- MCCheckpoints
  NoCheckpoint = NoCheckpoint
  NoPath = NoPath
  RepoIds = {r1, r2}
  Placeholder = Placeholder
  NoEmbedder = NoEmbedder
  Workers = {w1}
  Idle = Idle
  LegacyEmbedders = {}
  MaxStarts = 3
  MaxEdits = 1
  MaxSwaps = 2
INVARIANTS
  OneEmbedder
  QuietForceRecovers
  AnswersFromOneModel
