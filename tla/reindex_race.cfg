\* Two processes reindex, three times in all, while the tree changes once.
SPECIFICATION RaceSpec
CONSTANTS
  p1 = p1
  p2 = p2
  c1 = c1
  c2 = c2
  s1 = s1
  s2 = s2
  e1 = e1
  e2 = e2
  Paths = {p1, p2}
  Contents = {c1, c2}
  Absent = Absent
  Spans = {s1, s2}
  ChunkFile <- MCChunkFile
  Parsed <- MCParsed
  Embedders = {e1}
  Dim <- SameWidth
  r1 = r1
  r2 = r2
  RepoIds = {r1, r2}
  Placeholder = Placeholder
  NoEmbedder = NoEmbedder
  Workers = {w1, w2}
  Idle = Idle
  LegacyEmbedders = {e1}
  MaxStarts = 3
  MaxEdits = 1
SYMMETRY WorkerSymmetry
INVARIANTS
  TypeOK
  RowBinding
  HashTruth
  NothingOrphaned
  QuietReindexExact
PROPERTIES
  IncrementalKeepsCurrent
  PerFileAtomic
