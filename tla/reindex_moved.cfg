\* A repository with one file is moved and the file deleted between two reindexes.
SPECIFICATION Spec
CONSTANTS
  r1 = r1
  r2 = r2
  p1 = p1
  p2 = p2
  c1 = c1
  c2 = c2
  s1 = s1
  s2 = s2
  e1 = e1
  e2 = e2
  Paths = {p1}
  Contents = {c1, c2}
  Absent = Absent
  Spans = {s1, s2}
  ChunkFile <- MCChunkFile
  Parsed <- MCParsed
  Embedders = {e1}
  Dim <- SameWidth
  RepoIds = {r1, r2}
  Placeholder = Placeholder
  NoEmbedder = NoEmbedder
  Workers = {w1}
  Idle = Idle
  LegacyEmbedders = {}
  MaxStarts = 2
  MaxEdits = 2
INVARIANT VanishedFilesRemoved
