\* Two files that come and go: two edits at any moment, one reindex that fails, one
\* restart, and one event of another file or of the registry.
SPECIFICATION OneFileSpec
CONSTANTS
  p1 = p1
  p2 = p2
  c1 = c1
  c2 = c2
  s1 = s1
  s2 = s2
  e1 = e1
  e2 = e2
  Paths = {p1, p2}
  Contents = {c1}
  Absent = Absent
  Spans = {s1, s2}
  ChunkFile <- MCChunkFile
  Parsed <- MCParsed
  Embedders = {e1}
  Dim <- SameWidth
  RepoIds = {r1}
  Placeholder = Placeholder
  NoEmbedder = NoEmbedder
  Workers = {w1}
  Watcher = w1
  Idle = Idle
  LegacyEmbedders = {}
  MaxStarts = 5
  MaxEdits = 2
  MaxFaults = 1
  MaxBoots = 1
  MaxExtras = 1
INVARIANTS
  WatchTypeOK
  EveryReindexHasACause
PROPERTY CatchesUp
