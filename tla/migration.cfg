\* Three processes open an index of any age three times in all, and die anywhere.
SPECIFICATION Spec
CONSTANTS
  Paths = {p1, p2}
  Workers = {w1, w2, w3}
  RepoId = RepoId
  Placeholder = Placeholder
  NoRepo = NoRepo
  MaxOpens = 3
SYMMETRY Symmetry
INVARIANTS
  TypeOK
  Settled
  QuietReindexNames
PROPERTIES
  NewerOnlyAddedTo
  PathsKept
