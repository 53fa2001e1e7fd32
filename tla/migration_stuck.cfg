\* Two processes: the rewrite of the placeholder rows can fail for good.
SPECIFICATION Spec
CONSTANTS
  Paths = {p1, p2}
  Workers = {w1, w2}
  RepoId = RepoId
  Placeholder = Placeholder
  NoRepo = NoRepo
  MaxOpens = 3
SYMMETRY Symmetry
INVARIANT NeverStuck
