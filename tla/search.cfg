\* Two files, one of them between two versions or gone, changing twice while a
\* search of each kind runs.
SPECIFICATION Spec
CONSTANTS
  Files = {"a", "b"}
  Versions <- MCVersions
  IdOrder <- MCIdOrder
  Boosting <- MCVersionsBoosting
  Cosine <- MCCosine
  Alike <- MCAlike
  Requests <- MCRequests
  NoWeight = NoWeight
  NotFinite = NotFinite
  RrfK = 1
  Scale = 12
  StructuralBoost = 3
  SimUnit = 4
  MaxChanges = 2
INVARIANTS
  TypeOK
  HitsDisjoint
  DroppedForAKeptOne
  FusionRespectsRankings
  DiversityKeepsBest
  UnchangedFilesAnswered
\* A search ends with its answer.
CHECK_DEADLOCK FALSE
