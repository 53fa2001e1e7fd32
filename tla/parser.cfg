\* Every syntax tree of up to MaxNodes nodes below the root, in each fragment.
SPECIFICATION Spec
CONSTANTS
  Grammars <- MCGrammars
  MaxNodes = 4
INVARIANTS
  TypeOK
  DocumentOrder
  LostOnlyInside
  MirrorsFunctions
  ImportsOnce
  MethodsTagged
\* Once the last walk has returned nothing is left to do.
CHECK_DEADLOCK FALSE
