\* Every file of up to five lines and every one or two spans of symbols in it.
SPECIFICATION Spec
CONSTANTS
  Lines <- MCLines
  MaxFileLines = 5
  MaxSymbols = 2
  MaxChunkLines = 3
  MaxChunkBytes = 7
  WindowLines = 3
  WindowOverlap = 1
INVARIANTS
  TypeOK
  SpansDistinct
  CoversFile
  CapsKept
  CutsAtBlank
  WindowsOverlap
