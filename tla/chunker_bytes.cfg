\* Files without symbols.
SPECIFICATION Spec
CONSTANTS
  Lines <- MCLines
  MaxFileLines = 5
  MaxSymbols = 0
  MaxChunkLines = 3
  MaxChunkBytes = 7
  WindowLines = 3
  WindowOverlap = 1
INVARIANT ModuleBytesBounded
