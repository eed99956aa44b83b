CONSTANTS
  Documents <- MCDocuments
  Bindings <- MCBindings
  Literals <- MCLiterals
  Filters <- MCFilters
  ChunkLength = 2
  Overlap = 1
  MaxFound = 2
  OpenLength = 2
  CloseLength = 1
SPECIFICATION Spec
INVARIANTS
  AnchorsAreAccurate
CHECK_DEADLOCK FALSE
