CONSTANTS
  Documents <- MCDocuments
  Bindings <- MCManyPatterns
  Literals <- MCLiterals
  Filters <- MCFilters
  ChunkLength = 2
  Overlap = 1
  MaxFound = 4
  OpenLength = 2
  CloseLength = 1
SPECIFICATION Spec
INVARIANTS
  ContextsAreKept
CHECK_DEADLOCK FALSE
