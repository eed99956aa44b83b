CONSTANTS
  Run = {"r1", "r2", "r3"}
  SourceOf <- MCSourceOf
  SpecOf <- MCSpecOf
  ArtifactOf <- MCArtifactOf
  Preloaded <- AllButSpec
  Overlap = TRUE
  NoFile = NoFile
SPECIFICATION Spec
INVARIANTS
  TearsHeal
PROPERTIES
  NothingIsDeleted
  RefusedByOverlap
