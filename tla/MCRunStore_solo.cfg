CONSTANTS
  Run = {"r1", "r2", "r3"}
  SourceOf <- MCSourceOf
  SpecOf <- MCSpecOf
  ArtifactOf <- MCArtifactOf
  Preloaded <- NoObject
  Overlap = FALSE
  NoFile = NoFile
SPECIFICATION Spec
INVARIANTS
  VisibleIsWhole
  ManifestResolves
  PutsAreIdempotent
PROPERTIES
  ImplementsArchive
