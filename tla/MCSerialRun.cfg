CONSTANTS
  NumFields = 3
  FieldCard <- MCFieldCard
  Cand = {"a1", "a2", "b1", "b2", "c1", "c2", "c3"}
  FieldOf <- MCFieldOf
  LineOf <- MCLineOf
  Structured = {"a2"}
  Layer1Bad = {"c3"}
  Layer2Bad = {"c1"}
  Layer3 <- MCLayer3
  Document = Document
  NoInstance = NoInstance
  NoCand = NoCand
  Setups <- MCSetups
SPECIFICATION Spec
INVARIANTS
  TypeOK
  EvidenceIsCurrent
  CompleteMeansWhole
  Layer3IsFresh
  FailuresAreRetried
  NothingVanishes
  OneFieldOneInstance
  ArtifactKeepsEvidence
PROPERTY RepairIsConfined
