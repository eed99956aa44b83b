CONSTANTS
  NoId = NoId
  UnknownField = UnknownField
  Inputs <- MCInputs
SPECIFICATION Spec
INVARIANTS
  SameAsOneCall
  EveryRoundAgreed
  NoCandidateLeftOut
  RefusedForCause
PROPERTY Terminates
CHECK_DEADLOCK FALSE
