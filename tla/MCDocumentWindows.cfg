CONSTANTS
  Slack = 2
  Inputs <- MCInputs
SPECIFICATION Spec
INVARIANTS
  TextIsCovered
  PhrasesSurvive
PROPERTY Terminates
