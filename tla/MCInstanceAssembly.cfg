SPECIFICATION Spec
CONSTANTS
  n1 = n1
  n2 = n2
  t1 = t1
  t2 = t2
  m1 = m1
  w1 = w1
  raw = raw
  odd = odd
  norm = norm
  MCRefused = MCRefused
  MCNone = MCNone
  Fields <- MCFields
  Cand <- MCCand
  FieldOf <- MCFieldOf
  SpanOf <- MCSpanOf
  Newlines <- MCNewlines
  TextEnd = 20
  Whole <- MCWhole
  MaxInstances = 2
  TextOf <- MCTextOf
  Refused <- MCRefused
  None <- MCNone
  Layer1Bad = {}
  SchemaFields = {1, 2, 3, 4}
  ListFields = {4}
  Coerce <- MCCoerce
  BoundFields = {1, 2, 3}
  Normalize <- MCNormalize
  Validators <- MCValidators
  AfterRejects <- MCAfterRejects
  NumAfter = 1
  IssuesOf <- MCIssuesOf
  NumObject = 1
  Implicates <- MCImplicates
  MaxIds = 2
INVARIANTS
  SelectedScopeDecides
  NothingVanishes
  OrderDoesNotDecide
CHECK_DEADLOCK FALSE
