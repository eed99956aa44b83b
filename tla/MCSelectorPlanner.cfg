CONSTANTS
  NumTasks = 3
  NoBudget = NoBudget
  Inputs <- MCInputs
SPECIFICATION Spec
INVARIANTS
  CallsFit
  TasksInOrder
  ShardsInOrder
  NoNeedlessSplit
