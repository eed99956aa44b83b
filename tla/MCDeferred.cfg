CONSTANTS
  Key = {"k1", "k2"}
  Content = {"memo", "form"}
  SpecVersion = {1, 2}
  Setup = {1, 2}
  Work <- MCWork
  Deliveries <- MCDeliveries
  Batch = {1, 2}
  Submissions <- MCSubmissions
  FirstContent <- MCFirstContent
  MaxMishaps = 1
  Nothing = Nothing
SPECIFICATION Spec
INVARIANTS
  AnswersMatchQuestions
  DuplicatesNeverSubmitted
  RefusedForOwnCause
PROPERTIES
  ImplementsPromise
  Settles

CHECK_DEADLOCK FALSE
