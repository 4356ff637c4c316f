\* The command run twice: a first record and one that replaces it, with
\* every failure between any two steps.
CONSTANTS
  Groups <- TwoGroups
  NoGroup = ""
  Absent = Absent
  Torn = Torn
  Suites <- MovingSuites
  StepAnswers <- JobAnswers
  RaceAnswers <- EitherLoses
  Objects <- TwoObjects
  DroppedFirst <- FirstObject
  schemaAttempts = 3
  Versions = {"v"}
  MaxRuns = 2
SPECIFICATION Spec
INVARIANTS SavedLoads RecordIsEvidence 
  NothingLeftBehind
PROPERTIES NeverEmptied RunEnds
\* The command may be run no more.
CHECK_DEADLOCK FALSE
