\* Violated: a count that could not be taken counts as nothing left.
CONSTANTS
  Groups <- TwoGroups
  NoGroup = ""
  Absent = Absent
  Torn = Torn
  Suites <- MovingSuites
  StepAnswers <- JobAnswers
  RaceAnswers <- EitherLoses
  Objects <- TwoObjects
  DroppedFirst <- FirstObject
  schemaAttempts = 3
  Versions = {"v"}
  MaxRuns = 2
SPECIFICATION Spec
INVARIANT CleanupReportTruthful
\* The command may be run no more.
CHECK_DEADLOCK FALSE
