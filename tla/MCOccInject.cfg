CONSTANTS
  Tables = {"a", "b", "c"}
  Inject <- DisjointRules
  Autocommit = FALSE
  MaxCommits = 7
SPECIFICATION Spec
INVARIANTS TouchedByThisTxn FailsEveryNth
