\* The transaction after a doomed one.
CONSTANTS
  MaxAge = 0
  None = None
  Window = 1
  IdSpace = 2
  MaxStatements = 2
  SyncRace = FALSE
  Requests <- InsertTransactions
SPECIFICATION Spec
INVARIANT ConflictAtCommit
CHECK_DEADLOCK FALSE
