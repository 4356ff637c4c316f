\* Lock-step clients, one of each kind, whose statements meet lock conflicts.
CONSTANTS
  MaxAge = 0
  None = None
  Window = 1
  IdSpace = 2
  MaxStatements = 2
  SyncRace = FALSE
  Requests <- ConflictClients
SPECIFICATION Spec
INVARIANTS ExchangeAccounting HiddenOwnsStream TrackerTruthful StatusTruthful PreparedTruthful
PROPERTY ImplementsDsql
\* A session that stops answering violates ImplementsDsql.
CHECK_DEADLOCK FALSE
