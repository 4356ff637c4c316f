\* A lock-step client some of whose statements are refused.
CONSTANTS
  MaxAge = 0
  None = None
  Window = 1
  IdSpace = 2
  MaxStatements = 2
  SyncRace = FALSE
  Requests <- RefusedClients
SPECIFICATION Spec
INVARIANTS  AnswerComplete AbortedStaysFailed
PROPERTY Answered
\* A session that stops answering violates Answered.
CHECK_DEADLOCK FALSE
