\* A client that waits for each answer.
CONSTANTS
  Requests <- LockStepRequests
  Window = 1
  MaxSent = 4
  ShowFails = FALSE
SPECIFICATION Spec
CHECK_DEADLOCK FALSE
INVARIANTS JobOnOwnStatement TagTruthful DescribedOnce
