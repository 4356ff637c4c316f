SPECIFICATION Spec
INVARIANTS DDLAlone AgeRespected OpenBlockTracked LoopsMatchAdmit IInv
CONSTANTS
  MaxAge = 1
  Batches <- QueryBatches
  NestedBegin = FALSE
  BatchesPerSync = 1
  MaxClock = 4
