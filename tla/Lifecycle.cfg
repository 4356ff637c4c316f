\* One connection, from its accept to its end.
CONSTANT Clients = {c1}
SPECIFICATION Spec
\* All connections may be closed for good.
CHECK_DEADLOCK FALSE
INVARIANTS NothingLeft IInv TrailingResponse
PROPERTIES LeavingEnds SweptEnds
