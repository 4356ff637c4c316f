\* The shutdown, and a connection being registered.
CONSTANT Clients = {c1}
SPECIFICATION Spec
CHECK_DEADLOCK FALSE
PROPERTY CancelEnds
