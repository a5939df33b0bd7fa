SPECIFICATION Spec
CONSTANTS
    Byte = {0, 1}
    MaxBufLen = 3
    MinPut = 1
    MaxLen = 4
    NULL = NULL
INVARIANTS TypeOK FullFlagAgrees
PROPERTIES QueueSpec AllOrNothing
