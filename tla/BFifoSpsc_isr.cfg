SPECIFICATION Spec
CONSTANTS
    BufLen = 2
    MaxChunk = 2
    MaxBytes = 5
    Regimes <- OneInHandler
INVARIANT InOrder
