SPECIFICATION FairSpec
CONSTANTS
    BufLen = 3
    MaxChunk = 3
    MaxBytes = 6
    Regimes <- Safe
INVARIANTS InOrder NoLoss
PROPERTY Delivered
