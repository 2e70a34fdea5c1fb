CONSTANTS
    r1 = r1  r2 = r2  w1 = w1  w2 = w2
    Readers <- TwoReaders
    Writers <- TwoWriters
    MaxDepth = 2  MaxReaders = 4
    Cancellable <- All
SPECIFICATION Spec
INVARIANTS NoLeakedGrant
CHECK_DEADLOCK FALSE
