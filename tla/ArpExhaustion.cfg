SPECIFICATION Spec
CONSTANTS
    Bufs = {b1, b2, b3, b4}
    RxSize = 1
    TxSize = 1
    MaxReplies = 1
INVARIANT ExhaustionExits
CHECK_DEADLOCK FALSE
