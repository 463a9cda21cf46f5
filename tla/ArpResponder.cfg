SPECIFICATION NoisySpec
CONSTANTS
    Bufs = {b1, b2, b3, b4, b5}
    RxSize = 1
    TxSize = 1
    MaxReplies = 2
INVARIANTS TypeOK Accounted DryOnlyByDrops
PROPERTIES ForeignFramesStarve
CHECK_DEADLOCK FALSE
