SPECIFICATION Spec
CONSTANTS
    Bufs = {b1, b2, b3}
    RxSize = 1
    Burst = 2
INVARIANT FilterInstalled
CHECK_DEADLOCK FALSE
