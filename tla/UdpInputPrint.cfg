SPECIFICATION Spec
CONSTANTS
    Bufs = {b1, b2, b3, b4}
    RxSize = 2
    Burst = 2
    Garbage = Garbage
INVARIANT PrintsTheFrame
CHECK_DEADLOCK FALSE
