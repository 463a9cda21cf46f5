SPECIFICATION FairSpec
CONSTANTS
    Bufs = {b1, b2, b3, b4, b5}
    RxSize = 2
    Burst = 2
    Garbage = Garbage
INVARIANTS Accounted ReadsOwnBuffer
PROPERTIES DeafInTheEnd
CHECK_DEADLOCK FALSE
