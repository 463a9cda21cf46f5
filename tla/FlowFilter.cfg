SPECIFICATION NoisySpec
CONSTANTS
    Bufs = {b1, b2, b3, b4}
    RxSize = 2
    Burst = 2
INVARIANTS Accounted
PROPERTIES NoiseDeafens
CHECK_DEADLOCK FALSE
