SPECIFICATION Programs
CONSTANTS
    Node = {n1, n2, n3, n4}
    Value = {1, 2}
    Null = Null
    Element = {0, 1, 2, 3}
    MaxElements = 5
    Wheels = 2
    Digits = 3
    Char = {1, 2, 3}
    MaxText = 5
    MaxTarget = 3
INVARIANTS Linked NoLeakNoDangling SortsSort FewestTurns WindowsExact
PROPERTIES IsDeque CallsReturn
CHECK_DEADLOCK FALSE
