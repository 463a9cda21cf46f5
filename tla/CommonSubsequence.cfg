SPECIFICATION MaxCommSpec
CONSTANTS
    MaxCount = 1
    MaxText = 2
    MaxAmount = 3
    MaxNumber = 2
    MaxSize = 2
    MaxOperators = 1
INVARIANT LongestCommon
CHECK_DEADLOCK FALSE
