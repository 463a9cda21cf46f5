SPECIFICATION AnyProgram
CONSTANTS
    Address = {a1, a2, a3, a4}
    Nil = Nil
    Number = {1, 2, 3}
    Root = Root
    MaxLevel = 3
    Key = {1, 2, 3, 4, 5, 6, 7}
    MaxCount = 5
    MaxText = 5
    MaxAmount = 16
    MaxNumber = 8
    MaxSize = 6
    MaxOperators = 3
SYMMETRY AddressSymmetry
INVARIANTS PrintsTheList TreeExact StackTraversals OptimaExact SearchesExact CalculatorExact
PROPERTIES NothingRepairs SortedByCutting SkipExact
CHECK_DEADLOCK FALSE
