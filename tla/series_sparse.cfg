CONSTANTS
    Months <- MCMonths
    ValStart = 5
    TestStart = 8
    TestEnd = 10
    Nothing = Nothing
    NSplits = 3
    MinTrain = 3
    AlphaInv = 2
    EpsInv = 32
    DenseLastN = 3
SPECIFICATION Spec
INVARIANT IntermittentOnlyIfSparse
CHECK_DEADLOCK FALSE
