SPECIFICATION Spec
CONSTANTS
    Runs <- TwoRuns
    Attempts <- ThreeAttempts
    Outcomes <- OneOfEachKind
    Plans <- OnlyQueue
    MaxAttempts = 2
CHECK_DEADLOCK FALSE
INVARIANTS IntermittentOnlyUnchecked
