SPECIFICATION Spec
CONSTANTS
    Runs <- TwoRuns
    Attempts <- ThreeAttempts
    Outcomes <- OneOfEachKind
    Plans <- OneOfEachGate
    MaxAttempts = 2
CHECK_DEADLOCK FALSE
INVARIANTS WinnerIsBacked SpecIsUsable SpecIsASnapshot CleanRunIsOfOneAttempt BlobsExist PinResolves CompletedRunHasForecast
PROPERTIES LatestIsMonotone
