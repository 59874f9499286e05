SPECIFICATION Spec
CONSTANTS
    ProbeMethods <- ConfiguredProbe
    EnabledGlobal <- ConfiguredEnabled
    EscalateDense <- ConfiguredEscalate
    Maes <- ThreeErrors
    DeltaPct = 2
    EpsPct = 0
CHECK_DEADLOCK FALSE
INVARIANTS ResultIsAColdOutcome WinnerIsBest OverrideIsIntermittent RollbackIsWholeAndJust
