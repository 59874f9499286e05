SPECIFICATION Spec
CONSTANTS
    Errors <- ErrorLevels
    Params <- Searched
    Default = 1
    DriftPct = 20
    ColdSpecs <- OneOfEachVariant
    MaxRuns = 3
INVARIANTS ChainKeepsItsOrigin GateMeasuresFromCold 
 
