SPECIFICATION FairSpec
CONSTANTS
    l1 = l1
    l2 = l2
    r1 = r1
    s1 = s1
    s2 = s2
    Procs <- MCProcs
    Loaders <- MCLoaders
    Runner = r1
    MaxCrashes = 1
    PanelFile <- MCPanelFile
    ConfigFile <- MCConfigFile
    BadRows <- MCBadRows
    CHUNK = 2
    StalePanel <- MCStalePanel
    StaleConfig <- MCStaleConfig
    Policies <- MCPolicies
    Absent = Absent
    None = None
    Unit = 4
    NoStock = NoStock
    Demands <- MCDemands
    Factors <- MCFactors
    Cutoff = 2
    TestStart = 3
INVARIANTS PanelIsAPrefix ReseedChangesNothing RunAfterASeedSeesTheFile OrderCoversDemand WhatIfAgrees NoOrderWithoutRisk
PROPERTIES SeedCompletes
CHECK_DEADLOCK FALSE
