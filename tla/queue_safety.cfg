SPECIFICATION FairSpec
CONSTANTS
    Runs <- OneRun
    Panel <- TwoSkus
    Unknown <- ASkuNotInThePanel
    Concurrency <- NoneToTwoTasks
    MaxAttempts = 2
    MaxFaults = 2
    NoWorker = NoWorker
    NoSku = NoSku
INVARIANTS QueueInvariant ClaimExclusive AttemptsBounded CompletedHasResult CompletedRunSettled NoneLeftBehind
PROPERTIES ImplementsLifecycle RunCompletes LoopEnds
