SPECIFICATION Spec
CONSTANTS
    Runs <- OneRun
    Panel <- TwoSkus
    Unknown <- NoSkus
    Concurrency <- NoneToTwoTasks
    MaxAttempts = 2
    MaxFaults = 0
    NoWorker = NoWorker
    NoSku = NoSku
INVARIANTS NoneQueuedForever
