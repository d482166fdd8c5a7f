SPECIFICATION FairSpec
CONSTANTS
    w1 = w1
    w2 = w2
    api = api
    Api = api
    NoRun = NoRun
    NoWorker = NoWorker
    Runs <- TwoRuns
    Workers <- OneWorker
    Processes <- OneWorkerAndApi
    ExecutorResults <- AllResults
    HostRuns <- NoRuns
    CancellableRuns <- TwoRuns
    ReaperDeployed = TRUE
    MaxParallel = 1
    AttemptBound = 2
    LeaseSeconds = 1
    MaxAttempts = 2
    RetryOn <- RetryInfra
    HasRetryScheduler = FALSE
    MaxStops = 0
    MaxCrashes = 0
PROPERTY CancelConverges
