SPECIFICATION FairSpec
CONSTANTS
    w1 = w1
    w2 = w2
    api = api
    Api = api
    NoRun = NoRun
    NoWorker = NoWorker
    Runs <- TwoRuns
    Workers <- TwoWorkers
    Processes <- TwoWorkersAndApi
    ExecutorResults <- SuccessInfraIdentity
    HostRuns <- TwoRuns
    CancellableRuns <- OneRun
    ReaperDeployed = TRUE
    MaxParallel = 1
    AttemptBound = 2
    LeaseSeconds = 1
    MaxAttempts = 2
    RetryOn <- RetryInfra
    HasRetryScheduler = FALSE
    MaxStops = 1
    MaxCrashes = 1
INVARIANTS
    TypeOK
    LeaseHasLiveRun
    VerdictIsBacked
    BoundedParallelism
    NoDoubleExecution
PROPERTIES
    TerminalIsFinal
    RunsConverge
