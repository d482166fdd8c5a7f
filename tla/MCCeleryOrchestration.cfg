SPECIFICATION FairSpec
CONSTANTS
    w1 = w1
    w2 = w2
    t1 = t1
    api = api
    Api = api
    NoRun = NoRun
    TaskWorkers <- OneTaskWorker
    Runs <- OneRun
    Workers <- TwoManagers
    Processes <- TwoManagersAndApi
    ExecutorResults <- SuccessOrInfra
    CancellableRuns <- OneRun
    AmbiguousRuns <- OneRun
    Redeliveries = 1
    MaxParallel = 1
    AttemptBound = 4
    LeaseSeconds = 1
    MaxAttempts = 3
    RetryOn <- RetryInfra
    HasRetryScheduler = TRUE
    MaxCrashes = 1
    MaxTaskCrashes = 1
INVARIANTS
    AttemptsAreSound
PROPERTIES
    TerminalIsFinal
    RetriesResume
CHECK_DEADLOCK FALSE
