SPECIFICATION Spec
CONSTANTS
    t1 = t1
    t2 = t2
    NoPlan = NoPlan
    RunIds = {1}
    Threads <- TwoThreads
    Plans <- ScenariosAndRequests
    RequestCount = 1
    Targets = 2
    BatchSize = 2
    MaxSequence = 2
    MaxTotal = 2
    MaxDbErrors = 1
    MaxCrashes = 1
PROPERTIES
    RecordIsFaithful
    RunsAreEnded
    RepositorySpec
