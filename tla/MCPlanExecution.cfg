SPECIFICATION Spec
CONSTANTS
    p1 = p1
    p2 = p2
    NoKey = NoKey
    Nobody = 0
    Plans <- TwoPlans
    Keys = {"k"}
    Fingerprints = {"f", "g"}
    Threads = {1, 2}
    MaxRequests = 3
    MaxRevision = 3
    MaxFaults = 1
INVARIANTS
    RequestsAreIdempotent
    BatchRunsItsPins
PROPERTIES
    RepositoryIsImplemented
CHECK_DEADLOCK FALSE
