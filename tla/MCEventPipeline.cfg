SPECIFICATION FairSpec
CONSTANTS
    Nobody = Nobody
    NoEvent = NoEvent
    NoLine = NoLine
    LogThreads <- TwoStreams
    Outcomes <- SuccessOrInfra
    MaxOutput = 3
    PipeLines = 2
INVARIANTS
    RecordIsConsistent
    ReportedResultIsComplete
PROPERTIES
    NoEventAfterReport
    ExecutorReturns
CHECK_DEADLOCK FALSE
