SPECIFICATION StoreSpec
CONSTANTS
    Sources <- SmallSources
    Fold <- CaseFold
    Parents <- Directories
    Unsafe = {"../c"}
    MaxArchive = 2
    MaxExpanded = 2
    MaxFiles = 2
    Jobs = {1, 2, 3}
    GitSlots = 1
    MaxFaults = 1
CHECK_DEADLOCK FALSE
INVARIANTS
    AcceptedCanRun
PROPERTIES
    OnlyWholeContents
    ImportsFinish
