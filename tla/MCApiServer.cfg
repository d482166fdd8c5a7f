SPECIFICATION Spec
CONSTANTS
    Threads = {1, 2, 3}
    Nobody = 0
    Workloads <- AllWork
    MaxEvents = 3
    Values = {"x", "y"}
    MaxFailures = 1
    MaxConcurrent = 2
    MaxCursor = 3
INVARIANTS
    SessionsAreSound
    PageIsFaithful
PROPERTIES
    RowsStayConsistent
    EverybodyIsServed
CHECK_DEADLOCK FALSE
