SPECIFICATION OperationsSpec
CONSTANTS
    Paths = {"code", "env"}
    Sensitive = {"env"}
    MaxRequests = 2
    MaxRequestsWithGit = 1
    MaxFaults = 1
INVARIANTS
    RequestsSurvive
PROPERTIES
    PublishIsSound
    SupervisorDelivers
