SPECIFICATION Spec
CONSTANTS
    Names = {"password", "token"}
    Values = {"one", "two"}
    Inputs <- Forms
    Editors = {"ann"}
    MaxAttempts = 2
    MaxRevision = 3
    MaxFaults = 1
INVARIANTS
    SecretsAreExact
    CapabilitiesAreSpent
PROPERTIES
    DeliveryEnds
