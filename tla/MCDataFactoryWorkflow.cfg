SPECIFICATION WorkflowSpec
CONSTANTS
    NodeCount = 3
    MaxConcurrency = 2
    Graphs <- SmallGraphs
INVARIANTS
    ValidationDecides
    WavesAreDeterministic
PROPERTIES
    ExecutionIsComplete
