SPECIFICATION Spec
CONSTANTS
    Answers <- MixedAnswers
    Plans <- Tasks
    MaxRequests = 2
    BodyLimit = 2
    MaxPages = 4
    MaxTools = 5
    PageSize = 2
INVARIANTS
    ConnectionsArePermitted
    AnswersAreUsedWhole
    TaskRunsToItsEnd
PROPERTIES
    CallsEndClosed
