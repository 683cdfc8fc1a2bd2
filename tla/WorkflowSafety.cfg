SPECIFICATION Spec
CONSTANTS
    r1 = r1
    r2 = r2
    e1 = e1
    e2 = e2
    Requests <- MCRequests
    Services <- MCServices
    Items <- MCItems
    Compositions <- MCCompositions
    ExecutionIds <- MCExecutionIds
    MaxVersion = 2
    NoRequest = NoRequest
    NoExecution = NoExecution
SYMMETRY SlotsAreAlike
INVARIANTS
    TypeOK
    OrderAgreesWithQuote
    ChecksStayTrue
    NoCrossedLocks
    ExecutionsFollowApproval
    TrailLeadsToStatus
    VersionCountsCompositions
    TotalIsSumOfItems
    PresentedOnce
    CompletedWorkIsDone
PROPERTIES
    EndIsRecordedOnce
    ImplementsLifecycle
