SPECIFICATION FairSpec
CONSTANTS
    r1 = r1
    r2 = r2
    e1 = e1
    e2 = e2
    Requests <- MCRequests
    Services <- MCServices
    Items <- MCItems
    Compositions <- MCOneComposition
    ExecutionIds = {e1}
    MaxVersion = 2
    NoRequest = NoRequest
    NoExecution = NoExecution
PROPERTIES
    CompetingTransitionsSettle
