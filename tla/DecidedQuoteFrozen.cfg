SPECIFICATION Spec
CONSTANTS
    r1 = r1
    r2 = r2
    e1 = e1
    e2 = e2
    Requests <- MCRequests
    Services <- MCServices
    Items <- MCItems
    Compositions <- MCTwoCompositions
    ExecutionIds = {e1}
    MaxVersion = 2
    NoRequest = NoRequest
    NoExecution = NoExecution
SYMMETRY SlotsAreAlike
PROPERTIES
    DecidedQuoteIsFrozen
