SPECIFICATION ViewSpec
CONSTANTS
    r1 = r1
    r2 = r2
    Requests <- MCRequests
    Services <- MCServices
    Items <- MCItems
    Compositions <- MCCompositions
    ExecutionIds = {}
    MaxVersion = 2
    NoRequest = NoRequest
    NoExecution = NoExecution
SYMMETRY SlotsAreAlike
INVARIANTS
    ViewTypeOK
    TrailInTimeOrder
    TrackingHangsTogether
    QuoteKeepsUpWithTrail
    DecidedQuoteShownWhole
