SPECIFICATION FairSpec
CONSTANTS
    r1 = r1
    r2 = r2
    p1 = p1
    p2 = p2
    Products <- MCProducts
    Orders = {o1}
    Requests <- MCRequests
    Demands <- MCDemands
    Adjustments <- MCAdjustments
    InitialStock <- MCInitialStock
    MaxStock = 2
    MaxMovements = 5
    NoOrder = NoOrder
    NoProduct = NoProduct
    NoRequest = NoRequest
INVARIANTS
    TypeOK
    LedgerExplainsStock
PROPERTIES
    ImplementsAtomicStock
    LateUsagesRunOut
    EveryCallEnds
