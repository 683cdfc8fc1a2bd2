SPECIFICATION Spec
CONSTANTS
    r1 = r1
    r2 = r2
    c1 = c1
    c2 = c2
    k1 = k1
    k2 = k2
    Requests <- MCRequests
    Customers <- MCCustomers
    Vehicles = {v1}
    Products = {p1}
    Services = {s1}
    Keys <- MCKeys
    NoKey = NoKey
    NoId = NoId
    MaxOrders = 1
SYMMETRY Alike
INVARIANTS
    TypeOK
    KeysUnique
    OrdersNameOwnVehicle
PROPERTIES
    RetiredForGood
