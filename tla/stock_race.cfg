SPECIFICATION Spec
CONSTANTS
    b1 = b1
    b2 = b2
    s1 = s1
    s2 = s2
    p1 = p1
    NoSale = NoSale
    Batches = {b1, b2}
    Sales = {s1}
    Products = {p1}
    Workers = {w1, w2}
    ProductOf <- OneProduct
    Requests <- RaceRequests
    InitialStock <- RaceStock
    InitialSales <- RaceSales
    MaxRequests = 4
    MaxAborts = 1
INVARIANTS
    TypeOK
    NoNegativeStock
CHECK_DEADLOCK FALSE
