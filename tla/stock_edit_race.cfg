SPECIFICATION FairSpec
CONSTANTS
    b1 = b1
    b2 = b2
    s1 = s1
    s2 = s2
    p1 = p1
    NoSale = NoSale
    Batches = {b1, b2}
    Sales = {s1, s2}
    Products = {p1}
    Workers = {w1, w2}
    ProductOf <- OneProduct
    Requests <- EditRequests
    InitialStock <- EditStock
    InitialSales <- EditSales
    MaxRequests = 3
    MaxAborts = 1
PROPERTIES
    EveryRequestAnswered
CHECK_DEADLOCK FALSE
