SPECIFICATION LedgerSpec
CONSTANTS
    b1 = b1
    b2 = b2
    s1 = s1
    s2 = s2
    p1 = p1
    NoSale = NoSale
    Batches = {b1, b2}
    Sales = {s1, s2}
    Products = {p1}
    Workers = {w1}
    ProductOf <- OneProduct
    Requests <- SerialRequests
    InitialStock <- SerialStock
    InitialSales <- SerialSales
    MaxRequests = 3
    MaxAborts = 1
INVARIANTS
    BatchActiveIffStocked
    PackedSalesAllocated
    RefundIsRecorded
PROPERTIES
    SuccessBalances
    FailedEditLeavesNoTrace
CHECK_DEADLOCK FALSE
