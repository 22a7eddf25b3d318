SPECIFICATION Spec
CONSTANTS
    r1 = r1
    r2 = r2
    NoReference = NoReference
    NoFee = NoFee
    NoSale = NoSale
    NoTransaction = NoTransaction
    References = {r1, r2}
    Workers = {w1}
    Requests <- KeepingFees
    InitialSales <- Orders
    Fee <- HalfFee
    MaxRequests = 5
    MaxPayments = 3
    MaxAborts = 1
INVARIANTS
    FeeMatchesSubtotal
    ChargeRecordedOnceSerially
CHECK_DEADLOCK FALSE
