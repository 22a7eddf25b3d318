SPECIFICATION FairSpec
CONSTANTS
    r1 = r1
    r2 = r2
    NoReference = NoReference
    NoFee = NoFee
    NoSale = NoSale
    NoTransaction = NoTransaction
    References = {r1, r2}
    Workers = {w1, w2}
    Requests <- CollectRequests
    InitialSales <- Collecting
    Fee <- HalfFee
    MaxRequests = 3
    MaxPayments = 8
    MaxAborts = 1
INVARIANTS
    TypeOK
    PaidIsEarned
    CoveredIsPaid
PROPERTIES
    PaidStays
    ChargedIsPaid
CHECK_DEADLOCK FALSE
