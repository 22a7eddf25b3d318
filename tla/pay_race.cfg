SPECIFICATION Spec
CONSTANTS
    r1 = r1
    r2 = r2
    NoReference = NoReference
    NoFee = NoFee
    NoSale = NoSale
    NoTransaction = NoTransaction
    References = {r1, r2}
    Workers = {w1, w2}
    Requests <- AllRequests
    InitialSales <- Orders
    Fee <- HalfFee
    MaxRequests = 2
    MaxPayments = 3
    MaxAborts = 1
INVARIANTS
    RefundedIsBacked
    AttemptOnRecord
CHECK_DEADLOCK FALSE
