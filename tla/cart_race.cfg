SPECIFICATION FairSpec
CONSTANTS
    user = user
    guest = guest
    p1 = p1
    p2 = p2
    c1 = c1
    c2 = c2
    c3 = c3
    c4 = c4
    c5 = c5
    o1 = o1
    o2 = o2
    o3 = o3
    mail = mail
    NoRow = NoRow
    NoOne = NoOne
    NoEmail = NoEmail
    Users = {user}
    Sessions = {guest}
    Products = {p1, p2}
    CartIds = {c1, c2, c3}
    Orders = {o1, o2, o3}
    Emails = {mail}
    Workers = {1, 2, 3}
    Requests <- RaceRequests
    InitialCarts <- RaceCarts
    MaxRequests = 3
    MaxAborts = 1
INVARIANT LinkedRowsOrdered
PROPERTY OrderedUntilRemoved
PROPERTY EveryRequestAnswered
CHECK_DEADLOCK FALSE
