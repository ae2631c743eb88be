SPECIFICATION Spec
SYMMETRY Symmetry
CONSTANTS
    b1 = b1
    b2 = b2
    l1 = l1
    s1 = s1
    r1 = r1
    f1 = f1
    f2 = f2
    Seller = Seller
    Oracle = Oracle
    NoOne = NoOne
    Null = Null
    Listings = {l1}
    QueueRefs = {}
    Deposit = 100
    PaymentTimeout = 1
    MaxCount = 1
    DisputeWindow = 0
    ReleaseTimeout = 0
    Buyers = {b1, b2}
    Suffixes = {s1}
    TxRefs = {r1}
    FlwIds = {f1, f2}
    Requests = {50, 100}
    Reported = {"exact", "under"}
    EscrowIds = {1, 2}
    MaxFlows = 3
    MaxEvents = 1
INVARIANTS
    TypeOK
    EscrowSolvent
    
    PaidOnce
    CompletedPaid
\* The handlers that ever start may all have ended.
CHECK_DEADLOCK FALSE
