SPECIFICATION Spec
SYMMETRY Symmetry
CONSTANTS
    b1 = b1
    b2 = b2
    b3 = b3
    l1 = l1
    s1 = s1
    s2 = s2
    q1 = q1
    q2 = q2
    r1 = r1
    r2 = r2
    f1 = f1
    f2 = f2
    Null = Null
    Seller = Seller
    Buyers = {b1, b2, b3}
    Listings = {l1}
    Suffixes = {s1, s2}
    QueueRefs = {q1, q2}
    TxRefs = {}
    FlwIds = {f1}
    Deposit = 100
    PaymentTimeout = 1
    MaxCount = 1
    Requests = {30}
    Reported = {}
    Backing = {500}
    Vouched = {b1, b2, b3}
    MaxTime = 0
    MaxCharges = 1
    MaxEvents = 1
INVARIANTS
    UnitsConserved
    
    AllocatedBacksSlot
\* A store without an open trade may have nothing left to do.
CHECK_DEADLOCK FALSE
