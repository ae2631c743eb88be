SPECIFICATION Spec
SYMMETRY Symmetry
CONSTANTS
    w1 = w1
    w2 = w2
    i1 = i1
    i2 = i2
    i3 = i3
    t1 = t1
    t2 = t2
    t3 = t3
    n1 = n1
    n2 = n2
    a = a
    b = b
    c1 = c1
    c2 = c2
    Null = Null
    Wallets = {w1, w2}
    Ids = {i1, i2, i3}
    Tokens = {t1, t2, t3}
    Nonces = {n1}
    Names = {a}
    Calls = {c1, c2}
    MaxOps = 3
    MaxFaults = 2
    MaxRestarts = 1
INVARIANTS
    TypeOK
    NonceOpensOneSession
    NamesDiffer
    SessionNamesProfile
    ShownIsConnected
PROPERTIES
    AccountKeepsProfile
CHECK_DEADLOCK FALSE
