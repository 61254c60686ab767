SPECIFICATION Spec
CONSTANTS
    o1 = o1
    o2 = o2
    s1 = s1
    s2 = s2
    w1 = w1
    w2 = w2
    c1 = c1
    c2 = c2
    Orders = {o1, o2}
    Skus = {s1, s2}
    Wares = {w1, w2}
    Consumers = {c1, c2}
    Clerks = {k1}
    RowIds = {1, 2, 3}
    Demand <- MCDemand
    Shelved <- MCShelved
    InitStock <- MCInitStock
    Restocks <- MCRestocks
    MaxRedeliveries = 1
    MaxCrashes = 1
    MaxDeliveries = 1
    MaxSends = 2
    MaxSessions = 3
    NoRow = NoRow
    NoWare = NoWare
    NoTx = NoTx
    NoOrder = NoOrder
SYMMETRY Alike
CHECK_DEADLOCK FALSE
INVARIANTS
    TypeOK
    NoOversell
    VerdictStillHolds
    DeductedIsBacked
    LockedOncePerMessage
PROPERTIES
    ImplementsShelf
