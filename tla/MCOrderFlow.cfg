SPECIFICATION Spec
CONSTANTS
    Orders = {o1}
    PayThreads = {p1, p2}
    DeductThreads = {d1}
    DeliverThreads = {v1}
    DeductQueue = "SKU_DEDECT_QUEUE"
    DeductedText = "DEDECT"
    DeliveredText = "DELIEVERED"
    NamesOrder = TRUE
    Retries = 1
    MaxPays = 2
    MaxDeliveries = 1
    MaxFailures = 1
    NoOrder = NoOrder
    NoStatus = NoStatus
CHECK_DEADLOCK FALSE
INVARIANTS
    TypeOK
    NothingShipsUnpaid
    PassedOnOncePerPayment
PROPERTIES
    NeverStepsBack
    FollowsLife
    NoticesAreSent
