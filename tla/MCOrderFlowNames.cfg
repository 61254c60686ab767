SPECIFICATION Spec
CONSTANTS
    Orders = {o1}
    PayThreads = {p1, p2}
    DeductThreads = {d1}
    DeliverThreads = {v1}
    DeductQueue = "SKU_DEDUCT_QUEUE"
    DeductedText = "DEDUCTED"
    DeliveredText = "DELEVERED"
    NamesOrder = TRUE
    Retries = 1
    MaxPays = 1
    MaxDeliveries = 1
    MaxFailures = 0
    NoOrder = NoOrder
    NoStatus = NoStatus
CHECK_DEADLOCK FALSE
PROPERTIES
    AnswerIsRecorded
