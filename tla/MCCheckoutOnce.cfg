SPECIFICATION Spec
CONSTANTS
    u1 = u1
    r1 = r1
    r2 = r2
    l1 = l1
    l2 = l2
    Users = {u1}
    Requests = {r1, r2}
    OrderLines = {l1, l2}
    MaxTokens = 2
    Retries <- MCNoRetries
    NoUser = NoUser
    NoToken = NoToken
CHECK_DEADLOCK FALSE
INVARIANTS
    OneOrderPerToken
