CONSTANTS
    Apps = {a, b}
    Ids = {1, 2}
    Admins = {w1, w2}
    Loaders = {l1}
    Priorities = {5}
    Orders <- MCOrders
    TTL = 1
    MaxRequests = 3
SPECIFICATION Spec
CHECK_DEADLOCK FALSE
INVARIANTS
    StaleIsExplained
    DeletedStaysDeleted
PROPERTY
    EditsTakeEffect
