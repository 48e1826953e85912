SPECIFICATION Spec
CONSTANTS
    r1 = r1
    r2 = r2
    h1 = h1
    h2 = h2
    s1 = s1
    s2 = s2
    NoRequest = NoRequest
    Requests = {r1, r2}
    Handlers = {h1}
    Skus = {s1, s2}
    NumRows = 3
    SkuOf <- TwoSkus
    MaxQty = 2
    MaxTasks = 2
    MaxShips = 2
    Kinds <- Everything
    CreateStatuses = {"DRAFT", "RESERVED"}
    Legacy = {r2}
    Crashes = FALSE
INVARIANTS StockIsPromisedOnce ShipsOnce
PROPERTY ShipsOnlyHeldStock
CHECK_DEADLOCK FALSE
