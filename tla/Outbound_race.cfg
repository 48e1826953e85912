SPECIFICATION Spec
CONSTANTS
    r1 = r1
    r2 = r2
    h1 = h1
    h2 = h2
    s1 = s1
    s2 = s2
    NoRequest = NoRequest
    Requests = {r1, r2}
    Handlers = {h1, h2}
    Skus = {s1}
    NumRows = 1
    SkuOf <- OneSku
    MaxQty = 2
    MaxTasks = 2
    MaxShips = 2
    Kinds <- Handling
    CreateStatuses = {"PENDING"}
    Legacy = {r2}
    Crashes = TRUE
SYMMETRY Symmetry
INVARIANTS StockAddsUp ApprovalIsOnce
PROPERTY ImplementsLedger
CHECK_DEADLOCK FALSE
