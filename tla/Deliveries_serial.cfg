SPECIFICATION DeliveriesSpec
CONSTANTS
    r1 = r1
    b1 = b1
    l1 = l1
    s1 = s1
    s2 = s2
    h1 = h1
    i1 = i1
    i2 = i2
    o1 = o1
    x1 = x1
    d1 = d1
    None = None
    Nothing = None
    Requests = {r1}
    Batches = {b1}
    Lpns = {l1}
    Skus = {s1, s2}
    Kind <- Kinds
    Commitment <- Rental
    MaxPieces = 2
    MaxPacked = 1
    Births = {"DRAFT", "PENDING"}
    Patches = {"PENDING", "APPROVED", "ARRIVED", "RECEIVING", "CANCELLED"}
    LpnEdits <- Moved
    LpnBirths <- Arriving
    Handlers = {h1}
    Inbounds = {i1, i2}
    Outbounds = {o1}
    Shipments = {x1}
    Drivers = {d1}
    HasPlate = {d1}
    Addresses <- Given
    Modes = {"TENANT_SELF", "WAREHOUSE_TRANSPORT"}
    ModeEdits = {"TENANT_SELF"}
    StatusEdits = {"COMPLETED"}
SYMMETRY Symmetry
INVARIANTS GoodsFollowArrival PaidBeforeApproval DriversAreBooked
PROPERTIES AnnouncementsFit GoodsStayWithDriver
CHECK_DEADLOCK FALSE
