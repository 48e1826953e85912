CONSTANTS
    h1 = h1  h2 = h2
    l1 = l1  l2 = l2  l3 = l3
    b1 = b1  b2 = b2
    NoBin = NoBin
    Handlers = {h1, h2}
    Lpns = {l1, l2, l3}
    Bins = {b1, b2}
    Volume <- SizeOf
    MaxVolume <- RoomOf
    MaxLpns <- SlotsOf
    FirstStatus <- AllEmpty
    LpnsOf <- Divided
    Asked <- Apart
    AdminEdits <- BlockSmall
    MaxBulk = 2
    PoolSize = 3
SPECIFICATION EitherSpec
INVARIANTS BinsHoldWhatFits StockIsWhereItSays
PROPERTIES BlockedBinTakesNothing CallsEndUnlessStarved
CHECK_DEADLOCK FALSE
