SPECIFICATION Spec
CONSTANTS
    None = None
    Nowhere = Nowhere
    Jobs = {"server"}
    Leases <- TwoLeases
    MaxRuns = 2
    MaxTrouble = 1
    MaxSilent = 1
    Grace = 5
    BinOrder <- InOrder
    LpnOrder <- Delivery
    RackOf <- RackOfBin
    ZoneOf <- ZoneOfBin
    ZoneType <- TypeOf
    MaxVolume <- VolumeOf
    MaxLpns <- SlotsOf
    Supports <- Takes
    KeptFor <- Kept
    BoxOf <- Types
    Grants <- Granted
    MaxAdvice = 1
    MaxEdits = 1
    Labelled <- Stickers
    Anyone = None
    Absent = None
    NoArea = None
    Periods <- TestPeriods
    Splits <- TestSplits
    Quotes <- TestQuotes
    Loads <- TestLoads
    Baskets <- TestBaskets
    Readers <- Mailed
    Scans <- TestScans
    Badges <- TestBadges
    Moves <- TestMoves
    Houses <- TestHouses
    Catalogue <- Map
    Enquiries <- TestStocks
INVARIANTS LabelsAreFound
CHECK_DEADLOCK FALSE
