SPECIFICATION Spec
CONSTANTS
    a = a
    b = b
    c = c
    d = d
    x = x
    t = t
    y = y
    shirt = shirt
    bag = bag
    old = old
    None = None
    Warehouses = {x}
    Zones = {a, b}
    Racks = {x}
    Levels = {x}
    Bins = {c, d}
    Areas <- ZoneAreas
    Sizes <- Usable
    MaxBulk = 2
    Sites = {x}
    Users = {x, a, b}
    Root = x
    Tenants = {t, y}
    Emails = {x, c, d}
    Taxes = {x}
    Statuses = {"ACTIVE", "INACTIVE"}
    OtpTries = 2
    MaxCodes = 1
    Categories = {a, b}
    Seasons = {x}
    Collections = {a, b}
    Skus = {x}
    Owners = {x}
    Names = {c, d}
    Kinds = {shirt, bag, old}
    Sized = {shirt, old}
    Inactive = {old}
    SizeNames = {c, d}
SYMMETRY Symmetry
INVARIANTS AreasAgree AccountsAreDistinct CatalogueAgrees
PROPERTIES StructureIsWhole OtpIsSpent
CHECK_DEADLOCK FALSE
