SPECIFICATION MCSpec
CONSTANTS
    h1 = h1
    h2 = h2
    c1 = c1
    c2 = c2
    a1 = a1
    a2 = a2
    v1 = v1
    v2 = v2
    v3 = v3
    q1 = q1
    q2 = q2
    w1 = w1
    z1 = z1
    b1 = b1
    Handlers = {h1}
    Contracts = {c1, c2}
    Appendices = {a1}
    Reservations = {v1, v2}
    Requests = {q1, q2}
    None = None
    Tenant <- OwnTenant
    Type <- Types
    Term <- OneTerm
    Places <- TwoPlaces
    Periods <- OnePeriod
    Scopes <- Offers
    Direct <- OnePlace
    Uses = {"SHARED", "DEDICATED"}
    LineLevels = {"WAREHOUSE"}
    Kinds <- EveryCall
    Edits <- Closing
    ContractEdits = {"EXPIRED"}
    Named = {None, a1}
    Given = {"ACTIVE"}
SYMMETRY Symmetry
INVARIANTS DedicatedIsPrivate RightsEndTogether ScopeWithinCeiling
CHECK_DEADLOCK FALSE
