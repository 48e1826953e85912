SPECIFICATION MCSpec
CONSTANTS
    h1 = h1
    h2 = h2
    r1 = r1
    c1 = c1
    c2 = c2
    w1 = w1
    w2 = w2
    t1 = t1
    t2 = t2
    Handlers = {h1, h2}
    Requests = {r1}
    Contracts = {c1, c2}
    Warehouses = {w1, w2}
    Nobody = Nobody
    Tenants <- Companies
    Tenant <- FirstTenant
    InRegion <- Anywhere
    SharedReady = {w1, w2}
    Types = {"DEDICATED_WAREHOUSE", "NEEDS_CONSULTATION"}
    Kinds <- EveryCall
    BareLines = {FALSE}
    Posted = {"PENDING", "CONVERTED"}
    Retyped = {"unset", "NEEDS_CONSULTATION"}
    Drafts <- DraftOrActive
    Edits <- SomeEdits
    Priced = TRUE
SYMMETRY Symmetry
INVARIANTS OneContractPerClaim SignedThenBilled LinesMatchTotal
PROPERTY ClaimIsFinal
CHECK_DEADLOCK FALSE
