SPECIFICATION FairSpec
CONSTANTS
    h1 = h1
    h2 = h2
    Handlers = {h1, h2}
    MaxOrders = 2
    Categories = {"INITIAL"}
    Kinds <- PayOSOnly
    UrlChoices = {FALSE}
    PayOSFails = TRUE
    MaxCrashes = 1
    Overdue = FALSE
PROPERTIES PaidIsRecordedUnlessCrash PaidIsActivated
CHECK_DEADLOCK FALSE
