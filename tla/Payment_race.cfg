SPECIFICATION Spec
CONSTANTS
    h1 = h1
    h2 = h2
    Handlers = {h1, h2}
    MaxOrders = 2
    Categories = {"INITIAL", "APPENDIX_INITIAL"}
    Kinds <- Ending
    UrlChoices = {TRUE, FALSE}
    PayOSFails = TRUE
    MaxCrashes = 1
    Overdue = TRUE
SYMMETRY Symmetry
INVARIANTS ActiveNeedsPaid PaymentsAreBacked
CHECK_DEADLOCK FALSE
