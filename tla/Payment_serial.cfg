SPECIFICATION Spec
CONSTANTS
    h1 = h1
    h2 = h2
    Handlers = {h1}
    MaxOrders = 3
    Categories = {"INITIAL", "APPENDIX_INITIAL"}
    Kinds <- EveryCall
    UrlChoices = {TRUE, FALSE}
    PayOSFails = FALSE
    MaxCrashes = 0
    Overdue = FALSE
INVARIANTS OneOpenLink EndingTakesStorage
PROPERTY TerminatedIsFinal
CHECK_DEADLOCK FALSE
