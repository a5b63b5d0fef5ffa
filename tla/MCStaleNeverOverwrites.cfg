SPECIFICATION BillingSpec
CONSTANTS
    EventIDs = {1, 2}
    StripeSubs = {s1}
    Customers = {c1}
    Plans = {"pro"}
    Checkouts = {k1}
    MaxSecond = 2
    NONE = NONE
PROPERTY StaleNeverOverwrites
CHECK_DEADLOCK FALSE
