SPECIFICATION FairSpec
CONSTANTS
    MaxSlots = 2
    Size = 2
    Roles = {"sta","ap"}
    MaxEvents = 2
    MaxOthers = 1

PROPERTY StationGetsSmartConfig
CHECK_DEADLOCK FALSE
