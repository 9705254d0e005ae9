SPECIFICATION FairSpec
CONSTANTS
    MaxSlots = 2
    Size = 2
    Roles = {"sta", "ap"}
    MaxEvents = 6
    MaxOthers = 1
INVARIANTS ToldInOrder BitAndMessageAgree ProbingGoesOn
PROPERTIES MainHears SmartConfigOffered
CHECK_DEADLOCK FALSE
