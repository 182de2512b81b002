SPECIFICATION Spec
CONSTANTS
    Address = {1, 2, 3, 4, 5}
    Leaders = {1, 3, 4, 5}
    Flow <- Arms
    Start = 1
    MaxTrace = 11
    MaxPasses = 3
INVARIANTS ReportsLastEarlierVisit FoundInTwoPasses
PROPERTY FoundIfVisited
CHECK_DEADLOCK FALSE
