SPECIFICATION FairSpec
CONSTANTS
    Chunks <- TwoReplies
    MaxFaults = 2
    MaxCrashes = 0
PROPERTIES
    PendingIsRetried
CHECK_DEADLOCK FALSE
