SPECIFICATION FairSpec
CONSTANTS
    Chunks <- LongAndEmpty
    MaxFaults = 2
    MaxCrashes = 1
INVARIANTS
    OneTurnPerMessage
    LostOnlyByCrash
    RepliesInOrderOnce
PROPERTIES
    HandlersEnd
CHECK_DEADLOCK FALSE
