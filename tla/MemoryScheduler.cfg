SPECIFICATION FairSpec
CONSTANTS
    Alice = Alice
    Bob = Bob
    s1 = s1
    s2 = s2
    Keys <- MCKeys
    MaxWorkers = 2
    MaxPending = 1
    MaxRetries = 1
    Idle = 1
    RetryDelay = 1
    HeapSlack = 0
    MaxGeneration = 3
    None = None
INVARIANTS
    OneRunPerActor
    InflightExact
    OneCommitAfterCancel
PROPERTIES
    JobsServed
    StopDrains
CHECK_DEADLOCK FALSE
