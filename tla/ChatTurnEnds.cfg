SPECIFICATION FairChatSpec
CONSTANTS
    t1 = t1
    t2 = t2
    Turns = {t1}
    Owner = Owner
    Admin = Admin
    Read = Read
    Exec = Exec
    Keys <- MCKeys
    StopAny <- MCStopAny
    Calls <- MCCalls
    Batches <- MCBatches
    Risky <- MCRisky
    MaxRounds = 2
    MaxDecisions = 2
    Owners <- MCOwners
    None = None
PROPERTY TurnsEnd
CHECK_DEADLOCK FALSE
