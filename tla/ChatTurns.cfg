SPECIFICATION ChatSpec
CONSTANTS
    t1 = t1
    t2 = t2
    Turns = {t1, t2}
    Owner = Owner
    Admin = Admin
    Read = Read
    Exec = Exec
    Keys <- MCKeys
    StopAny <- MCStopAny
    Calls <- MCCalls
    Batches <- MCBatch
    Risky <- MCRisky
    MaxRounds = 1
    MaxDecisions = 1
    Owners <- MCOwners
    None = None
INVARIANTS
    RunningIsStoppable
    ShutdownCancelsAll
    OneToolAfterCancel
    ConfirmedBeforeRun
    RequestsWhole
    EffectsLeaveTrace
CHECK_DEADLOCK FALSE
