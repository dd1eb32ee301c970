SPECIFICATION FairSpec
CONSTANTS
    t1 = t1
    t2 = t2
    None = None
    Hourly = Hourly
    Daily = Daily
    Once = Once
    Manual = Manual
    BadCron = BadCron
    Clients = {t1}
    Contents = {Hourly}
    TriggerOf <- MCTriggerOf
    MaxVersion = 2
    Ops = {"publish", "pause", "resume", "import", "delete", "crash"}
INVARIANT JobMatchesStore
PROPERTY ScheduleKeepsFiring
CHECK_DEADLOCK FALSE
