SPECIFICATION Spec
CONSTANTS
    t1 = t1
    t2 = t2
    None = None
    Hourly = Hourly
    Daily = Daily
    Once = Once
    Manual = Manual
    BadCron = BadCron
    Clients = {t1, t2}
    Contents = {Once, Manual, BadCron}
    TriggerOf <- MCTriggerOf
    MaxVersion = 3
    Ops = {"save", "publish", "deny"}
INVARIANTS TypeOK VersionsLinear ActiveIsStored
PROPERTIES PublishedImmutable
SYMMETRY Symmetry
CHECK_DEADLOCK FALSE
