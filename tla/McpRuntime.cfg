SPECIFICATION FairSpec
CONSTANTS
    files = files
    web = web
    a = a
    Stop = Stop
    Server = {files, web}
    Call = {a}
    ServerOf <- MCServerOf
    Sizes = {2}
    MaxTools = 3
    MaxFaults = 1
    MaxReconnects = 1
    MaxChanges = 1
    Reloads <- MCReloads
INVARIANTS
    SentOnce
    CatalogueWithinLimit
PROPERTIES
    CallsAnswered
    CloseEndsWorkers
CHECK_DEADLOCK FALSE
