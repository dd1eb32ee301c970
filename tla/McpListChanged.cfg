SPECIFICATION FairSpec
CONSTANTS
    files = files
    web = web
    a = a
    Stop = Stop
    Server = {files}
    Call = {}
    ServerOf <- MCServerOf
    Sizes = {1, 2}
    MaxTools = 3
    MaxFaults = 0
    MaxReconnects = 0
    MaxChanges = 2
    Reloads = {}
PROPERTIES
    CatalogueCatchesUp
CHECK_DEADLOCK FALSE
