SPECIFICATION FairSpec
CONSTANTS
    p = p
    look = look
    edit = edit
    branch = branch
    Turn = {p}
    Task = {look, edit, branch}
    ModeOf <- MCModeOf
    MaxParallel = 1
    MaxTasks = 2
    MaxBatches = 2
    MaxChildren = 2
    MaxCalls = 2
INVARIANTS
    ExclusiveIsAlone
PROPERTIES
    AnswersAreFinal
    AbandonedBeginsOneTool
    BatchReturns
    LeasesReturned
CHECK_DEADLOCK FALSE
