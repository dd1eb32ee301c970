SPECIFICATION FairSpec
CONSTANTS
    Graphs <- Definitions
    MaxWorkers = 1
    SharedExecutor = TRUE
INVARIANTS
    SourcesFirst
    CycleFound
    RanWithInputs
    EffectsOnce
    FinalStatusHonest
    UnfinishedActionIsUnknown
PROPERTIES
    RunSettles
