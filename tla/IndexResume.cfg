SPECIFICATION FairSpec
CONSTANTS
    Files = {1, 2}
    Configs <- Mixed
    MaxVersion = 2
    MaxRuns = 3
    Flaws = {"big"}
INVARIANTS
    TypeOK
    CheckpointCovered
    CompleteIsWhole
    TalliesAddUp
    FreshReadsAll
PROPERTIES
    RunsEnd
CHECK_DEADLOCK FALSE
