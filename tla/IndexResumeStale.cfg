SPECIFICATION Spec
CONSTANTS
    Files = {1, 2}
    Configs <- Plain
    MaxVersion = 2
    MaxRuns = 3
    Flaws = {}
INVARIANTS
    ResumedIsBaseline
CHECK_DEADLOCK FALSE
