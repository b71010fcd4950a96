SPECIFICATION Spec
CONSTANTS
    Files = {1, 2}
    Configs <- Plain
    MaxVersion = 1
    MaxRuns = 2
    Flaws = {"tear"}
INVARIANTS
    ResumeCountsFiles
CHECK_DEADLOCK FALSE
