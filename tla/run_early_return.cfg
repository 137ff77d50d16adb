CONSTANTS
    MaxRunners = 2
    Ratio = 2
    MaxJobs = 2
    MaxControls = 0
SPECIFICATION Spec
CHECK_DEADLOCK FALSE
INVARIANTS ReturnMeansQuiet
