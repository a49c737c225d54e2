SPECIFICATION RetriedSpec
CONSTANTS
    run = run
    teach = teach
    workspace = workspace
    None = None
    Sessions = {run}
    Mode <- MCMode
    FrameBound = 2
    FinalBound = 1
    MaxClock = 3
    MaxCaptures = 1
    Faults = {"decode"}
    MaxFaults = 1
PROPERTIES
    RetriedStopReleases
