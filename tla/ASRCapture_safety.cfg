SPECIFICATION Spec
CONSTANTS
    run = run
    teach = teach
    workspace = workspace
    None = None
    Sessions = {run, teach, workspace}
    Mode <- MCMode
    FrameBound = 2
    FinalBound = 1
    MaxClock = 3
    MaxCaptures = 1
    Faults = {"start", "device", "timeout", "loss", "slide", "decode",
              "persist", "emit", "teach", "crash"}
    MaxFaults = 2
INVARIANTS
    WorkersHoldResources
    CancelDiscards
    TeachSubmitsOnce
    AnnouncedIsDurable
