SPECIFICATION FairSpec
CONSTANTS
    run = run
    teach = teach
    workspace = workspace
    None = None
    Sessions = {run}
    Mode <- MCMode
    FrameBound = 2
    FinalBound = 1
    MaxClock = 5
    MaxCaptures = 1
    Faults = {"decode", "persist", "loss", "timeout"}
    MaxFaults = 2
INVARIANTS
    FinalsAccountedUnlessOverrun
    NoOvertaking
PROPERTIES
    StopReturns
