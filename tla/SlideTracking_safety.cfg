SPECIFICATION MCSpec
CONSTANTS
    w1 = w1
    w2 = w2
    Calls = {}
    Remote = {}
    MaxChanges = 0
    Faults = {}
    MaxFaults = 0
    LastSlide = 3
    Hidden = {2}
    MaxEvents = 3
    Watchers = {w1, w2}
    MaxRuns = 2
    MaxRequests = 2
    MaxMoves = 1
    ShowFaults = {"join", "db", "session"}
    MaxShowFaults = 1
INVARIANTS
    ManualHolds
    TimelineFaithful
PROPERTIES
    FollowsPowerPoint
