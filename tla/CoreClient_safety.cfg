SPECIFICATION MCSpec
CONSTANTS
    None = None
    c1 = c1
    c2 = c2
    c3 = c3
    r1 = r1
    Projects = {}
    Tombstones = {}
    Stored = {}
    Faults = {}
    MaxFaults = 0
    Cores <- MCCores
    AppCalls <- MCAppCalls
    MaxAttempts = 1
    MaxStable = 1
    ClientFaults <- MCFaults
    MaxClientFaults = 1
INVARIANTS
    OneCore
PROPERTIES
    Recovers
    QuitEnds
