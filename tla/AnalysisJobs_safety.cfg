SPECIFICATION FairSpec
CONSTANTS
    j1 = j1
    j2 = j2
    j3 = j3
    s1 = s1
    s2 = s2
    None = None
    Calls = {j1, j2}
    Remote = {j1}
    Sessions = {s1, s2}
    Owner <- MCOwner
    Second <- MCSecond
    MaxActive = 2
    MaxRetained = 1
    MaxChanges = 1
    Faults = {"health", "output", "run", "snapshot"}
    MaxFaults = 1
INVARIANTS
    StoredIsAudited
    DeletedIsClean
PROPERTIES
    KeepsPromise
    JobsSettle
