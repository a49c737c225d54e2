SPECIFICATION FairSpec
CONSTANTS
    p1 = p1
    p2 = p2
    t1 = t1
    t2 = t2
    None = None
    Projects = {p1, p2}
    Tombstones = {t1, t2}
    Stored = {"key", "plan"}
    Faults = {"io", "db", "manifest", "keyring", "owner", "crash"}
    MaxFaults = 3
INVARIANTS
    RegisteredVaultSafe
    DeletedStaysDeleted
    ConfirmedIsGone
    ResetForgetsCredential
PROPERTIES
    ReadableTombstonesResolve
