SPECIFICATION Spec
CONSTANTS
    a1 = a1
    a2 = a2
    Calls = {a1, a2}
    Remote = {a1, a2}
    MaxChanges = 1
    Faults = {"health", "output", "asr", "evidence"}
    MaxFaults = 2
INVARIANTS
    PartialHasWorker
    NothingOutlivesSession
    AnnouncedIsStored
