SPECIFICATION MCSpec
CONSTANTS
    None = None
    a1 = a1
    a2 = a2
    Accounts <- MCAccounts
    MaxAttempts = 3
    Faults <- MCFaults
    MaxFaults = 2
    CodexFaults <- MCCodexFaults
    MaxGens = 2
    MaxIds = 2
    MaxServers = 2
    MaxCodexFaults = 1
INVARIANTS
    CancelStoresNothing
    SignedOutStaysOut
    OneRuntime
    AnswerIsOwn
    TurnsStop
    
CHECK_DEADLOCK FALSE
