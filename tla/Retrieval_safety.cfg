SPECIFICATION Spec
CONSTANTS
    Revisions <- MCRevisions
    Original = 1
    Documents <- MCDocuments
    Items <- MCItems
    w1 = w1
    Workers = {w1}
    MaxGenerations = 2
    Faults = {"crash", "model", "disk", "commit", "unlink"}
    MaxFaults = 1
INVARIANTS
    ScoresAreOwn
    IndexSurvives
    RebuildRepairsCount
