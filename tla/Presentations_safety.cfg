SPECIFICATION MCSpec
CONSTANTS
    None = None
    Original = Original
    i1 = i1
    i2 = i2
    i3 = i3
    i4 = i4
    Ids <- MCIds
    MaxPlans = 2
    Faults <- MCFaults
    MaxFaults = 2
    Imports <- MCImports
    Other <- MCOther
    SlideLimit = 4
    MaxSlideId = 260
    MaxRevs = 4
SYMMETRY Symmetry
INVARIANTS
    RevisionsIntact
    BuildsOnParent
    PrivateReconciled
    LinksLead
PROPERTIES
    SectionsFollow
    
