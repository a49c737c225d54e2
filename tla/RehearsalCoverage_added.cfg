SPECIFICATION CoverageSpec
CONSTANTS
    None = None
    SlideLimit = 4
    MaxSlideId = 260
    Imports <- MCImports
    Other <- MCOther
    MaxRevs = 4
INVARIANTS
    AddedSlidesUnobserved
CHECK_DEADLOCK FALSE
