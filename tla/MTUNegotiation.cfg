SPECIFICATION MTUSpec
CONSTANTS
    OuterMTUs <- Underlays
    Caps <- SomeCaps
INVARIANT EndsAgree
INVARIANT FitsBothPaths
INVARIANT SegmentsFit
