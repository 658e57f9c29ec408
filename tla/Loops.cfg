SPECIFICATION LoopsSpec
CONSTANTS
    Prefix = {1, 2, 3, 4, 5, 6}
    NetworkAddr = 1
    Reserved = {2}
    Pinned = {4}
    MaxSizes = 4
    MaxThreshold = 5
INVARIANT LoopReturnsLowestUnclaimed
INVARIANT ActsOnThreshold
PROPERTY LoopEnds
PROPERTY CancelEnds
