SPECIFICATION Spec
CONSTANTS
    c1 = c1
    c2 = c2
    c3 = c3
    grem0 = grem0
    wg0 = wg0
    eth0 = eth0
    gremlin0 = gremlin0
    NoCall = NoCall
    Calls <- ThreeCalls
    Grem <- GremNames
    Pinned <- PinnedNames
    Other <- OtherNames
    Prefixed <- PrefixedNames
    Overlap <- PinnedNames
SYMMETRY CallSymmetry
INVARIANT AnswersAreTrue
INVARIANT NoLeftovers
PROPERTY OnlyNamedLinksChange
CHECK_DEADLOCK FALSE
