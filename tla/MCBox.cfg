SPECIFICATION FairSpec
CONSTANTS
    c1 = c1
    l1 = l1
    l2 = l2
    s = s
    t = t
    g = g
    missing = missing
    Conn <- OneConn
    Externals <- AllExternal
    interruptExternalConnections = TRUE
    Loop <- TwoLoops
    Tag <- TwoTags
    Group = g
    Endpoint <- OneEndpoint
    Place <- Order
    DependencyCases <- Cases
INVARIANTS
    IInv
    OnCloseOnce
    NothingLeftBehind
    LoopOwnsTicker
    StartOrderSound
    DialMeetsGroup
PROPERTIES
    ClosedConnectionEnds
    LoopEndsAfterClose
    UseKeepsChecking
CHECK_DEADLOCK FALSE
