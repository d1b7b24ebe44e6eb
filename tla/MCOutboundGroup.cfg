SPECIFICATION FairSpec
CONSTANTS
    a = a
    b = b
    c1 = c1
    c2 = c2
    u1 = u1
    u2 = u2
    NoOutbound = NoOutbound
    NoRecord = NoRecord
    Outbound <- Outbounds
    Position <- ListOrder
    Supports <- NetworkSupport
    Conn <- TwoConns
    Externals <- OneExternal
    Networks <- TcpAndAny
    Caller <- TwoCallers
    Kinds <- AllKinds
    Delays <- DelaySet
    tolerance = 50
    Default = a
    interruptExternalConnections = FALSE
INVARIANTS
    IInv
    StaleMembersAreDue
    FallbackTriesAll
    SelectWithinTolerance
    PersistedFollowsSelection
PROPERTIES
    StaleMembersLeave
CHECK_DEADLOCK FALSE
