SPECIFICATION FairSpec
CONSTANTS
    a = a
    b = b
    d1 = d1
    d2 = d2
    tcp = tcp
    udp = udp
    NoOutbound = NoOutbound
    NoKey = NoKey
    Outbound <- Outbounds
    Position <- ListOrder
    Dial <- TwoCalls
    Key <- TwoKeys
    Supports <- NetworkSupport
    Rank <- HashOrder
    Strategies <- AllStrategies
    RRModulus = 2
    MaxChecks = 1
INVARIANTS
    IInv
    FailureOutdatesRecord
    NoFailedRedial
PROPERTIES
    GivesUpOnlyOnRecovery
    CallReturns
CHECK_DEADLOCK FALSE
