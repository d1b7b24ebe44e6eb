SPECIFICATION FairSpec
CONSTANTS
    a = a
    b = b
    d1 = d1
    d2 = d2
    tcp = tcp
    udp = udp
    NoOutbound = NoOutbound
    NoKey = NoKey
    Outbound <- Outbounds
    Position <- ListOrder
    Dial <- OneCall
    Key <- TwoKeys
    Supports <- NetworkSupport
    Rank <- HashOrder
    Strategies <- RoundRobin
    RRModulus = 2
    MaxChecks = 1
PROPERTIES
    RetryCoversAll
CHECK_DEADLOCK FALSE
