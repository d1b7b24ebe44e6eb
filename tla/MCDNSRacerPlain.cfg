SPECIFICATION FairSpec
CONSTANTS
    p1 = p1
    p2 = p2
    f1 = f1
    Primary <- TwoPrimaries
    Fallback <- NoServer
    Exchange = FALSE
    HasUpstreamTimeout = TRUE
    HasGrace = FALSE
    WithAddressLimit = FALSE
    Deaf <- TwoPrimaries
PROPERTIES
    RaceReturns
CHECK_DEADLOCK FALSE
