SPECIFICATION FairSpec
CONSTANTS
    p1 = p1
    p2 = p2
    f1 = f1
    Primary <- OnePrimary
    Fallback <- OneFallback
    Exchange = TRUE
    HasUpstreamTimeout = TRUE
    HasGrace = TRUE
    WithAddressLimit = FALSE
    Deaf <- OnePrimary
PROPERTIES
    RaceReturns
CHECK_DEADLOCK FALSE
