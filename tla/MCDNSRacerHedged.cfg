SPECIFICATION FairSpec
CONSTANTS
    p1 = p1
    p2 = p2
    f1 = f1
    Primary <- TwoPrimaries
    Fallback <- OneFallback
    Exchange = TRUE
    HasUpstreamTimeout = TRUE
    HasGrace = TRUE
    WithAddressLimit = TRUE
    Deaf <- NoServer
INVARIANTS
    IInv
    FallbackAfterTimeout
    GraceKept
    RejectionUnanimous
PROPERTIES
    RaceReturns
    NoGoroutineLeak
    RaceSpec
CHECK_DEADLOCK FALSE
