SPECIFICATION RouterSpec
SYMMETRY Symmetry
CONSTANTS
    d1 = d1
    d2 = d2
    p1 = p1
    p2 = p2
    w1 = w1
    w2 = w2
    Domain = {d1, d2}
    Family <- MCFamily
    Address <- MCAddress
    FamilyOf <- MCFamilyOf
    Options <- MCOptions
    Storages = {"file", "memory"}
    Creator = {p1, p2}
    Writer = {w1, w2}
    MaxAllocations = 3
    MaxStarts = 3
    NoDomain = NoDomain
    NoAddress = NoAddress
    NoMetadata = NoMetadata
    rules <- MCRules
    MaxArrival = 1
    MaxPayload = 2
    NoFake = NoFake
    dnsRules <- MCDNSRules
    Server = {"a", "b", "fake"}
    FakeServer = {"fake"}
    DefaultServer = "a"
    upstreamTimeout = 1
CHECK_DEADLOCK FALSE
INVARIANTS
    RouterIInv
    AddressMapsBack
    NoEarlyReuse
    WithinRange
    
    FirstRuleAnswers
    AnswerAllowed
