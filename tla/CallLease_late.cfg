SPECIFICATION FairSpec
CONSTANTS
    c1 = c1
    c2 = c2
    c3 = c3
    Call = {c1,c2,c3}
    NoCall = NoCall
    TTL = 3
    RenewInterval = 1
    SetupMax = 0
    Lateness = 1
    Punctual = FALSE
    FaultyOps = {"acquire", "renew", "release"}
    MaxFaults = 2
INVARIANTS
    ProtectedExclusive
PROPERTIES
    OnlyOwnerOrTimeEvicts
    AvailabilityTruthful
    Refines
    GhostsVanish
