SPECIFICATION Spec
CONSTANTS
    c1 = c1
    c2 = c2
    c3 = c3
    Call = {c1,c2,c3}
    NoCall = NoCall
    TTL = 9
    RenewInterval = 4
    SetupMax = 2
    Lateness = 1
    Punctual = TRUE
    FaultyOps = {"acquire", "renew", "release"}
    MaxFaults = 2
SYMMETRY Symmetry
INVARIANTS
    TypeOK
    DamageBounded
PROPERTIES
    RejectionJustified
