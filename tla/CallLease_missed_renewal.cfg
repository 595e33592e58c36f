SPECIFICATION Spec
CONSTANTS
    c1 = c1
    c2 = c2
    c3 = c3
    Call = {c1,c2}
    NoCall = NoCall
    TTL = 9
    RenewInterval = 4
    SetupMax = 2
    Lateness = 1
    Punctual = TRUE
    FaultyOps = {"renew"}
    MaxFaults = 1
SYMMETRY Symmetry
INVARIANTS
    MissedRenewalTolerated
