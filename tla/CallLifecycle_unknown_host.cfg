SPECIFICATION Spec
CONSTANTS
    tap1 = tap1
    tap2 = tap2
    guest = guest
    Claimant = {guest}
    Host = {}
    MaxHooks = 1
    MaxEnds = 1
CHECK_DEADLOCK FALSE
INVARIANTS
    HostKnown
