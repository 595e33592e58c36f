SPECIFICATION FairSpec
CONSTANTS
    tap1 = tap1
    tap2 = tap2
    guest = guest
    Claimant = {tap1, tap2, guest}
    Host = {tap1, tap2}
    MaxHooks = 2
    MaxEnds = 1
CHECK_DEADLOCK FALSE
INVARIANTS
    TypeOK
    OneWinner
    HandoffNotHungUp
PROPERTIES
    HandoffRouted
    TransferLabelHolds
    UnclaimedReachesTerminal
