SPECIFICATION Spec
CONSTANTS
    None = None
    Window = 1
    Stale = 0
    MaxEvents = 1
    MaxErrors = 2
    DegradedAfter = 1
    ReminderAfter = 1
    SendRetry = 1
    Heard = {"ok", "warn", "err"}
    MaxOpen = 2
    MaxFaults = 0
INVARIANTS
    NotResent
CHECK_DEADLOCK FALSE
