SPECIFICATION Spec
CONSTANTS
    None = None
    Window = 2
    Stale = 4
    MaxEvents = 5
    MaxErrors = 5
    DegradedAfter = 1
    ReminderAfter = 1
    SendRetry = 1
    Heard = {"ok", "warn", "err"}
    MaxOpen = 2
    MaxFaults = 0
PROPERTIES
    RedUntilSuccess
CHECK_DEADLOCK FALSE
