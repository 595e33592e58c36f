SPECIFICATION Spec
CONSTANTS
    None = None
    Window = 1
    Stale = 0
    MaxEvents = 2
    MaxErrors = 2
    DegradedAfter = 1
    ReminderAfter = 1
    SendRetry = 2
    Heard = {"err"}
    MaxOpen = 2
    MaxFaults = 1
INVARIANTS
    TypeOK
    AlarmOnce
    HistoryMatches
PROPERTIES
    DownAnnounced
    ImprovesSlowly
CHECK_DEADLOCK FALSE
