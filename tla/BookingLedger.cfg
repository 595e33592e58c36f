SPECIFICATION FairSpec
CONSTANTS
    u1 = u1
    m1 = m1
    p1 = p1
    lead1 = lead1
    cron1 = cron1
    button1 = button1
    h1 = h1
    NoLead = NoLead
    NoEvent = NoEvent
    None = None
    Booking = {u1, m1}
    Synced = {u1}
    Property = {p1}
    Of <- OnePlace
    Lead = {lead1}
    FactSet <- SomeFacts
    Event <- SomeEvents
    Sync = {cron1, button1}
    Job = {cron1}
    Host = {h1}
    Amount = {4}
    HostDates = {1}
    MaxChanges = 2
    MaxRequests = 2
INVARIANTS
    TypeOK
    PriceWhole
    RejectionWithdraws
PROPERTIES
    HostFactKept
    MiraOnlyWhenSure
    Converges
CHECK_DEADLOCK FALSE
