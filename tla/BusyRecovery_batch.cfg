SPECIFICATION FairSpec
CONSTANTS
    g1 = g1
    g2 = g2
    r1 = r1
    r2 = r2
    r3 = r3
    s1 = s1
    s2 = s2
    Lead = {g1, g2}
    NoLead = NoLead
    Reachable = {g1}
    Run = {r1}
    Session = {s1}
    Null = Null
    Window = 1
    Stale = 0
    SendMax = 1
    Horizon = 4
    Outcomes = {"accepted", "refused", "raises"}
    MaxArms = 1
CHECK_DEADLOCK FALSE
INVARIANTS
    TypeOK
PROPERTIES
    MessagesTimely
    RunsEnd
