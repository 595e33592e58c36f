SPECIFICATION Spec
CONSTANTS
    g1 = g1
    g2 = g2
    r1 = r1
    r2 = r2
    r3 = r3
    s1 = s1
    s2 = s2
    Lead = {g1}
    NoLead = NoLead
    Reachable = {g1}
    Run = {r1}
    Session = {s1}
    Null = Null
    Window = 1
    Stale = 1
    SendMax = 1
    Horizon = 3
    Outcomes = {"accepted"}
    MaxArms = 2
CHECK_DEADLOCK FALSE
PROPERTIES
    RearmSurvives
