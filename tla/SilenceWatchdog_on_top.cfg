SPECIFICATION Spec
CONSTANTS
    t1 = t1
    t2 = t2
    t3 = t3
    q1 = q1
    NoTimer = NoTimer
    Timer = {t1, t2, t3}
    Request = {q1}
    Timeout = 2
    MaxPrompts = 2
    MaxRequests = 1
CHECK_DEADLOCK FALSE
PROPERTIES
    NeverHungUpOnTop
