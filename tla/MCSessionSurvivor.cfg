CONSTANTS
    p1 = p1
    w1 = w1
    s1 = s1
    s2 = s2
    Panel = {p1}
    Watchdog = {}
    Sender = {}
    MaxAttempts = 1
    MaxClients = 2
    MaxWrites = 1
    MaxRaced = 0
    MaxSurvivors = 1
    MaxCrashes = 0
SPECIFICATION Spec
INVARIANTS CodeIsNew
CHECK_DEADLOCK FALSE
