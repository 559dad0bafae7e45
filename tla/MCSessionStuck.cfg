CONSTANTS
    p1 = p1
    w1 = w1
    s1 = s1
    s2 = s2
    Panel = {p1}
    Watchdog = {w1}
    Sender = {}
    MaxAttempts = 1
    MaxClients = 2
    MaxWrites = 1
    MaxRaced = 0
    MaxSurvivors = 0
    MaxCrashes = 0
SPECIFICATION FairSpec
PROPERTIES StuckIsRecreated
CHECK_DEADLOCK FALSE
