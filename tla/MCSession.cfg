CONSTANTS
    p1 = p1
    w1 = w1
    s1 = s1
    s2 = s2
    Panel = {p1}
    Watchdog = {w1}
    Sender = {s1, s2}
    MaxAttempts = 1
    MaxClients = 3
    MaxWrites = 1
    MaxRaced = 1
    MaxSurvivors = 1
    MaxCrashes = 1
SPECIFICATION Spec
INVARIANTS SessionTypeOK OneRecoveryPerCooldown NoOrphanBrowser QrOfCurrent StatusIsBacked LockedByLive
CHECK_DEADLOCK FALSE
SYMMETRY MCSame
