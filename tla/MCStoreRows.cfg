CONSTANTS
    MaxAuctions = 1
    MaxBids = 3
    MaxTime = 1
    MaxCrashes = 0
    g1 = g1
    i1 = i1
    e1 = e1
    p1 = p1
    p2 = p2
    NoGroup = NoGroup
    NoItem = NoItem
    NoEvent = NoEvent
    Groups <- MCGroups
    Items <- MCItems
    Events <- MCEvents
    Procs = {p1, p2}
    Amounts <- MCAmounts
    InitialValues <- MCInitials
    Steps <- MCSteps
    Durations <- MCDurations
SPECIFICATION Spec
SYMMETRY MCSame
INVARIANTS TypeOK LeaderIsHighest WinnerIsHighest
PROPERTIES BidNeverShortens
CHECK_DEADLOCK FALSE
