CONSTANTS
    MaxAuctions = 2
    MaxBids = 1
    MaxTime = 2
    MaxCrashes = 0
    g1 = g1
    i1 = i1
    e1 = e1
    p1 = p1
    p2 = p2
    t1 = t1
    t2 = t2
    NoGroup = NoGroup
    NoItem = NoItem
    NoEvent = NoEvent
    Groups <- MCGroups
    Items <- MCItems
    Events <- MCNoEvents
    Procs = {p1}
    Amounts <- MCAmounts
    InitialValues <- MCInitials
    Steps <- MCSteps
    Durations <- MCDurations
    Tickers = {t1, t2}
    Editors <- MCNobody
SPECIFICATION EngineSpec
PROPERTY OpenStaysTracked
CHECK_DEADLOCK FALSE
