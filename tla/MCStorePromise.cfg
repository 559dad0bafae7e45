CONSTANTS
    MaxAuctions = 1
    MaxBids = 2
    MaxTime = 2
    MaxCrashes = 1
    g1 = g1
    i1 = i1
    e1 = e1
    p1 = p1
    p2 = p2
    NoGroup = NoGroup
    NoItem = NoItem
    NoEvent = NoEvent
    Groups <- MCGroups
    Items <- MCItems
    Events <- MCEvents
    Procs = {p1}
    Amounts <- MCAmounts
    InitialValues <- MCInitials
    Steps <- MCTwoSteps
    Durations <- MCDurations
SPECIFICATION FairSpec
PROPERTIES ExpiredIsResolved RefinesAscendingAuction
CHECK_DEADLOCK FALSE
