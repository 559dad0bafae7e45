CONSTANTS
    g1 = g1
    e1 = e1
    i1 = i1
    p1 = p1
    p2 = p2
    NoGroup = NoGroup
    NoEvent = NoEvent
    NoItem = NoItem
    Procs = {p1, p2}
    Groups <- MCGroups
    Events <- MCEvents
    Items <- MCOneItem
    EventOf <- MCEventOf
    Photo <- MCOneItem
    Timed <- MCOneItem
    MaxAuctions = 1
    MaxCrashes = 0
    MaxFailures = 1
    MaxStatusEdits = 0
SPECIFICATION FairSpec
PROPERTY CallsEnd
CHECK_DEADLOCK FALSE
