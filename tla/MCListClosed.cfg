CONSTANTS
    g1 = g1
    e1 = e1
    i1 = i1
    p1 = p1
    p2 = p2
    NoGroup = NoGroup
    NoEvent = NoEvent
    NoItem = NoItem
    Procs = {p1, p2}
    Groups <- MCGroups
    Events <- MCEvents
    Items <- MCOneItem
    EventOf <- MCEventOf
    Photo <- MCOneItem
    Timed <- MCOneItem
    MaxAuctions = 2
    MaxCrashes = 0
    MaxFailures = 0
    MaxStatusEdits = 0
SPECIFICATION Spec
PROPERTY NoAuctionAfterClose
CHECK_DEADLOCK FALSE
