CONSTANTS
    c1 = c1
    c2 = c2
    g1 = g1
    g2 = g2
    x1 = x1
    x2 = x2
    x3 = x3
    MaxPayments = 2
    SyncTake = 1
    Caller = {c1, c2}
    Creator = {g1}
    GroupIds = {x1, x2, x3}
    Limits = {1, 2}
    Webhook = FALSE
    Scenes <- MCRenewal
SPECIFICATION FairSpec
PROPERTIES PaidOpensPanel
CHECK_DEADLOCK FALSE
