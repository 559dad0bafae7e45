CONSTANTS
    b1 = b1
    b2 = b2
    t1 = t1
    t2 = t2
    t3 = t3
    r1 = r1
    r2 = r2
    r3 = r3
    r4 = r4
    Browser = {b1, b2}
    Tab = {t1, t2, t3}
    BrowserOf <- MCBrowserOf
    Request = {r1, r2, r3, r4}
    TabOf <- MCTabOf
    Home = b1
    RecoveryCodes = 2
    MaxToken = 5
    Mixes <- MCTwice
SPECIFICATION Spec
INVARIANTS RecoveryCodeOnce
CHECK_DEADLOCK FALSE
SYMMETRY MCSame
