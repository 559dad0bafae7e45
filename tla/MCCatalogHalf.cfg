CONSTANTS
    p1 = p1
    p2 = p2
    Panels = {p1, p2}
    Numbers = {1, 2}
    Orders = {1}
    Aliases = {"boi", "gado"}
    AliasMax = 1
    MaxItems = 4
    Scripts <- MCScripts
    Legacy <- MCLegacy
    Budgets <- MCBudgets
SPECIFICATION Spec
INVARIANTS NeverPublishedHalf
CHECK_DEADLOCK FALSE
SYMMETRY MCSame
