CONSTANTS
    s1 = s1
    s2 = s2
    t1 = t1
    t2 = t2
    Amount <- MCAmount
    Numerals <- MCNumerals
    Inside <- MCInside
    Edits <- MCEdits
    Letters <- MCLetters
    Catalog <- MCCatalog
    Senders = {s1, s2}
    Tasks = {t1, t2}
    Digited <- MCDigited
    Commands <- MCCommands
    ReplyMax = 4
    Speech <- MCSpeech
    Scripts <- MCScripts
    Menu <- MCMenu
    Budgets <- MCBudgets
SPECIFICATION Spec
INVARIANTS CommandIsExecuted
CHECK_DEADLOCK FALSE
SYMMETRY MCSame
