SPECIFICATION Spec
CONSTANTS
    Callers = {c1}
    Setups <- MCSetups
    Texts <- MCTexts
    MaxQueries = 2
    MaxDrops = 0
CHECK_DEADLOCK FALSE
INVARIANTS
    AlwaysRolledBack
