SPECIFICATION FairSpec
CONSTANTS
    Callers = {c1, c2}
    Setups <- MCSetups
    Texts <- MCTexts
    MaxQueries = 2
    MaxDrops = 1
CHECK_DEADLOCK FALSE
INVARIANTS
    AnswersAreWhole
    NothingLeaks
PROPERTIES
    TextsWithinTheirTx
    QueriesEnd
