SPECIFICATION FairSpec
CONSTANTS
    Nothing = Nothing
    Callers = {"c"}
    Asks <- MCAsks
    Slugs = {"org", "conf"}
    Numerals <- MCNumerals
    Accounts = {"A", "B"}
    Drives = {"d1", "d2"}
    Types = {"document", "text", "image"}
    PageSize = 2
    MaxPages = 2
    GmailDefault = 2
    GmailMax = 3
    MaxTickets = 5
    MaxMessages = 3
    MaxChanges = 2
INVARIANTS
    AnsweredAsAsked
PROPERTIES
    RevokedReadsNothing
    TotalsNeverShort
    CallsEnd
