SPECIFICATION Spec
SYMMETRY AnyCall
CONSTANTS
    Nothing = Nothing
    Malformed = {"-"}
    PathFits <- MCPathFits
    Calls = {c, d, e}
    Requests <- MCRequests
    MetaPool <- MCMetas
    TeamIDs = {"uuid"}
INVARIANTS
    NoWriteAsRead
    ExecutableIsAuthorized
PROPERTIES
    KeepsPromise
