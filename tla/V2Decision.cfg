SPECIFICATION HarnessSpec
CONSTANTS
    NoOne = NoOne
    Nothing = Nothing
    SlashPrefixes = {}
    StarFits <- MCStarFits
    Estates <- MCEstates
    Owner <- Alice
    Bindings <- MCBindings
    Profiles <- MCProfiles
    MaxTime = 1
    Skew = 1
    Kinds = {"claude_code", "codex", "pi", "custom"}
    Harnesses <- MCHarnesses
    ShellTools <- MCShellTools
INVARIANTS
    RevocationBinds
    DenyOverridesBinds
    NativePermitStandsOnline
    ShellToolHasOneDecider
    OnlinePermitStandsNatively
PROPERTIES
    
    RowOrderIrrelevant
    UnlinkedRowsLendNothing
