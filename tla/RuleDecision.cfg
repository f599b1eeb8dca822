SPECIFICATION Spec
CONSTANTS
    NoOne = NoOne
    AnyHarness = AnyHarness
    SlashPrefixes <- MCSlashPrefixes
    Catalogs <- MCCatalogs
    GrantPool <- MCGrantPool
    Requests <- MCRequests
    MaxGrants = 1
    MaxTime = 2
    Kinds = {"codex", "pi"}
    AnyKind = {"codex", "pi", "unheard"}
    Targets <- MCTargets
    StarFits <- MCStarFits
INVARIANTS
    DenyOverrides
    OrderIrrelevant
    DenyBeatsGrant
    RenderedNeverWider
    OverlapSeen
PROPERTIES
    NothingElseWidens
