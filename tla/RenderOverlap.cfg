SPECIFICATION Spec
CONSTANTS
    NoOne = NoOne
    AnyHarness = AnyHarness
    SlashPrefixes <- MCSlashPrefixes
    Catalogs <- ConnectorCatalog
    GrantPool <- MCGrantPool
    Requests <- OneRequest
    MaxGrants = 0
    MaxTime = 0
    Kinds = {"codex", "pi"}
    AnyKind = {"codex", "pi", "unheard"}
    Targets <- MCTargets
    StarFits <- MCStarFits
INVARIANTS
    OverlapWithheld
