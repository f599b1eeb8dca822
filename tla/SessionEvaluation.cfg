SPECIFICATION Spec
CONSTANTS
    NoOne = NoOne
    Nothing = Nothing
    SlashPrefixes = {}
    PolicyPool <- MCPolicyPool
    RowPool <- MCRowPool
    Sessions <- MCSessions
    OnlineSubjects <- MCOnlineSubjects
    Calls <- MCCalls
    Routes <- MCRoutes
    Tools <- MCTools
    Agents <- MCAgents
    DefaultAgent = "main"
    Bindings <- MCBindings
    MaxPolicies = 2
    MaxRows = 2
    MaxTime = 1
INVARIANTS
    SubjectFreeIsFinal
    SessionAgreesWithOnline
    IgnoranceNeverHelps
    OnlineDenyOverrides
PROPERTIES
    ClockNeverGrants
