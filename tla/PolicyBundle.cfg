SPECIFICATION Spec
CONSTANTS
    here = here
    elsewhere = elsewhere
    NoBundle = NoBundle
    Absent = Absent
    Documents <- MCDocuments
    Audiences <- MCAudiences
    Here = here
    Skew = 1
    Window = 2
    MaxTime = 4
INVARIANTS
    NothingAcceptedUnchecked
    ExpiredIsOurs
    StandingIsReportable
    CodeAgreesWithSchema
PROPERTIES
    UsableWhileClockRuns
    KeepsPromise
