SPECIFICATION Spec
CONSTANTS
    here = here
    elsewhere = elsewhere
    NoBundle = NoBundle
    Absent = Absent
    Documents <- MCDocuments
    Audiences <- MCAudiences
    Here = here
    Skew = 1
    Window = 2
    MaxTime = 3
INVARIANT
    MissingValidatorNotApplied
