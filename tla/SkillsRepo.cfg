SPECIFICATION FairSpec
CONSTANTS
    Nothing = Nothing
    Failed = Failed
    Calls <- MCCalls
    Asked <- MCAsked
    Names = {"a", "b", "no.skill"}
    ValidNames = {"a", "b"}
    Commits <- MCCommits
    Content <- MCContent
    Blobs <- MCBlobs
    Front <- MCFront
    MaxSkills = 2
    MaxFiles = 2
    MaxFileSize = 4
    MaxSkillFile = 2
    MaxSize = 5
INVARIANTS
    TypeOK
    FetchedIsListed
PROPERTIES
    ReadsOneCommit
    CallsEnd
