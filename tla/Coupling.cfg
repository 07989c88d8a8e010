\* Two subdomains, one slave each, with sends that are buffered or not.
SPECIFICATION FairSpec
CONSTANTS
    N = 2
    L = 2
    Fields <- TwoFields
    PicardMax = 2
    Eager = {TRUE, FALSE}
    InOrder = TRUE
    RoundBound = 3
INVARIANTS
    TypeOK
    MessagesMatch
    FieldsFresh
    NothingLeft
PROPERTIES
    PicardInLockStep
    Finishes
