\* Two ranks, with and without radiation; every error and dump path.
SPECIFICATION FairSpec
CONSTANTS
    Rank = {0, 1}
    Root = 0
    Launch <- AnsweredLaunches
    DtRad = 3
    TEnd = 6
    IcntEnd = 3
    StepMax = 4
    DtLimit <- Limits
    Start <- StartBoth
INVARIANTS
    TypeOK
    CollectivesMatch
    NothingAfterRelease
    ReleasedAtExit
    VerdictAgrees
PROPERTIES
    ExchangeNotLate
    ImplementsSchedule
    Finishes
