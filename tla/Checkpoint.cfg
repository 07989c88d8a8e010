SPECIFICATION FairSpec
CONSTANTS
    r1 = r1
    r2 = r2
    Rank = {r1, r2}
    Root = r1
    Layouts <- AllLayouts
    StepMax = 2
    JobMax = 3
    Faults <- SharedFaults
INVARIANTS
    TypeOK
    CommittedWhole
    RestoredWhole
    CollectivesMatch
PROPERTIES
    JobsEnd
    ImplementsDump
