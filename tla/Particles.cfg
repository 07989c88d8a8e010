SPECIFICATION FairSpec
CONSTANTS
    r1 = r1
    r2 = r2
    r3 = r3
    p1 = p1
    p2 = p2
    p3 = p3
    Rank = {r1, r2}
    Root = r1
    Particle = {p1, p2}
    Outside = Outside
    StepMax = 2
    StageMax = 2
    GatherAt = {0}
    Start <- EitherStart
    Early = {0}
    Faults <- Allocations
INVARIANTS
    TypeOK
    PlacedOnce
    AtHome
    CollectivesMatch
PROPERTIES
    StepsEnd
