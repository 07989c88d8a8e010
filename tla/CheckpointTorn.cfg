SPECIFICATION Spec
CONSTANTS
    r1 = r1
    r2 = r2
    Rank = {r1, r2}
    Root = r1
    Layouts <- OneLayout
    StepMax = 2
    JobMax = 2
    Faults <- TornTime
INVARIANTS
    RestoredWhole
