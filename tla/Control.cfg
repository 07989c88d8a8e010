\* Three ranks; two controls that share a statistic, and a table; an allocation fails.
SPECIFICATION Spec
CONSTANTS
    None = None
    Rank = {0, 1, 2}
    Root = 0
    Exec <- Executives
    Kind <- Kinds
    Source <- Sources
    Controls <- SharedControls
    Names <- TwoFields
    Selected = {1}
    StepMax = 2
    Faults <- Allocations
INVARIANTS
    TypeOK
    CollectivesMatch
    FieldsWhole
