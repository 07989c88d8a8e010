\* A getter that selects a value in each of two ranks.
SPECIFICATION Spec
CONSTANTS
    None = None
    Rank = {0, 1}
    Root = 0
    Exec <- Executives
    Kind <- Kinds
    Source <- Sources
    Controls <- ProbeOnly
    Names <- TwoFields
    Selected = {0, 1}
    StepMax = 1
    Faults = {}
INVARIANTS
    FieldsWhole
