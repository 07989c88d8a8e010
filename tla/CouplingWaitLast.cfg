\* Receives of one source may complete out of order.
SPECIFICATION Spec
CONSTANTS
    N = 1
    L = 2
    Fields <- AllFields
    PicardMax = 2
    Eager = {TRUE}
    InOrder = FALSE
    RoundBound = 2
INVARIANTS
    FieldsFresh
