\* A bubble that a cut runs through.
SPECIFICATION Spec
CONSTANTS
    npe_x = 1
    npe_y = 1
    npe_z = 2
    nx = 1
    ny = 1
    nz = 3
    stm = 3
    last_label_in_lower_layer = 0
    Cores <- AllSets
INVARIANTS
    TouchingShareLabel
