\* Both routines on 2 x 2 ranks: edges of the halo in two hops.
SPECIFICATION FairSpec
CONSTANTS
    npe_x = 2
    npe_y = 1
    npe_z = 2
    nx = 2
    ny = 1
    nz = 1
    stm = 1
    Routine = {"communication", "sync_label_halo"}
    CallBound = 2
INVARIANTS
    TypeOK
    HaloCurrent
    NoMessageOutlivesCall
PROPERTIES
    Finishes
