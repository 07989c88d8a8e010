\* All bubbles in a region of 3 x 2 x 2 cells.
SPECIFICATION ScanSpec
CONSTANTS
    NX = 3
    NY = 2
    NZ = 2
INVARIANTS
    ScanTypeOK
    NeighborsShareLabel
    SharingAreConnected
    LabelsAreCounted
