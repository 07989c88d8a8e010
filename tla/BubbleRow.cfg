\* Bubbles of up to four cells in a row of three subdomains of 1 x 2 x 3 cells.
SPECIFICATION LayersSpec
CONSTANTS
    npe_x = 1
    npe_y = 1
    npe_z = 3
    nx = 1
    ny = 2
    nz = 3
    stm = 3
    last_label_in_lower_layer = 2
    Cores <- AtMostFour
    NumberOfLayer = 2
    too_small_bubble_volume = 5
INVARIANTS
    TypeOK
    UnitedIsClosure
    PeripheryHasCore
    BubblesSeparated
