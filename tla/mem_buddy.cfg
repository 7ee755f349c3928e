SPECIFICATION Spec
CONSTANTS
    CPU = {c1, c2}
    Zones <- MCZones
    MaxOrd = 3
    TblShift = 1
    Sizes = {0, 1, 2, 4}
SYMMETRY Symmetry
INVARIANTS TypeOK Partition PairBits Coalesced Accounts
PROPERTIES Allocates
CHECK_DEADLOCK FALSE
