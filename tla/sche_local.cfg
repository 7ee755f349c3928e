SPECIFICATION Safety
CONSTANTS
    NCpu = 1
    NThd = 3
    Device = {}
    Unplug = {}
    IrqCpu = {0}
    VWindow = 3
    ReqMax = 2
INVARIANTS OnePlace TreeSorted
