SPECIFICATION Safety
CONSTANTS
    NCpu = 1
    NThd = 4
    Device = {2}
    Unplug = {2}
    IrqCpu = {0}
    VWindow = 3
    ReqMax = 2
INVARIANTS OtherProcSeen
