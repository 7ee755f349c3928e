SPECIFICATION Safety
CONSTANTS
    NCpu = 2
    NThd = 3
    Device = {2}
    Unplug = {2}
    IrqCpu = {1}
    VWindow = 1
    ReqMax = 2
INVARIANTS NoLostWakeup PauseCounts NoLostSignal
