SPECIFICATION Spec
CONSTANTS
    NCpu = 2
    NThd = 3
    Device = {2}
    Unplug = {}
    IrqCpu = {1}
    VWindow = 1
    ReqMax = 1
INVARIANTS TypeOK OnePlace NoLostWakeup PauseCounts
PROPERTIES BlockingSafety BlockingSpec LaunchedRuns
