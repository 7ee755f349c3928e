SPECIFICATION Safety
CONSTANTS
    NCpu = 1
    NThd = 2
    Device = {1}
    Unplug = {1}
    IrqCpu = {0}
    VWindow = 2
    ReqMax = 2
PROPERTIES WaitsForReply
