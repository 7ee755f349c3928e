SPECIFICATION MCSpec
CONSTANTS
    Thread = {t1, t2}
    Caller = {t1, t2}
    Page = {1, 2, 3, 4}
    Boot <- SlabBoot
    BootCols <- SlabBootCols
    PageCols <- SlabPageCols
    MaxShared <- SlabMaxShared
    MaxPrivate = 2
    Node = {1, 2, 3, 4, 5, 6}
    Key = {1, 2}
    Nil = Nil
    None = None
    Unset = Unset
    End = 5
    Large = 2
    Sizes = {1, 2, 3}
    Apic = {1, 2, 3, 4}
    Bsp = 1
    Madt <- MCMadt
    Cpu = {0, 1}
    Top = 7
    Low = 1
    High = 4
    Driver = {"a", "b", "c", "d"}
    Kind <- MCKind
    Num <- MCNum
    Dev = {1, 2}
    Slot = {1}
    MaxEve = 2
    MaxPlug = 2
    MaxItems = 4
    MaxDevs = 2
    GloStkSize = 1
    UsageMx = 1
    ColStkSz = 1
    MxFields = 2
    MxBits = 3
    MaxSz = 1
    MaxCnt = 2
    MxReports = 1
    ReportTps = {"Input"}
    XMaxIntr = 3
    NMaxIntr = 4
    MaxSlot = 7
    XEnv <- MCXEnv
    NEnv <- MCNEnv
    Que = {1}
    SubSz = 2
    CmplSz = 3
    Req = {1, 2}
    MaxBlk = 1
    User = {"a", "b"}
    InputSz <- MCInputSz
    Size = 4
    RingNum = 2
    RingSz = 2
    NoUser = NoUser
    Collections = {"Application"}
SYMMETRY Symmetry
INVARIANTS Types Counters Owned OneSpare Balanced FindsGreatest Disjoint VectorOwned FieldsApart PhaseInStep RingsInStep PortDevLive SlotsReturned Armed BootOrder
PROPERTIES IsOrderedList
CHECK_DEADLOCK FALSE
