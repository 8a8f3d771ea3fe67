CONSTANTS
    None = None
    c1 = c1
    c2 = c2
    a1 = a1
    a2 = a2
    LogId = l1
    OtherLog = l2
    Clients <- MC_Clients
    Admins <- MC_Admins
    Options <- MC_Options
    CommandLines <- MC_CommandLines
    InitialConfigs <- MC_InitialConfigs
    MaxSegments = 4
    MaxAppends = 2
    MaxFaults = 1
SYMMETRY MC_Symmetry
SPECIFICATION Spec
INVARIANT TypeOK
PROPERTY ImplementsVirtualLog
PROPERTY ReportedIsExtended
CHECK_DEADLOCK FALSE
