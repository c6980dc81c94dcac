SPECIFICATION Spec
CONSTANTS
    MaxRow = 6
    StartRows = 3
    Dup = {}
    MaxMark = 1
    MaxFault = 1
    MaxCrash = 1
    MaxRepair = 0
    MaxStray = 2
    NoFile = NoFile
PROPERTIES
    PostCompressLossRecovered
CONSTRAINT FewWithStray
CHECK_DEADLOCK FALSE
