SPECIFICATION Spec
CONSTANTS
    MaxRow = 5
    StartRows = 3
    Dup = {3}
    MaxMark = 2
    MaxFault = 1
    MaxCrash = 2
    MaxRepair = 1
    MaxStray = 2
    NoFile = NoFile
INVARIANTS
    BackupTypeOK
    
    DeleteStands
PROPERTIES
    LossRecovered
    CleanBootIsNoOp
CONSTRAINT FewWithStray
CHECK_DEADLOCK FALSE
