CONSTANTS
    SPC = 2
    FDS = 10
    NC <- MCNC
    EPC <- MCEPC
    RootClus = 2
    InitFat <- MCInitFat
    InitDisk <- MCInitDisk
    InitFsInfo <- MCInitFsInfo
    CreatePaths <- MCCreatePaths
    CreateAttrs <- MCCreateAttrs
    LookupPaths <- MCLookupExisting
    ReadRequests <- MCNoReads
    EnumRequests <- MCNoEnums
    DirInfoSize = 8
    IoMayFail = FALSE
    AllocMayFail = FALSE
    Interruptible = FALSE
SPECIFICATION Spec
INVARIANT LookupFindsExisting
