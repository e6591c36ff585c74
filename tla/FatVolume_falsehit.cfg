CONSTANTS
    SPC = 2
    FDS = 10
    NC <- MCNC
    EPC <- MCEPC
    RootClus = 2
    InitFat <- MCInitFat
    InitDisk <- MCInitDisk
    InitFsInfo <- MCInitFsInfo
    CreatePaths <- MCCreatePaths
    CreateAttrs <- MCCreateAttrs
    LookupPaths <- MCLookupMalformed
    ReadRequests <- MCNoReads
    EnumRequests <- MCNoEnums
    DirInfoSize = 8
    IoMayFail = FALSE
    AllocMayFail = TRUE
    Interruptible = FALSE
SPECIFICATION Spec
INVARIANT LookupReportsOnlyExisting
