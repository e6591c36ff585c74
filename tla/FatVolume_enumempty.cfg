CONSTANTS
    SPC = 2
    FDS = 10
    NC <- MCNC
    EPC <- MCEPC
    RootClus = 2
    InitFat <- MCInitFat
    InitDisk <- MCInitDiskEmptyRoot
    InitFsInfo <- MCInitFsInfo
    CreatePaths <- MCCreatePaths
    CreateAttrs <- MCCreateAttrs
    LookupPaths <- MCLookupPaths
    ReadRequests <- MCNoReads
    EnumRequests <- MCEnumRootProbe
    DirInfoSize = 8
    IoMayFail = TRUE
    AllocMayFail = TRUE
    Interruptible = FALSE
SPECIFICATION Spec
INVARIANT EnumerateListsDirectory
