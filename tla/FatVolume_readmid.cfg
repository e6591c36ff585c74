CONSTANTS
    SPC = 2
    FDS = 10
    NC <- MCNC
    EPC <- MCEPC
    RootClus = 2
    InitFat <- MCInitFatTwoClusterB
    InitDisk <- MCInitDisk
    InitFsInfo <- MCInitFsInfoTwoClusterB
    CreatePaths <- MCCreatePaths
    CreateAttrs <- MCCreateAttrs
    LookupPaths <- MCLookupPaths
    ReadRequests <- MCReadsUnaligned
    EnumRequests <- MCNoEnums
    DirInfoSize = 8
    IoMayFail = TRUE
    AllocMayFail = TRUE
    Interruptible = TRUE
SPECIFICATION Spec
INVARIANT ReadReturnsFileSectors
