CONSTANTS
    SPC = 2
    FDS = 10
    NC <- MCNC
    EPC <- MCEPC
    RootClus = 2
    InitFat <- MCInitFatTwoClusterB
    InitDisk <- MCInitDisk
    InitFsInfo <- MCInitFsInfoTwoClusterB
    CreatePaths <- MCCreatePaths
    CreateAttrs <- MCCreateAttrs
    LookupPaths <- MCLookupPaths
    ReadRequests <- MCReadsAligned
    EnumRequests <- MCEnums
    DirInfoSize = 8
    IoMayFail = TRUE
    AllocMayFail = TRUE
    Interruptible = FALSE
SPECIFICATION Spec
INVARIANT ReadReturnsFileSectors
INVARIANT EnumerateListsDirectory
