CONSTANTS
    SPC = 2
    FDS = 10
    NC <- MCNC
    EPC <- MCEPC
    RootClus = 2
    InitFat <- MCInitFat
    InitDisk <- MCInitDisk
    InitFsInfo <- MCInitFsInfo
    CreatePaths <- MCCreatePaths
    CreateAttrs <- MCCreateAttrs
    LookupPaths <- MCLookupPaths
    ReadRequests <- MCNoReads
    EnumRequests <- MCNoEnums
    DirInfoSize = 8
    IoMayFail = TRUE
    AllocMayFail = TRUE
    Interruptible = TRUE
SPECIFICATION Spec
VIEW VolView
INVARIANT TypeOK
INVARIANT NoCrossLinkedClusters
INVARIANT FreeRegionUnused
INVARIANT DotEntriesNameParents
