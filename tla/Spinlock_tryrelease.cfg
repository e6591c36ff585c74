CONSTANTS
    CPU = {c1, c2, c3}
    NumLocks = 2
    NoCpu = NoCpu
    TryAcquireUsed = TRUE
SPECIFICATION Spec
INVARIANT ReleaseFindsHolder
