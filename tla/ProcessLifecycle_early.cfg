CONSTANTS
    Proc = {p1, p2}
    MaxThreads = 2
    NumPids = 4
    InitFailures = {"none"}
    MainThreadRunsEarly = TRUE
SPECIFICATION Spec
INVARIANT NoUseAfterFree
