CONSTANTS
    Proc = {p1, p2}
    MaxThreads = 2
    NumPids = 4
    InitFailures <- MCEarlyFailures
    MainThreadRunsEarly = FALSE
SPECIFICATION Spec
INVARIANT DestroyIsClean
