CONSTANTS
    Proc = {p1, p2}
    MaxThreads = 2
    NumPids = 4
    InitFailures <- MCCleanFailures
    MainThreadRunsEarly = FALSE
SPECIFICATION Spec
\* An idle kernel, where no program creates a process, is a legitimate end.
CHECK_DEADLOCK FALSE
INVARIANT TypeOK
INVARIANT NoUseAfterFree
INVARIANT TerminationMeansAllExited
INVARIANT SystemTablesMatchObjects
INVARIANT DestroyIsClean
PROPERTY FreedOnceAbandoned
PROPERTY TerminateEndsProcess
PROPERTY ImplementsAbstractProcess
