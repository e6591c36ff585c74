-------------------------- MODULE ProcessLifecycle --------------------------
(***************************************************************************)
(* The life of a process object of src/HAL9000/src/process.c: its          *)
(* creation (ProcessCreate and _ProcessInit), the threads inserted into    *)
(* and removed from it (ProcessInsertThreadInList,                          *)
(* ProcessNotifyThreadTermination, ProcessRemoveThreadFromList), its       *)
(* termination (ProcessTerminate), the handle its creator returns          *)
(* (ProcessCloseHandle) and its destruction                                *)
(* (_ProcessDestroy) when its reference count reaches zero, with the PID   *)
(* bitmap and the process list it updates.                                 *)
(*                                                                         *)
(* The references are: one taken by RfcInit and dropped when the last      *)
(* thread leaves, one per thread in the list, and one for the handle.      *)
(* Steps of one process run on any CPU: a step is what the code does       *)
(* under one lock, or between two accesses that another CPU can separate.  *)
(* A process slot in Proc is reused once its object is freed, as the pool  *)
(* reuses the memory.  A thread's exit status is its slot number.          *)
(***************************************************************************)
EXTENDS Naturals, FiniteSets, FiniteSetsExt

CONSTANTS
    Proc,               \* process objects that can exist at one time
    MaxThreads,         \* thread slots per process; slot 1 is the main thread
    NumPids,            \* PIDs are 0..NumPids-1; PID 0 is reserved
    InitFailures,       \* where ProcessCreate may fail, "none" for success
    MainThreadRunsEarly \* the main thread may run before ProcessCreate returns

Slot == 1..MaxThreads
Pid == 0..NumPids - 1

\* Every point of ProcessCreate at which a failure leaves it.
CreateFailurePoint ==
    {"none", "alloc", "rfcinit", "event", "header", "name", "cmdline",
     "retrieve_header", "mmu", "run"}

ASSUME /\ MaxThreads \in Nat \ {0}
       /\ NumPids > Cardinality(Proc) + 1
       /\ InitFailures \subseteq CreateFailurePoint /\ "none" \in InitFailures
       /\ MainThreadRunsEarly \in BOOLEAN

VARIABLES
    obj,        \* obj[p]: "none" (never allocated), "alive" or "freed"
    creator,    \* creator[p]: "idle", "returning" (between UmApplicationRun
                \* and line 294), "returned" or "failed"
    handle,     \* handle[p]: the creator holds the pointer ProcessCreate gave
    refcnt,     \* refcnt[p]: RefCnt
    nthreads,   \* nthreads[p]: NumberOfThreads
    active,     \* active[p]: ActiveThreads
    evt,        \* evt[p]: TerminationEvt is signalled
    status,     \* status[p]: TerminationStatus, 0 until set
    pid,        \* pid[p]: Id
    linked,     \* linked[p]: NextProcess was initialised
    killed,     \* killed[p]: ProcessTerminate was called on p
    waited,     \* waited[p]: the creator's ProcessWaitForTermination returned
    thr,        \* thr[p][i]: "none", "running", "terminating" (ThreadTerminate
                \* was called on it, or it called ProcessTerminate on its
                \* own process and ThreadExit is next), "exited", "unlinked_last"
                \* (removed as the last thread, the final dereference not
                \* yet done) or "removed"
    pidmap,     \* the PID bitmap: the set of bits set
    plist,      \* the processes linked in ProcessList
    fault       \* an assertion or fault of _ProcessDestroy: "none",
                \* "threads" (NumberOfThreads != 0) or "unlinked"
                \* (RemoveEntryList on a zeroed NextProcess) or "pid"
                \* (_ProcessSystemFreePid of a clear bit)

vars == <<obj, creator, handle, refcnt, nthreads, active, evt, status, pid,
          linked, killed, waited, thr, pidmap, plist, fault>>

TypeOK ==
    /\ obj \in [Proc -> {"none", "alive", "freed"}]
    /\ creator \in [Proc -> {"idle", "returning", "returned", "failed"}]
    /\ handle \in [Proc -> BOOLEAN]
    /\ refcnt \in [Proc -> 0..MaxThreads + 2]
    /\ nthreads \in [Proc -> 0..MaxThreads]
    /\ active \in [Proc -> 0..MaxThreads]
    /\ evt \in [Proc -> BOOLEAN]
    /\ status \in [Proc -> {0} \cup Slot]
    /\ pid \in [Proc -> Pid]
    /\ linked \in [Proc -> BOOLEAN]
    /\ killed \in [Proc -> BOOLEAN]
    /\ waited \in [Proc -> BOOLEAN]
    /\ thr \in [Proc -> [Slot -> {"none", "running", "terminating", "exited",
                                  "unlinked_last", "removed"}]]
    /\ pidmap \subseteq Pid
    /\ plist \subseteq Proc
    /\ fault \in {"none", "threads", "unlinked", "pid"}

\* ProcessSystemInitSystemProcess runs _ProcessInit("System") on the BSP
\* before any other process exists, so the system process holds the first
\* PID the bitmap hands out; it is never terminated or destroyed.
SystemPid == 1

\* ProcessSystemPreinit: an empty bitmap with bit 0 set, an empty list;
\* then the system process, whose PID is taken.
Init ==
    /\ obj = [p \in Proc |-> "none"]
    /\ creator = [p \in Proc |-> "idle"]
    /\ handle = [p \in Proc |-> FALSE]
    /\ refcnt = [p \in Proc |-> 0]
    /\ nthreads = [p \in Proc |-> 0]
    /\ active = [p \in Proc |-> 0]
    /\ evt = [p \in Proc |-> FALSE]
    /\ status = [p \in Proc |-> 0]
    /\ pid = [p \in Proc |-> 0]
    /\ linked = [p \in Proc |-> FALSE]
    /\ killed = [p \in Proc |-> FALSE]
    /\ waited = [p \in Proc |-> FALSE]
    /\ thr = [p \in Proc |-> [i \in Slot |-> "none"]]
    /\ pidmap = {0, SystemPid}
    /\ plist = {}
    /\ fault = "none"

-----------------------------------------------------------------------------
(* Helpers.                                                                *)

\* _ProcessSystemRetrieveNextPid: BitmapScanAndFlip(&PidBitmap, 1, FALSE)
\* takes the lowest clear bit.
NextPid == Min(Pid \ pidmap)

\* The thread's code may run: with MainThreadRunsEarly FALSE the threads of
\* a process start only once ProcessCreate has returned.
Started(p) == MainThreadRunsEarly \/ creator[p] = "returned"

\* Mutant: InitializeListHead(&NextProcess) after the HeaderInfo allocation.
ListHeadInitialisedLate(f) == f \notin {"rfcinit", "event", "header"}

\* NextProcess is initialised (line 467) unless _ProcessInit left before.
ListHeadInitialised(f) == f \notin {"rfcinit", "event"}

\* ProcessCreate after _ProcessInit has returned a process:
\* UmApplicationRetrieveHeader, MmuCreateAddressSpaceForProcess and
\* UmApplicationRun may fail and __leave, and the __finally dereferences
\* the process, which by then holds its PID and is in ProcessList.
ProcessCreateFailure == {"retrieve_header", "mmu", "run"}

\* The thread states of a thread that has not yet exited.
Live == {"running", "terminating"}

\* A fresh object's thread slots.
NoThreads == [i \in Slot |-> "none"]

\* _ProcessSystemFreePid: under PidBitmapLock, ASSERT_INFO that the bit is
\* set, then BitmapClearBit.  The result is the bitmap and whether the
\* assertion failed.
FreePid(id) == [map |-> pidmap \ {id}, bad |-> id \notin pidmap]

\* Mutant: the PID is not given back.
DestroyKeepsPid(p, n) ==
    /\ obj' = [obj EXCEPT ![p] = "freed"]
    /\ plist' = plist \ {p}
    /\ fault' = IF n # 0 THEN "threads" ELSE fault
    /\ UNCHANGED pidmap

\* _ProcessDestroy, called by RfcDereference at zero, with n the value of
\* NumberOfThreads: it asserts NumberOfThreads == 0, unlinks NextProcess
\* under ProcessListLock, frees the buffers and the address space, gives
\* back the PID unless it is 0, and frees the object.
Destroy(p, n) ==
    /\ obj' = [obj EXCEPT ![p] = "freed"]
    /\ plist' = plist \ {p}
    /\ pidmap' = IF pid[p] # 0 THEN FreePid(pid[p]).map ELSE pidmap
    /\ fault' = CASE n # 0 -> "threads"
                 [] ~linked[p] -> "unlinked"
                 [] pid[p] # 0 /\ FreePid(pid[p]).bad -> "pid"
                 [] OTHER -> fault

\* _ProcessReference: RfcReference.
Referenced(p) == [refcnt EXCEPT ![p] = @ + 1]

\* _ProcessDereference: RfcDereference, which destroys the object when the
\* count reaches zero; n is NumberOfThreads at that moment.
ReleaseRef(p, n) ==
    /\ refcnt' = [refcnt EXCEPT ![p] = @ - 1]
    /\ IF refcnt[p] = 1
       THEN Destroy(p, n)
       ELSE UNCHANGED <<obj, plist, pidmap, fault>>

-----------------------------------------------------------------------------
(* Actions.                                                                *)

\* ProcessCreate with its _ProcessInit, up to UmApplicationRun.  The object
\* is private to the creating thread until its main thread runs, so this
\* is one step.  On failure f the __finally blocks dereference the object
\* (or destroy it directly when RfcInit failed); the destroy unlinks
\* NextProcess, which is still zeroed before line 467.  After a failure
\* past line 505 the PID and list entry taken are given back.  On success
\* UmApplicationRun has inserted the main thread, and line 294 is next.
CreateInit(p, f) ==
    /\ obj[p] \in {"none", "freed"}
    /\ creator[p] # "returning"
    /\ IF f = "alloc"
       THEN /\ creator' = [creator EXCEPT ![p] = "failed"]
            /\ UNCHANGED <<obj, handle, refcnt, nthreads, active, evt, status,
                           pid, linked, killed, waited, waited, thr, pidmap, plist, fault>>
       ELSE /\ handle' = [handle EXCEPT ![p] = FALSE]
            /\ evt' = [evt EXCEPT ![p] = FALSE]
            /\ status' = [status EXCEPT ![p] = 0]
            /\ linked' = [linked EXCEPT ![p] = ListHeadInitialised(f)]
            /\ killed' = [killed EXCEPT ![p] = FALSE]
            /\ waited' = [waited EXCEPT ![p] = FALSE]
            /\ IF f = "none"
               THEN /\ obj' = [obj EXCEPT ![p] = "alive"]
                    /\ creator' = [creator EXCEPT ![p] = "returning"]
                    /\ refcnt' = [refcnt EXCEPT ![p] = 2]
                    /\ nthreads' = [nthreads EXCEPT ![p] = 1]
                    /\ active' = [active EXCEPT ![p] = 1]
                    /\ pid' = [pid EXCEPT ![p] = NextPid]
                    /\ thr' = [thr EXCEPT ![p] = [NoThreads EXCEPT ![1] = "running"]]
                    /\ pidmap' = pidmap \cup {NextPid}
                    /\ plist' = plist \cup {p}
                    /\ UNCHANGED fault
               ELSE /\ obj' = [obj EXCEPT ![p] = "freed"]
                    /\ creator' = [creator EXCEPT ![p] = "failed"]
                    /\ refcnt' = [refcnt EXCEPT ![p] = 0]
                    /\ nthreads' = [nthreads EXCEPT ![p] = 0]
                    /\ active' = [active EXCEPT ![p] = 0]
                    /\ pid' = [pid EXCEPT ![p] =
                          IF f \in ProcessCreateFailure
                          THEN NextPid ELSE 0]
                    /\ thr' = [thr EXCEPT ![p] = NoThreads]
                    /\ fault' = IF linked'[p] THEN fault ELSE "unlinked"
                    /\ UNCHANGED <<pidmap, plist>>

\* Mutant: the reference of line 294 is not taken.
CreateReturnNoReference(p) ==
    /\ creator[p] = "returning"
    /\ handle' = [handle EXCEPT ![p] = TRUE]
    /\ creator' = [creator EXCEPT ![p] = "returned"]
    /\ UNCHANGED <<obj, refcnt, nthreads, active, evt, status, pid, linked, killed, waited,
                   thr, pidmap, plist, fault>>

\* The __finally of ProcessCreate on success: _ProcessReference for the
\* handle, and *Process = pProcess.
CreateReturn(p) ==
    /\ creator[p] = "returning"
    /\ refcnt' = Referenced(p)
    /\ handle' = [handle EXCEPT ![p] = TRUE]
    /\ creator' = [creator EXCEPT ![p] = "returned"]
    /\ UNCHANGED <<obj, nthreads, active, evt, status, pid, linked, killed, waited, thr,
                   pidmap, plist, fault>>

\* Mutant: the thread list takes a second reference for the thread.
InsertReferencesTwice(p, i) ==
    /\ Started(p)
    /\ \E j \in Slot : thr[p][j] = "running"
    /\ thr[p][i] = "none"
    /\ nthreads' = [nthreads EXCEPT ![p] = @ + 1]
    /\ active' = [active EXCEPT ![p] = @ + 1]
    /\ refcnt' = [refcnt EXCEPT ![p] = @ + 2]
    /\ thr' = [thr EXCEPT ![p][i] = "running"]
    /\ UNCHANGED <<obj, creator, handle, evt, status, pid, linked, killed, waited, pidmap,
                   plist, fault>>

\* A running thread of p creates thread i in p, and the thread code calls
\* ProcessInsertThreadInList: under ThreadListLock, NumberOfThreads++,
\* _InterlockedIncrement(&ActiveThreads), InsertTailList and
\* _ProcessReference.
ThreadCreate(p, i) ==
    /\ Started(p)
    /\ \E j \in Slot : thr[p][j] = "running"
    /\ thr[p][i] = "none"
    /\ nthreads' = [nthreads EXCEPT ![p] = @ + 1]
    /\ active' = [active EXCEPT ![p] = @ + 1]
    /\ refcnt' = Referenced(p)
    /\ thr' = [thr EXCEPT ![p][i] = "running"]
    /\ UNCHANGED <<obj, creator, handle, evt, status, pid, linked, killed, waited, pidmap,
                   plist, fault>>

\* Mutant: the event is signalled when one thread is still active.
ThreadExitSignalsEarly(p, i) ==
    /\ Started(p)
    /\ thr[p][i] \in Live
    /\ thr' = [thr EXCEPT ![p][i] = "exited"]
    /\ active' = [active EXCEPT ![p] = @ - 1]
    /\ IF active[p] - 1 <= 1
       THEN /\ status' = [status EXCEPT ![p] = i]
            /\ evt' = [evt EXCEPT ![p] = TRUE]
       ELSE UNCHANGED <<status, evt>>
    /\ UNCHANGED <<obj, creator, handle, refcnt, nthreads, pid, linked, killed, waited,
                   pidmap, plist, fault>>

\* Thread i exits and calls ProcessNotifyThreadTermination:
\* _InterlockedDecrement(&ActiveThreads); the thread that brings it to 0
\* sets TerminationStatus to its exit status and signals TerminationEvt.
ThreadExit(p, i) ==
    /\ Started(p)
    /\ thr[p][i] \in Live
    /\ thr' = [thr EXCEPT ![p][i] = "exited"]
    /\ active' = [active EXCEPT ![p] = @ - 1]
    /\ IF active[p] - 1 = 0
       THEN /\ status' = [status EXCEPT ![p] = i]
            /\ evt' = [evt EXCEPT ![p] = TRUE]
       ELSE UNCHANGED <<status, evt>>
    /\ UNCHANGED <<obj, creator, handle, refcnt, nthreads, pid, linked, killed, waited,
                   pidmap, plist, fault>>

\* Mutant: the dereference of line 689 is never done.
ThreadRemoveNoFinalDeref(p, i) ==
    /\ thr[p][i] = "exited"
    /\ nthreads' = [nthreads EXCEPT ![p] = @ - 1]
    /\ thr' = [thr EXCEPT ![p][i] = "removed"]
    /\ ReleaseRef(p, nthreads[p] - 1)
    /\ UNCHANGED <<creator, handle, active, evt, status, pid, linked, killed, waited>>

\* The exited thread i is destroyed and calls ProcessRemoveThreadFromList;
\* under ThreadListLock: _InterlockedDecrement(&NumberOfThreads),
\* RemoveEntryList and _ProcessDereference.  The thread that left the count
\* at 0 has one more dereference to do once the lock is released.
ThreadRemove(p, i) ==
    /\ thr[p][i] = "exited"
    /\ nthreads' = [nthreads EXCEPT ![p] = @ - 1]
    /\ thr' = [thr EXCEPT ![p][i] =
                  IF nthreads[p] - 1 = 0 THEN "unlinked_last" ELSE "removed"]
    /\ ReleaseRef(p, nthreads[p] - 1)
    /\ UNCHANGED <<creator, handle, active, evt, status, pid, linked, killed, waited>>

\* After LockRelease, remainingThreads == 0: _ProcessDereference, which
\* drops the reference RfcInit took.
ThreadRemoveLast(p, i) ==
    /\ thr[p][i] = "unlinked_last"
    /\ thr' = [thr EXCEPT ![p][i] = "removed"]
    /\ ReleaseRef(p, nthreads[p])
    /\ UNCHANGED <<creator, handle, nthreads, active, evt, status, pid,
                   linked, killed, waited>>

\* Mutant: the loop skips the current thread and ThreadExit is never
\* called for it.
TerminateListSkipCaller(p, i) ==
    [j \in Slot |-> IF thr[p][j] = "running" /\ j # i THEN "terminating"
                    ELSE thr[p][j]]

\* The threads of p after ProcessTerminate called by thread i of p (0: by
\* a thread of another process): under ThreadListLock every thread in the
\* list but the caller gets ThreadTerminate; the caller, found in the
\* list, calls ThreadExit after LockRelease.  Either way every running
\* thread is bound to exit.
TerminateList(p, i) ==
    [j \in Slot |-> IF thr[p][j] = "running" THEN "terminating" ELSE thr[p][j]]

\* ProcessTerminate(p), called by a running thread i of p or (i = 0) by
\* the creator through the handle it holds; ASSERT(!ProcessIsSystem)
\* holds, as the system process is not in Proc.
ProcessTerminate(p, i) ==
    /\ obj[p] = "alive"
    /\ IF i = 0 THEN handle[p] ELSE Started(p) /\ thr[p][i] = "running"
    /\ thr' = [thr EXCEPT ![p] = TerminateList(p, i)]
    /\ killed' = [killed EXCEPT ![p] = TRUE]
    /\ UNCHANGED <<obj, creator, handle, refcnt, nthreads, active, evt, status,
                   pid, linked, waited, pidmap, plist, fault>>

\* Mutant: the wait returns without waiting for the event.
WaitForTerminationNoSignal(p) ==
    /\ handle[p]
    /\ ~waited[p]
    /\ waited' = [waited EXCEPT ![p] = TRUE]
    /\ UNCHANGED <<obj, creator, handle, refcnt, nthreads, active, evt, status,
                   pid, linked, killed, thr, pidmap, plist, fault>>

\* ProcessWaitForTermination(p), by the creator through its handle:
\* ExEventWaitForSignal blocks until TerminationEvt is signalled (it is a
\* notification event, so it stays signalled), then TerminationStatus is
\* read.
WaitForTermination(p) ==
    /\ handle[p]
    /\ evt[p]
    /\ ~waited[p]
    /\ waited' = [waited EXCEPT ![p] = TRUE]
    /\ UNCHANGED <<obj, creator, handle, refcnt, nthreads, active, evt, status,
                   pid, linked, killed, thr, pidmap, plist, fault>>

\* ProcessCloseHandle: _ProcessDereference.
CloseHandle(p) ==
    /\ handle[p]
    /\ handle' = [handle EXCEPT ![p] = FALSE]
    /\ ReleaseRef(p, nthreads[p])
    /\ UNCHANGED <<creator, nthreads, active, evt, status, pid, linked, killed, waited, thr>>

Next ==
    \E p \in Proc :
        \/ \E f \in InitFailures : CreateInit(p, f)
        \/ CreateReturn(p)
        \/ CloseHandle(p)
        \/ WaitForTermination(p)
        \/ \E i \in {0} \cup Slot : ProcessTerminate(p, i)
        \/ \E i \in Slot :
              \/ ThreadCreate(p, i)
              \/ ThreadExit(p, i)
              \/ ThreadRemove(p, i)
              \/ ThreadRemoveLast(p, i)

\* The rest of ProcessCreate and of ProcessRemoveThreadFromList is
\* straight-line code that the CPU running it finishes.  An exited thread
\* is eventually destroyed and removed (ThreadDestroy, in thread.c, runs
\* once its last reference is dropped).  Creating threads, exiting and
\* closing the handle are up to the program and are not assumed; a thread
\* ThreadTerminate was called on, or that is on its way from
\* ProcessTerminate to ThreadExit, does exit.
Fairness ==
    \A p \in Proc :
        /\ WF_vars(CreateReturn(p))
        /\ \A i \in Slot : WF_vars(thr[p][i] = "terminating" /\ ThreadExit(p, i))
        /\ \A i \in Slot : WF_vars(ThreadRemove(p, i))
                        /\ WF_vars(ThreadRemoveLast(p, i))

Spec == Init /\ [][Next]_vars /\ Fairness

-----------------------------------------------------------------------------
(* Properties.                                                             *)

\* The abstract object of each slot: the handle, the threads still in the
\* list (an exited thread stays until ProcessRemoveThreadFromList unlinks
\* it), those that have not exited, and the termination event.
AP(p) == INSTANCE AbstractProcess WITH
    life <- obj[p], held <- handle[p],
    members <- {i \in Slot : thr[p][i] \in Live \cup {"exited"}},
    live <- {i \in Slot : thr[p][i] \in Live},
    ended <- evt[p], waited <- waited[p]

\* Every process object behaves as AbstractProcess promises: it is freed
\* only once its handle is closed and its last thread removed, it is
\* signalled terminated exactly when its last thread exits, no thread is
\* created once none is running, and ProcessWaitForTermination returns only
\* after the signal.
ImplementsAbstractProcess ==
    /\ \A p \in Proc : AP(p)!Init
    /\ [][\A p \in Proc : [AP(p)!Next]_(AP(p)!avars)]_vars

\* Nobody uses a freed process: ProcessCreate does not reference it at
\* line 294, the creator's handle does not point to it, no thread is still
\* in its list or about to drop the reference after LockRelease.  And the
\* dereference ProcessRemoveThreadFromList does while holding the
\* process's own ThreadListLock never frees the object, lock included.
NoUseAfterFree ==
    \A p \in Proc :
        /\ obj[p] = "freed" =>
              /\ ~handle[p]
              /\ creator[p] # "returning"
              /\ \A i \in Slot : thr[p][i] \in {"none", "removed"}
        /\ \A i \in Slot : thr[p][i] = "exited" => refcnt[p] >= 2

\* ProcessWaitForTermination returns once TerminationEvt is signalled; by
\* then every thread of the process has exited (ActiveThreads counts them
\* all), none can be created any more, and the TerminationStatus it reads
\* is the exit status of one of them, set before the event.
TerminationMeansAllExited ==
    \A p \in Proc :
        evt[p] => /\ \A i \in Slot : thr[p][i] \notin Live
                  /\ status[p] \in Slot
                  /\ thr[p][status[p]] \notin Live

\* The PID bitmap and ProcessList describe the live objects: every live
\* process is in the list, with its own PID set in the bitmap, and every
\* other bit but 0 and the system process's is clear.
SystemTablesMatchObjects ==
    /\ plist = {p \in Proc : obj[p] = "alive"}
    /\ pidmap = {0, SystemPid} \cup {pid[p] : p \in plist}
    /\ \A p, q \in plist : p # q => pid[p] # pid[q]

\* _ProcessDestroy never fails its NumberOfThreads assertion, never
\* unlinks a NextProcess that was not initialised, and never frees a PID
\* whose bit is clear.
DestroyIsClean == fault = "none"

\* A process whose creator closed its handle and whose threads have all
\* exited is freed: no reference is left behind.
FreedOnceAbandoned ==
    \A p \in Proc :
        (/\ obj[p] = "alive" /\ creator[p] = "returned" /\ ~handle[p]
         /\ \A i \in Slot : thr[p][i] \notin Live)
            ~> obj[p] = "freed"

\* ProcessTerminate ends the process: every thread it finds, the caller
\* included, exits and the termination event is signalled, whoever
\* called it and however its threads interleave with the call.
TerminateEndsProcess ==
    \A p \in Proc : killed[p] ~> evt[p]
=============================================================================
