------------------------------ MODULE Spinlock ------------------------------
(***************************************************************************)
(* The spinlock of src/CommonLib/src/spinlock.c, used by CPUs running in  *)
(* parallel.  Each CPU is a caller that acquires locks (SpinlockAcquire   *)
(* or SpinlockTryAcquire) in increasing order and releases them in        *)
(* reverse order (SpinlockRelease), as a kernel path nests locks.         *)
(*                                                                         *)
(* A CPU's steps are the shared-memory accesses of the code: the          *)
(* compare-exchange on State, the plain writes of Holder, the exchange    *)
(* that frees State.  Writes to the CPU's own interrupt flag are folded   *)
(* into the neighbouring step, since no other CPU reads that flag.        *)
(* FunctionWhichTookLock is written and asserted next to Holder and is    *)
(* left out.                                                              *)
(***************************************************************************)
EXTENDS Naturals, Sequences, SequencesExt

CONSTANTS
    CPU,                \* the processors
    NumLocks,           \* locks are 1..NumLocks, taken in increasing order
    NoCpu,              \* NULL as a Holder
    TryAcquireUsed      \* some callers use SpinlockTryAcquire

Lock == 1..NumLocks

ASSUME NoCpu \notin CPU /\ NumLocks \in Nat /\ TryAcquireUsed \in BOOLEAN

VARIABLES
    state,      \* state[l]: Lock->State
    holder,     \* holder[l]: Lock->Holder
    intr,       \* intr[c]: interrupts enabled on CPU c
    pc,         \* where CPU c is in a spinlock routine
    target,     \* target[c]: [lock, saved]: the lock c works on and the
                \* INTR_STATE its caller keeps for it
    stack       \* stack[c]: the locks c has taken, with their saved states

vars == <<state, holder, intr, pc, target, stack>>

LOCK_FREE == 0
LOCK_TAKEN == 1

HeldLocks(c) == {stack[c][i].lock : i \in 1..Len(stack[c])}

-----------------------------------------------------------------------------
(* The caller: it may start on a lock above every lock it holds.           *)

CanTake(c, l) ==
    /\ pc[c] = "idle"
    /\ \A h \in HeldLocks(c) : h < l

\* SpinlockInit: State is LOCK_FREE, Holder NULL; every CPU starts with
\* interrupts enabled.
Init ==
    /\ state = [l \in Lock |-> LOCK_FREE]
    /\ holder = [l \in Lock |-> NoCpu]
    /\ intr = [c \in CPU |-> TRUE]
    /\ pc = [c \in CPU |-> "idle"]
    /\ target = [c \in CPU |-> [lock |-> 1, saved |-> TRUE]]
    /\ stack = [c \in CPU |-> <<>>]

\* SpinlockAcquire entry: *IntrState = CpuIntrDisable().
AcquireCall(c, l) ==
    /\ CanTake(c, l)
    /\ target' = [target EXCEPT ![c] = [lock |-> l, saved |-> intr[c]]]
    /\ intr' = [intr EXCEPT ![c] = FALSE]
    /\ pc' = [pc EXCEPT ![c] = "spin"]
    /\ UNCHANGED <<state, holder, stack>>

\* Mutant: a plain store instead of the compare-exchange.
AcquireCasNoCompare(c) ==
    LET l == target[c].lock IN
    /\ pc[c] = "spin"
    /\ state' = [state EXCEPT ![l] = LOCK_TAKEN]
    /\ stack' = [stack EXCEPT ![c] = Append(@, target[c])]
    /\ pc' = [pc EXCEPT ![c] = "own_set"]
    /\ UNCHANGED <<holder, intr, target>>

\* The loop on _InterlockedCompareExchange8(&State, LOCK_TAKEN, LOCK_FREE):
\* the exchange that finds the lock free ends the loop.  An exchange that
\* finds it taken changes nothing.
AcquireCas(c) ==
    LET l == target[c].lock IN
    /\ pc[c] = "spin"
    /\ state[l] = LOCK_FREE
    /\ state' = [state EXCEPT ![l] = LOCK_TAKEN]
    /\ stack' = [stack EXCEPT ![c] = Append(@, target[c])]
    /\ pc' = [pc EXCEPT ![c] = "own_set"]
    /\ UNCHANGED <<holder, intr, target>>

\* After the loop: Holder = CpuGetCurrent() (and FunctionWhichTookLock).
AcquireSetHolder(c) ==
    /\ pc[c] = "own_set"
    /\ holder' = [holder EXCEPT ![target[c].lock] = c]
    /\ pc' = [pc EXCEPT ![c] = "idle"]
    /\ UNCHANGED <<state, intr, target, stack>>

\* SpinlockTryAcquire entry: *IntrState = CpuIntrDisable().
TryAcquireCall(c, l) ==
    /\ TryAcquireUsed
    /\ CanTake(c, l)
    /\ target' = [target EXCEPT ![c] = [lock |-> l, saved |-> intr[c]]]
    /\ intr' = [intr EXCEPT ![c] = FALSE]
    /\ pc' = [pc EXCEPT ![c] = "try"]
    /\ UNCHANGED <<state, holder, stack>>

\* The exchange finds the lock free: TRUE is returned, interrupts stay
\* disabled, and Holder is left as it is.
TryAcquireWon(c) ==
    LET l == target[c].lock IN
    /\ pc[c] = "try"
    /\ state[l] = LOCK_FREE
    /\ state' = [state EXCEPT ![l] = LOCK_TAKEN]
    /\ stack' = [stack EXCEPT ![c] = Append(@, target[c])]
    /\ pc' = [pc EXCEPT ![c] = "idle"]
    /\ UNCHANGED <<holder, intr, target>>

\* The exchange finds the lock taken: CpuIntrSetState(*IntrState), FALSE.
TryAcquireLost(c) ==
    /\ pc[c] = "try"
    /\ state[target[c].lock] = LOCK_TAKEN
    /\ intr' = [intr EXCEPT ![c] = target[c].saved]
    /\ pc' = [pc EXCEPT ![c] = "idle"]
    /\ UNCHANGED <<state, holder, target, stack>>

\* The caller releases the lock it took last, with the state it saved.
ReleaseCall(c) ==
    /\ pc[c] = "idle"
    /\ stack[c] # <<>>
    /\ target' = [target EXCEPT ![c] = Last(stack[c])]
    /\ pc' = [pc EXCEPT ![c] = "rel"]
    /\ UNCHANGED <<state, holder, intr, stack>>

\* Mutant: Holder is not cleared.
ReleaseClearKeepHolder(c) ==
    /\ pc[c] = "rel"
    /\ pc' = [pc EXCEPT ![c] = "rel_free"]
    /\ UNCHANGED <<state, holder, intr, target, stack>>

\* Mutant: the interrupt state is restored before the lock is freed.
ReleaseClearRestoreEarly(c) ==
    /\ pc[c] = "rel"
    /\ holder' = [holder EXCEPT ![target[c].lock] = NoCpu]
    /\ intr' = [intr EXCEPT ![c] = target[c].saved]
    /\ pc' = [pc EXCEPT ![c] = "rel_free"]
    /\ UNCHANGED <<state, target, stack>>

\* SpinlockRelease, after its asserts: Holder = NULL (and
\* FunctionWhichTookLock = NULL).
ReleaseClear(c) ==
    /\ pc[c] = "rel"
    /\ holder' = [holder EXCEPT ![target[c].lock] = NoCpu]
    /\ pc' = [pc EXCEPT ![c] = "rel_free"]
    /\ UNCHANGED <<state, intr, target, stack>>

\* _InterlockedExchange8(&State, LOCK_FREE); CpuIntrSetState(OldIntrState).
ReleaseFree(c) ==
    /\ pc[c] = "rel_free"
    /\ state' = [state EXCEPT ![target[c].lock] = LOCK_FREE]
    /\ intr' = [intr EXCEPT ![c] = target[c].saved]
    /\ stack' = [stack EXCEPT ![c] = Front(@)]
    /\ pc' = [pc EXCEPT ![c] = "idle"]
    /\ UNCHANGED <<holder, target>>

\* The steps a CPU takes inside a spinlock routine, with interrupts off.
Internal(c) ==
    \/ AcquireCas(c)
    \/ AcquireSetHolder(c)
    \/ TryAcquireWon(c)
    \/ TryAcquireLost(c)
    \/ ReleaseClear(c)
    \/ ReleaseFree(c)

Next ==
    \E c \in CPU :
        \/ \E l \in Lock : AcquireCall(c, l) \/ TryAcquireCall(c, l)
        \/ ReleaseCall(c)
        \/ Internal(c)

\* A CPU inside a spinlock routine runs with interrupts disabled and is not
\* descheduled, so it keeps taking its steps.  Callers are not obliged to
\* call anything.
Fairness == \A c \in CPU : WF_vars(Internal(c))

Spec == Init /\ [][Next]_vars /\ Fairness

-----------------------------------------------------------------------------
(* Properties.                                                             *)

\* SpinlockIsOwner: CpuGetCurrent() == Lock->Holder.
SpinlockIsOwner(c, l) == holder[l] = c

\* The owner of each lock in the abstract sense: the CPU whose
\* compare-exchange took it and whose release has not yet freed it.
Owner(l) ==
    IF \E c \in CPU : l \in HeldLocks(c)
    THEN CHOOSE c \in CPU : l \in HeldLocks(c)
    ELSE NoCpu

Abs == INSTANCE AbstractLock WITH owner <- [l \in Lock |-> Owner(l)]

\* The spinlock implements a lock: every compare-exchange that succeeds
\* takes a lock nobody owns, and only the owner's release frees it, so no
\* two CPUs are ever inside the same lock.
ImplementsAbstractLock == Abs!Spec

\* SpinlockRelease asserts pCurrentCpu == Lock->Holder: whenever a CPU
\* enters SpinlockRelease for a lock it took, Holder names it, and
\* SpinlockIsOwner answers TRUE for it.
ReleaseFindsHolder ==
    \A c \in CPU : pc[c] = "rel" => SpinlockIsOwner(c, target[c].lock)

\* SpinlockAcquire asserts Holder == NULL once its exchange succeeded: the
\* previous owner's release cleared it, and nobody else wrote it since.
AcquireFindsNoHolder ==
    \A c \in CPU : pc[c] = "own_set" => holder[target[c].lock] = NoCpu

\* Interrupts stay disabled on a CPU for as long as it holds any spinlock,
\* over nested acquires and releases (SpinlockRelease asserts INTR_OFF and
\* restores the saved state only after freeing the lock).
InterruptsOffWhileHeld ==
    \A c \in CPU : HeldLocks(c) # {} => ~intr[c]

=============================================================================
