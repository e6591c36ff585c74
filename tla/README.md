# TLA+ models of buggy_hal

This directory holds TLA+ models of the C sources under `src/`, the TLC
configurations that check them, and `PROJECT.json`. `PROJECT.json` maps every model
definition to the source lines it translates, and lists the runs, mutants,
findings and hazards.

## The system

`src/` holds three groups of code from the HAL9000 teaching kernel:

| Part | Source | State it keeps | Operations |
|------|--------|----------------|------------|
| FAT32 volume: mount and geometry | `fat_operations.c` 13-142 | `FAT_DATA`: sectors per cluster, first data sector, cluster count, root sector | `FatInitVolume` |
| FAT32: address translation and chains | `fat_utils.c` 35-200 | reads the on-disk FAT | `FirstSectorOfCluster`, `ClusterOfSector`, `NextClusterInChain`, `NextSectorInClusterChain` |
| FAT32: name and date codecs | `fat_utils.c` 202-420 | none (pure) | `ConvertFatNameToName`, `Convert*DateTime*` |
| FAT32: directory search | `fat_operations.c` 390-571 | reads directory clusters | `FatSearchDirectoryEntry` |
| FAT32: path resolution | `fat_operations.c` 144-275 | none beyond the disk | `FatSearch` |
| FAT32: file reads | `fat_operations.c` 277-388 | reads data clusters | `FatReadFile` |
| FAT32: entry creation | `fat_operations.c` 614-1065 | writes FSINFO, a directory cluster, a new cluster and a FAT entry | `FatCreateDirectoryEntry` |
| FAT32: directory enumeration | `fat_operations.c` 1067-1235 | reads directory clusters | `FatQueryDirectory` |
| Spinlock | `CommonLib/src/spinlock.c` | `State`, `Holder`, `FunctionWhichTookLock`, and interrupt state per CPU | `SpinlockAcquire`, `SpinlockTryAcquire`, `SpinlockRelease` |
| Processes | `HAL9000/src/process.c` | PID bitmap, process list, reference count, `NumberOfThreads`, `ActiveThreads`, termination event | create, insert/remove thread, thread termination, destroy |
| Headers, user test | `HAL9000/headers/*.h`, `Usermode/.../main.c` | none | declarations; a user program that expects to be killed |

**How the parts interact.**
- The FAT32 operations all go through the chain walkers and `FirstSectorOfCluster` and `ClusterOfSector`.
- `FatCreateDirectoryEntry` calls `FatSearch` twice: once for the parent, and once to refuse an existing name. `FatSearch` calls `FatSearchDirectoryEntry` once per path component.
- The volume is serialized by its caller, the IO manager. Each FAT operation therefore runs alone, and what makes one hard is inside it:
  - undefined behaviour in the C code;
  - pool allocations and device reads that fail;
  - a sequence of four device writes that a crash or a failure can cut short.
- The spinlock and the process code are the parts with real concurrency. Several CPUs run them at once, and nothing serializes their callers.
- `spec.md` describes only the FAT32 driver and declares the spinlock and process code out of its scope. Those two parts are modelled from the source alone.
- A process's `ThreadListLock` is a spinlock, but `ProcessLifecycle.tla` treats each locked section as one step. `Spinlock.tla` checks separately that the lock really gives mutual exclusion.

## What is modelled

### `FatVolume.tla` (with `MCFatVolume.tla`)

**State.** The module's state is the volume:
- `fat`: the FAT table, one value per cluster.
- `disk`: each data cluster as a sequence of `EPC` directory entries. An entry is `[name, attr, clus, dated]`.
- `fsinfo`: `FSI_Free_Count` and `FSI_Nxt_Free`.
- `last`: the operation last performed and the status it returned.

**Data representation.**
- Names and paths are sequences of one-character strings. The C string handling is modelled by what it does:
  - `strchr`, `strrchr` and `strncpy` without a terminator;
  - `ConvertFatNameToName`'s 8.3 decode, in `DecodeName`.
- Each C function is an operator that returns the *set* of its possible outcomes (`[st, val]` records):
  - A read can fail (`IoMayFail`).
  - An allocation can return NULL (`AllocMayFail`).
  - Undefined behaviour is a choice among what the build can produce.

**Actions.**
- `Lookup(path, type)` is `FatSearch` as the IO layer calls it. It does not change the volume.
- `ReadFile(q)` is `FatReadFile` on the file starting at cluster `q.clus`, from sector offset `q.off`, for `q.n` sectors (`FatReadFile`, `ReadSkip`, `ReadCopy`). It does not change the volume. `last.val` is the count returned and the sequence of sectors read, in order.
- `Enumerate(q)` is `FatQueryDirectory` on the directory at cluster `q.clus` with a buffer of `q.cap` bytes (`EnumLoad`, `EnumEntry`, `EnumTest`). `last.val` is the required size and the records written: name, name length, type and `NextEntryOffset`. A record costs `DirInfoSize` plus its name length; `DirInfoSize` stands for `sizeof(FILE_DIRECTORY_INFORMATION)`. A populated entry whose date does not decode ends the operation with `ASSERT`.
- `CreateEntry(path, attr)` is the whole of `FatCreateDirectoryEntry`, in this order:
  1. parent search;
  2. duplicate search;
  3. walk to the parent's last cluster;
  4. free-slot scan, skipping two slots when the parent's last cluster starts at `FirstDataSector`;
  5. FSINFO check;
  6. the four writes, in code order: FSINFO, parent cluster, new cluster, FAT entry.

  `Persist` gives the possible stops of the write sequence:
  - all four writes and SUCCESS;
  - `CLUSTER_INVALID` after two writes, when `FSI_Nxt_Free` is out of range (line 976);
  - with `Interruptible`, any prefix. A prefix stands for a crash, a failed write, or a failed allocation between writes.

  The writes are applied with `FoldLeft`.

**Undefined behaviour, as modelled.**
- **Line 554.** The end-of-loop test reads `pEntry[EntriesPerCluster]`, one entry past the cluster buffer. Its outcome is either value of the test (`LoopTest`).
- **Line 669.** `strncpy(fullPath, ...)` leaves `fullPath` unterminated. The parent path searched is either the prefix or the prefix followed by a non-zero garbage byte (`parents` in `CreateOutcomes`).
- **Line 242.** When `strchr` returns NULL, `partialNameLength` is the low 32 bits of `NULL - pointer`. That value is in 1..12 only for a pointer within 12 bytes below a 4 GiB boundary, and even then the loop reads past the terminator. The model takes the outcome `PATH_NOT_VALID`.

**Deliberate abstractions.**
- The volume has 6 clusters. The real `FatInitVolume` rejects any volume with fewer than 65525 clusters. The count enters the code only through range checks, so the model keeps those checks and shrinks the volume.
- The FAT has no reserved high bits, so the `FAT32_CLUSTER_MASK` masks are identities.
- `FREE_JAP_ENTRY` behaves like `FREE_ENTRY`.
- Names are upper case, so `stricmp` is equality.
- An entry's date and time are reduced to `dated`: whether the stored stamp decodes. Entries written by `FatCreateDirectoryEntry` are dated, and so are the initial volume's entries. A zeroed slot is not dated. `FatCodec.tla` checks separately that the stamp the code writes always decodes.

**Reference definitions.** `Listing`, `Components`, `RefWalk` and `RefLookup` say what a lookup should return, per spec 4.4 and 4.5:
- split the path on `\`;
- in each directory, take the first used short entry with that name, before the first `FREE_ALL`;
- require a directory for inner components and the requested type for the last one.

They are written independently of the code's string handling.

### `FatCodec.tla` (with `MCFatCodec.tla`)

The date and time conversions of `fat_utils.c` (lines 202-244 and 321-420), and the stamp `FatCreateDirectoryEntry` writes (lines 860-874).
- The packed `FATDATE` and `FATTIME` are records of bit-fields. Storing into a field keeps its low bits (`Field(v, w) == v % 2^w`), as a C bit-field assignment does.
- The decoders return a `[st, val]` record and check the fields in the code's order.
- **State:** `stamp`, the stamp one entry holds; `clock`, the clock reading last encoded; `origin`, whether the stamp came from the clock or from another writer of the volume.
- **Actions:** `Stamp(dt)` encodes a clock reading. `Overwrite(s)` stores any bit pattern from `DiskStamps`.

### `Spinlock.tla` and `AbstractLock.tla`

**State.** `state` and `holder` are each lock's `State` and `Holder`. `intr` is each CPU's interrupt flag. Each CPU also has:
- `pc`: where it is inside a spinlock routine;
- `target`: the lock it is working on and the `INTR_STATE` its caller saved;
- `stack`: the locks it holds.

**Steps.** A CPU takes one step per shared-memory access:
- `AcquireCall`: interrupts are disabled and the caller's state is saved.
- `AcquireCas`: the compare-exchange loop. A failed exchange changes nothing and is a stutter.
- `AcquireSetHolder`: the plain write of `Holder`.
- `TryAcquireCall`, `TryAcquireWon`, `TryAcquireLost`.
- `ReleaseCall`, `ReleaseClear` (`Holder = NULL`), `ReleaseFree` (the exchange to `LOCK_FREE`, then the saved interrupt state is restored).

**Callers.** Each CPU takes locks in increasing order and releases them in reverse order, as kernel code nests locks. `FunctionWhichTookLock` is written and asserted next to `Holder`, and is left out. `SpinlockIsOwner` (`CpuGetCurrent() == Holder`) is an operator, and `ReleaseFindsHolder` is stated with it, as the release assertion is.

**Refinement.** `AbstractLock` is the promise: one owner per lock, taken only when free and given back only by its owner. The spinlock is shown to implement it with `Abs == INSTANCE AbstractLock WITH owner <- ...`. A lock's owner is the CPU whose compare-exchange took it, until its release frees it.

**Fairness.** `WF_vars(Internal(c))`: a CPU inside a spinlock routine runs with interrupts off and is not descheduled. Nothing obliges a caller to call. The lock is not fair, so no progress property is stated for a spinning CPU. TLC shows why. CPU 2 holds lock 1 and spins on lock 2, while CPU 3 keeps taking lock 2 with `SpinlockTryAcquire`. CPU 2 starves, and CPU 1, spinning on lock 1, starves behind it. This happens even when every release is assumed strongly fair.

### `ProcessLifecycle.tla` and `AbstractProcess.tla` (with `MCProcessLifecycle.tla`)

**State.** `Proc` is a set of process objects. A slot is reused once its object is freed, as the pool reuses memory. Per process:
- `obj`: none, alive or freed.
- `creator`: where `ProcessCreate` is.
- `handle`: whether the pointer `ProcessCreate` returned is still held.
- `refcnt`, `nthreads`, `active`, `evt` and `status`: `RefCnt`, `NumberOfThreads`, `ActiveThreads`, `TerminationEvt` and `TerminationStatus`.
- `pid`, and `linked`: whether `NextProcess` was initialised. `_ProcessDestroy` unlinks it, so destroying an object whose list head was never initialised records a fault.
- `thr[p][i]`: the state of each thread slot (none, running, terminating, exited, removed). Slot 1 is the main thread.
- `killed`: whether `ProcessTerminate` has been called on the object since it was created.
- `waited`: whether the creator's `ProcessWaitForTermination` has returned.

Shared state: `pidmap` (the PID bitmap: bit 0 set by `ProcessSystemPreinit`, and `SystemPid`, the PID `ProcessSystemInitSystemProcess` takes for the system process at boot, which is never freed) and `plist` (`ProcessList`). `fault` records a failed assertion of `_ProcessDestroy` or of `_ProcessSystemFreePid` (`FreePid`), or a `RemoveEntryList` on a zeroed entry.

**References.** A process holds one reference from `RfcInit`, one per thread in its list, and one for the handle. `ReleaseRef` is `_ProcessDereference`: at zero it calls `Destroy` (`_ProcessDestroy`), which unlinks the process, frees the PID and frees the object.

**Actions.**
- `CreateInit(p, f)` is `ProcessCreate` with `_ProcessInit` up to `UmApplicationRun`, with failure point `f`. The object is private to its creator until the main thread runs, so this is one step.
  - On every failure path the `__finally` blocks dereference or destroy the object.
  - On success the main thread is in the list, and line 294 is still to come.
- `CreateReturn(p)` is line 294 and `*Process = pProcess`.
- `ThreadCreate` is a running thread creating another one: `ProcessInsertThreadInList`, with everything done under the lock as one step.
- `ThreadExit` is `ProcessNotifyThreadTermination`.
- `ThreadRemove` is the locked part of `ProcessRemoveThreadFromList`. `ThreadRemoveLast` is its dereference after `LockRelease`, when `remainingThreads == 0`.
- `CloseHandle` is `ProcessCloseHandle`.
- `WaitForTermination` is `ProcessWaitForTermination` by the handle holder. It is enabled once `TerminationEvt` is signalled, which is a notification event and stays signalled.
- `ProcessTerminate(p, i)` is called by thread `i` of the process, or by an outsider holding the handle (`i = 0`). Under `ThreadListLock` it marks every running thread terminating (`TerminateList`); the caller's own thread is skipped in the loop but then calls `ThreadExit`, so it ends the same way. `ThreadTerminate` is in `thread.c`, outside `src/`: a terminating thread is taken to exit eventually and to create no thread, which the model enforces because only a running thread can create one.

**Switches.**
- `InitFailures` chooses the failure points.
- `MainThreadRunsEarly` says whether the main thread may run before `ProcessCreate` returns. It may on a preemptive multi-CPU kernel. The passing runs assume it does not, so that they can check everything else.

**Refinement.** `AbstractProcess.tla` is what a process object promises its users, per object slot. It has six variables:
- `life`: the object is unallocated, alive or freed;
- `held`: the creator holds the handle;
- `members`: the threads in the list;
- `live`: the member threads that have not exited;
- `ended`: the termination event is signalled;
- `waited`: a wait for termination has returned.

Its promises:
- The object is freed only when no handle and no thread refers to it.
- Only a thread that has not exited creates threads.
- The last exit signals the event.
- A wait returns only after the signal.

`AP(p) == INSTANCE AbstractProcess WITH ...` maps each slot's detailed state onto these variables. An exited thread stays a member until `ProcessRemoveThreadFromList` unlinks it, and a terminating thread is still live. `ImplementsAbstractProcess` checks every step of every slot against `AP(p)!Next`.

**Fairness.** Weak fairness applies to:
- `CreateReturn` and `ThreadRemoveLast`, which are straight-line code;
- `ThreadRemove`. Thread destruction is in `thread.c`, outside `src/`, and is assumed to follow an exit eventually;
- `ThreadExit` of a terminating thread, since `ThreadTerminate` makes its target exit and the caller of `ProcessTerminate` calls `ThreadExit` itself.

Thread creation, exit and handle closing are up to the program and get no fairness.

## Runs

| Run | cfg | Expect | Checks |
|-----|-----|--------|--------|
| `create_crash` | `FatVolume_crash.cfg` | pass | `TypeOK`, `NoCrossLinkedClusters`, `FreeRegionUnused`, `DotEntriesNameParents`, with every read, allocation and write allowed to fail or stop |
| `lookup_existing` | `FatVolume_lookup.cfg` | violation | `LookupFindsExisting`: a lookup of `\A`, which exists, returns `PATH_NOT_VALID` |
| `lookup_false_hit` | `FatVolume_falsehit.cfg` | violation | `LookupReportsOnlyExisting`: with allocation failures, `\\Z` returns SUCCESS, sector 0 |
| `codec_round_trip` | `FatCodec.cfg` | pass | `StampDecodesToClock`, `DecodeAcceptsExactlyValid` |
| `read_enum` | `FatVolume_readenum.cfg` | pass | `ReadReturnsFileSectors`, `EnumerateListsDirectory`, with reads, allocations and creations failing |
| `read_mid_cluster` | `FatVolume_readmid.cfg` | violation | `ReadReturnsFileSectors`: a read from sector offset 1 reads sectors 15, 16, 16 |
| `enum_empty_root` | `FatVolume_enumempty.cfg` | violation | `EnumerateListsDirectory`: listing an empty root stops on the date `ASSERT` |
| `spin_try` | `Spinlock_try.cfg` | pass | `ImplementsAbstractLock`, `AcquireFindsNoHolder`, `InterruptsOffWhileHeld`: 3 CPUs, 2 nested locks, Acquire and TryAcquire |
| `spin_try_release` | `Spinlock_tryrelease.cfg` | violation | `ReleaseFindsHolder`: a release after a successful `SpinlockTryAcquire` finds `Holder` NULL |
| `process_lifecycle` | `ProcessLifecycle.cfg` | pass | `TypeOK`, `NoUseAfterFree`, `TerminationMeansAllExited`, `SystemTablesMatchObjects`, `DestroyIsClean`, `FreedOnceAbandoned`, `TerminateEndsProcess`, `ImplementsAbstractProcess` |
| `process_create_race` | `ProcessLifecycle_early.cfg` | violation | `NoUseAfterFree`: the main thread exits and is removed before line 294 |
| `process_init_failure` | `ProcessLifecycle_initfail.cfg` | violation | `DestroyIsClean`: a failure of `RfcInit` or `ExEventInit` reaches `RemoveEntryList` on a zeroed entry |

### What the properties mean

- **`NoCrossLinkedClusters`.** No cluster is the first cluster of two entries, and no entry owns the root.
  - FSINFO is written before the entry and the FAT. If this order were reversed, a crash between the writes would leave an entry owning the cluster that the next create hands out again. The mutant `CreateWritesEntryFirst` does exactly that, and TLC finds the cross-link.
- **`FreeRegionUnused`.** Every cluster FSINFO promises as free exists, has FAT value 0 and is owned by no entry.
  - `FatCreateDirectoryEntry` allocates `FSI_Nxt_Free` without checking any of this, so correctness rests on this invariant.
  - It holds across every prefix of the write sequence because FSINFO is written first. Advancing the hint before using the cluster only leaks a cluster; it never shares one.
- **`DotEntriesNameParents`.** Spec section 8: once a directory's first cluster is written, its `.` names that cluster and its `..` names the directory whose chain holds the entry, or 0 for the root. This is checked for directories created in the root and in `A`, across every cut-short write sequence. Dropping the root case (`..` always the parent's cluster) breaks it.
- **`TypeOK`.** Besides the types, this includes that `FSI_Free_Count` never goes negative. The mutant that drops the `0 == FSI_Free_Count` check breaks it.
- **`StampDecodesToClock`.** An entry stamped from the clock decodes to that reading, with seconds rounded down to even. So the date `ASSERT` in `_FatPopulateFileInformationFromFatEntry` never fires on an entry the driver created. Storing seconds undivided breaks it.
- **`DecodeAcceptsExactlyValid`.** The decoder accepts a stored stamp exactly when every field is in its calendar range, and whatever it accepts re-encodes bit for bit. A seconds bound off by one breaks it.
- **`ReadReturnsFileSectors`.** Unless a device read or an allocation fails, `FatReadFile` returns SUCCESS, a count of `min(n, sectors left)`, and exactly those sectors of the file's chain in order. The reference (`FileSectors`) walks the FAT independently of the code's sector arithmetic. Reading a whole cluster's worth per iteration regardless of what remains breaks it.
- **`EnumerateListsDirectory`.** Unless a read or an allocation fails, `FatQueryDirectory` returns SUCCESS, a required size equal to the sum over the directory's entries (from `Listing`), and exactly the longest prefix of records that fits the buffer, each `NextEntryOffset` pointing at the next and the last at 0. Creating `.` without a valid stamp breaks it.
- **`ImplementsAbstractLock`.** The spinlock refines `AbstractLock`. The mutant that replaces the compare-exchange with a plain store lets two CPUs own one lock.
- **`AcquireFindsNoHolder` and `ReleaseFindsHolder`.** These are the code's own `Holder` asserts, over every interleaving of the plain `Holder` writes with other CPUs' exchanges.
- **`InterruptsOffWhileHeld`.** Across nested acquires and releases, a CPU holding any spinlock has interrupts disabled. Restoring the saved state before the exchange breaks it.
- **`NoUseAfterFree`.** No path reaches a freed process:
  - not line 294, not a held handle, and not a thread still in the list or about to dereference;
  - the dereference inside the locked section of `ProcessRemoveThreadFromList` is never the last one, because the lock lives in the object.
- **`TerminationMeansAllExited`.** When the termination event is signalled, no thread of the process is running, and `TerminationStatus` is the exit status of one of its exited threads. `ProcessWaitForTermination` relies on this.
- **`SystemTablesMatchObjects`.** `ProcessList` holds exactly the live processes, and the PID bitmap has exactly their PIDs (plus 0), all distinct. This holds across slot reuse and every failure path of `ProcessCreate`.
- **`DestroyIsClean`.** `_ProcessDestroy` never fails its `NumberOfThreads == 0` assert, never unlinks an uninitialised `NextProcess`, and never frees a PID whose bit is already clear.
- **`FreedOnceAbandoned`.** A process whose handle is closed and whose threads have all exited is eventually destroyed, so nothing leaks.
- **`TerminateEndsProcess`.** Once `ProcessTerminate` is called on a process, from one of its threads or from outside, every thread eventually exits and the termination event is signalled. A loop that skipped the calling thread without its `ThreadExit` breaks it.
- **`ImplementsAbstractProcess`.** Every process slot implements `AbstractProcess`, with the steps of all slots checked together. A `ProcessWaitForTermination` that returned without waiting for the event breaks it.

### Findings

Each violation run is a code bug; `PROJECT.json` has the details.

- **Line 232.** `FatSearch` tests `partialNameEnd` against the component start instead of NULL. As a result:
  - no path except `\` resolves;
  - an empty component (`\\C`) is searched as the name `\C`.

  The duplicate check of `FatCreateDirectoryEntry` (line 687) then misses an existing `C`, and a second `C` is created.
- **Line 470.** A failed allocation in `FatSearchDirectoryEntry` leaves with `STATUS_SUCCESS` and the result unwritten. A lookup then succeeds on a path that names nothing.
- **Line 361.** `FatReadFile` adds the offset within the cluster to the sector, but still reads up to a whole cluster's worth from there. It runs into the physically next cluster and then follows the chain from where it started. With 2 sectors per cluster, a read of 3 sectors from offset 1 of a file made of sectors 14..17 returns 15, 16, 16.
- **Line 1221 (and 607).** `FatQueryDirectory` tests for `FREE_ALL` only at the bottom of its do-while, so the first slot of a cluster is always processed. In an empty directory the end marker is counted as an entry, and when it fits it is populated. Its zero date fails to decode, and `ASSERT(SUCCEEDED(status))` stops the kernel. A `CreateEntry` of a directory that stops after writing the parent's slot leaves such a directory.

- **`spinlock.c:64`.** `SpinlockTryAcquire` takes the lock without setting `Holder`, so releasing a lock taken this way fails `SpinlockRelease`'s assert.
- **`process.c:294`.** `ProcessCreate` takes the handle's reference only after `UmApplicationRun` has started the main thread.
  - The comment says this reference keeps the process valid even if it terminates.
  - But if the main thread exits and is removed first, the count goes 2 → 0 and the process is freed.
  - Line 294 then references freed memory, and the freed pointer is returned.
- **`process.c:515`.** `_ProcessDestroy`'s comment says `NextProcess` was initialised at creation. That is false when `RfcInit` or `ExEventInit` fails: the zero-filled object is destroyed before line 467, and `RemoveEntryList` dereferences NULL.

### Bounds

The volume has:
- 6 data clusters of 4 entries and 2 sectors per cluster, with `FirstDataSector = 10`;
- in the root, directory `A` (cluster 3) and file `B` (cluster 4);
- 3 free clusters, and FSINFO saying so.

The inputs:
- Create paths: `\\C`, `\A\\\D` and `\C`.
  - `\\C` reaches the root through the empty-component path.
  - `\A\\\D` reaches directory `A` thanks to the allocation-failure quirk.
  - `\C` is refused at the root by line 660.
- Attributes: normal and directory.

With these, the free region is exhausted: the create after the third one hits `DISK_FULL`. Clusters are allocated in the root and in a subdirectory, so both the root's slot skip and `..` are exercised. Every prefix of every write sequence is reached.

For reads and listings (`read_enum`):
- File `B` is grown to two clusters, 4 → 5 (sectors 14..17), and FSINFO points at cluster 6.
- Reads start at offsets 0 and 2, for 0, 1, 2, 3 and 5 sectors: within a cluster, across the boundary, exactly to the end and past it.
- Listings are of the root, `A`, and the directories creation may make (clusters 6, 7), into buffers of 0, 10 and 64 bytes: none, one record, and all records fit. `DirInfoSize` is 8.
- Creations may fail but not stop midway. A listing of a directory whose creation stopped midway hits the bug of finding 1221.
- Two hazards lie outside these inputs, and TLC shows each with a one-off configuration: a read from offset 4 (the chain's end) hits the `ASSERT` at line 333, and a directory grown to two clusters may lose its second cluster at line 1221.

**Codec.** Clock readings cover years 1980, 2024 and 2107, the extreme months, days, hours and minutes, and seconds 0, 1, 58 and 59. Disk stamps cover each field just inside and just outside its range: 1,920 patterns. The years a 7-bit field cannot hold are hazard `fat_utils.c:402`: a 1979 reading is stamped as 2107.

`VIEW VolView` drops `last` from the state fingerprint. The invariants of the passing run do not read `last`, so the view is sound, and it keeps the run at about 1,200 distinct states.

**Spinlock.** 3 CPUs and 2 locks. This gives contention on both locks, nesting, and a third CPU that can interleave between one CPU's exchange and its `Holder` write.

**Processes.**
- 2 process slots, 2 threads each, and PIDs 0..3 (0 and the system PID taken at boot).
- A slot is reused after its object is freed, so PIDs are both reused and handed out while the other slot holds one.
- Two threads make both the "not last" and the "last" removal paths happen, and an exit that does not signal.
- `ProcessTerminate` is called from inside and from outside, before and after other threads exit.
- The passing run reaches about 58,500 distinct states.

### Fairness

`FatVolume`: none. Every property checked is a safety property, and the FAT driver's operations are called on demand: nothing in the code makes one happen eventually. For `Spinlock` and `ProcessLifecycle`, see their sections above. The `process_lifecycle` run turns off deadlock checking: an idle kernel, in which no program creates a process, is a legitimate end state.

## Not modelled (yet), and the plan

The hazards in `PROJECT.json` without properties are the work list. In order of importance:

1. **`ThreadTerminate`'s semantics.** `ProcessTerminate` is modelled with a terminating thread taken to exit and to create nothing; a target that keeps running after the loop and creates a thread (hazard at `process.c:387`) needs `thread.c`, which is not in `src/`.
2. **`ProcessLifecycle` over `Spinlock`.** The locked sections of the process code, instantiated over the spinlock steps instead of taken as atomic.
3. **A run with the root in cluster 3.** Lines 752 and 950 recognise the root by `FirstDataSector`. `DotEntriesNameParents` catches the line 950 error. A one-off configuration with the root in cluster 3 shows it: a directory created in the root gets `..` = 3 instead of 0. It is not among the configured runs.
4. **File sizes.** `FatReadFile` ignores `DIR_FileSize` and reads whole sectors; the model does the same and has no sizes.
5. **An abstract directory-tree specification.** `FatVolume` will be shown to refine it through a mapping from `disk` to a tree of names. Because of the bugs above, the refinement currently fails for lookups and duplicate names.

Out of reach:
- the user-mode test program, which needs the system-call layer that is not in `src/`;
- the headers;
- `_ProcessParseCommandLine`, which builds the full command line with `snprintf` and counts its arguments with `strcelem` (not in `src/`), and changes no shared state;
- pool memory accounting, for example the buffer leak at `fat_utils.c:134`.
- `FatInitVolume`'s BPB checks. A volume it accepts has at least 65525 clusters, far beyond what TLC can enumerate, and its `dataSectors` subtraction wraps modulo 2^32, which does not fit TLC's 32-bit signed integers. The model takes the geometry it computes as constants (`SPC`, `FDS`, `NC`, `RootClus`) of a shrunken volume.
