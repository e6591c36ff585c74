----------------------------- MODULE FatVolume -----------------------------
(***************************************************************************)
(* The FAT32 volume driver of HAL9000 (src/FAT32/src): path resolution     *)
(* (FatSearch), single-directory search (FatSearchDirectoryEntry), the     *)
(* cluster-chain walkers (fat_utils.c), entry creation                     *)
(* (FatCreateDirectoryEntry), file reads (FatReadFile) and directory       *)
(* enumeration (FatQueryDirectory) over a small volume.                    *)
(*                                                                         *)
(* The on-disk state is the FAT table, the contents of every data cluster  *)
(* (a sequence of EPC directory entries; a zeroed cluster is EPC entries   *)
(* whose first name byte is 0) and the FSINFO record.  Names are kept as   *)
(* sequences of one-character strings, so that the C string handling of    *)
(* the code (strchr, strrchr, strncpy, strlen, the 8.3 decode) is modelled *)
(* by what it does.  Paths are sequences of characters as well.  Of the    *)
(* date and time fields an entry keeps only whether they decode (dated);   *)
(* FatCodec.tla checks that every stamp the encoder writes does.           *)
(*                                                                         *)
(* The driver runs one operation at a time (the caller serializes), so     *)
(* every operation is one action.  What makes an operation hard is inside  *)
(* it: undefined behaviour of the C code is a set of outcomes, device      *)
(* reads and pool allocations may fail, and CreateEntry's four writes may  *)
(* stop after any prefix (a crash, a failed write, or a failed allocation  *)
(* between two writes).                                                    *)
(***************************************************************************)
EXTENDS Integers, Sequences, SequencesExt, FiniteSets, Bitwise

CONSTANTS
    SPC,            \* FatData->SectorsPerCluster
    FDS,            \* FatData->FirstDataSector
    NC,             \* FatData->CountOfClusters
    EPC,            \* EntriesPerSector * SectorsPerCluster: entries in a cluster
    RootClus,       \* BPB_RootClus
    InitFat,        \* the FAT table at mount: [0..NC+1 -> values]
    InitDisk,       \* the data clusters at mount: [2..NC+1 -> Seq(Entry)]
    InitFsInfo,     \* the FSINFO record at mount: [free, next]
    CreatePaths,    \* paths handed to FatCreateDirectoryEntry
    CreateAttrs,    \* FileAttributes handed to FatCreateDirectoryEntry
    LookupPaths,    \* paths handed to FatSearch by its callers
    ReadRequests,   \* [clus, off, n]: FatReadFile of a file's first cluster
    EnumRequests,   \* [path, cap]: FatQueryDirectory of a directory FatSearch finds
    DirInfoSize,    \* sizeof(FILE_DIRECTORY_INFORMATION)
    IoMayFail,      \* a device read may fail
    AllocMayFail,   \* ExAllocatePoolWithTag may return NULL
    Interruptible   \* CreateEntry may stop between its writes (crash, failed
                    \* write, failed allocation)

ASSUME SPC \in Nat \ {0} /\ NC \in Nat /\ EPC \in Nat \ {0}
ASSUME RootClus \in 2..NC + 1
ASSUME IoMayFail \in BOOLEAN /\ AllocMayFail \in BOOLEAN /\ Interruptible \in BOOLEAN

VARIABLES
    fat,        \* the FAT table, one 28-bit value per cluster
    disk,       \* the contents of every data cluster
    fsinfo,     \* the FSINFO sector: FSI_Free_Count and FSI_Nxt_Free
    last        \* the operation last performed and its returned status

vars == <<fat, disk, fsinfo, last>>

-----------------------------------------------------------------------------
(* Characters, attributes and sentinels (fat32_base.h).                    *)

Delim == "\\"           \* FAT_DELIMITER
NUL == "nul"            \* the byte 0; FREE_ALL as a first name byte
E5 == "e5"              \* FREE_ENTRY (0xE5); FREE_JAP_ENTRY behaves alike
Garbage == "?"          \* a non-zero byte of uninitialized stack memory

ATTR_NORMAL == 0
ATTR_VOLUME_ID == 8
ATTR_DIRECTORY == 16
ATTR_LONG_NAME == 15
ATTR_LONG_NAME_MASK == 63

FAT32_BAD_CLUSTER == 268435447      \* 0x0FFFFFF7
FAT32_EOC_MARK == 268435455         \* 0x0FFFFFFF

Unset == -1             \* an output parameter the callee never wrote

MaxCluster == NC + 1
DataClusters == 2..MaxCluster
SHORT_NAME_CHARS == 11

PadName(n) == n \o [i \in 1..(SHORT_NAME_CHARS - Len(n)) |-> " "]
ZeroEntry == [name |-> [i \in 1..SHORT_NAME_CHARS |-> NUL], attr |-> 0, clus |-> 0,
              dated |-> FALSE]
ZeroCluster == [i \in 1..EPC |-> ZeroEntry]

Ok(v) == [st |-> "SUCCESS", val |-> v]
Fail(s) == [st |-> s, val |-> 0]
ReadFailures == IF IoMayFail THEN {Fail("IO_ERROR")} ELSE {}
AllocFailures == IF AllocMayFail THEN {Fail("HEAP_NO_MORE_MEMORY")} ELSE {}

-----------------------------------------------------------------------------
(* Address translation (fat_utils.c).                                      *)

\* The range test of FirstSectorOfCluster and ClusterOfSector.
ValidCluster(c) == c >= 2 /\ c <= NC + 1

FirstSectorOfCluster(c) == (c - 2) * SPC + FDS

\* (Sector - FirstDataSector) is a QWORD: below FDS it wraps to about 2^64,
\* whose quotient plus 2 exceeds CountOfClusters + 1; 0 stands for it.
ClusterOfSector(s) == IF s < FDS THEN 0 ELSE (s - FDS) \div SPC + 2

RootSector == FirstSectorOfCluster(RootClus)

\* NextClusterInChain: allocate a sector buffer, read the FAT sector, return
\* the raw entry.  The model's FAT values carry no reserved high bits, so
\* the callers' mask with FAT32_CLUSTER_MASK leaves them unchanged.
NextClusterInChain(c) == {Ok(fat[c])} \cup AllocFailures \cup ReadFailures

\* NextSectorInClusterChain: 0 means the chain ended.
NextSectorInClusterChain(s) ==
    LET c == ClusterOfSector(s) IN
    IF ~ValidCluster(c) THEN {Fail("CLUSTER_INVALID")}
    ELSE UNION { IF r.st # "SUCCESS" THEN {r}
                 ELSE IF r.val >= FAT32_BAD_CLUSTER \/ r.val = 0 THEN {Ok(0)}
                 ELSE IF ~ValidCluster(r.val) THEN {Fail("CLUSTER_INVALID")}
                 ELSE {Ok(FirstSectorOfCluster(r.val))}
               : r \in NextClusterInChain(c) }

-----------------------------------------------------------------------------
(* Short-name decode (ConvertFatNameToName) and entry classification.      *)

\* A C string held in a char array ends at the first NUL.
CStr(s) == LET z == SelectInSeq(s, LAMBDA ch : ch = NUL)
           IN IF z = 0 THEN s ELSE SubSeq(s, 1, z - 1)

\* lastSpaceIndex: start of the run of spaces that ends the 8-byte base.
BaseEnd(raw) == LET nonSpace == {i \in 1..8 : raw[i] # " "}
                IN IF nonSpace = {} THEN 0 ELSE Max(nonSpace)

\* The number of extension bytes copied before the first space.
ExtLen(raw) == LET sp == SelectInSubSeq(raw, 9, 11, LAMBDA ch : ch = " ")
               IN IF sp = 0 THEN 3 ELSE sp - 9

DecodeName(raw) ==
    LET base == CStr(SubSeq(raw, 1, BaseEnd(raw)))
        i == ExtLen(raw)
    IN IF i = 0 THEN base
       ELSE base \o <<".">> \o CStr(SubSeq(raw, 9, 8 + i))

IsFreeSlot(e) == e.name[1] = E5
IsEnd(e) == e.name[1] = NUL
IsLongName(e) == (e.attr & ATTR_LONG_NAME_MASK) = ATTR_LONG_NAME
TypeOf(attr) == attr & (ATTR_DIRECTORY + ATTR_VOLUME_ID)

-----------------------------------------------------------------------------
(* FatSearchDirectoryEntry: the outcomes of searching the directory that   *)
(* starts at sector s for a name of a given type.  A result val of Unset   *)
(* means SUCCESS returned without *SearchResult being written.             *)

\* The entries a cluster read at sector s yields.  Below FDS the read
\* returns boot and FAT sectors, whose 32-byte records match no short
\* name and have no zero first byte.
LoadCluster(s) ==
    IF ValidCluster(ClusterOfSector(s)) THEN disk[ClusterOfSector(s)]
    ELSE [i \in 1..EPC |-> [ZeroEntry EXCEPT !.name = [k \in 1..11 |-> Garbage]]]

RECURSIVE ScanEntry(_, _, _, _, _), LoopTest(_, _, _, _, _), LoadScan(_, _, _)

\* The loop body at index i (0-based) of the cluster buf read at sector s.
ScanEntry(s, buf, i, name, type) ==
    LET e == buf[i + 1] IN
    IF IsFreeSlot(e) \/ IsLongName(e) \/ DecodeName(e.name) # name
    THEN LoopTest(s, buf, i + 1, name, type)
    ELSE IF TypeOf(e.attr) # type THEN {Fail("FILE_TYPE_INVALID")}
    ELSE IF ~ValidCluster(e.clus) THEN {Fail("CLUSTER_INVALID")}
    ELSE {Ok(FirstSectorOfCluster(e.clus))}

\* The do-while test on pEntry[j], then the reload at the top of the loop.
\* At j = EPC the test reads one entry past the cluster buffer: whatever
\* byte follows the pool block, zero or not.
LoopTest(s, buf, j, name, type) ==
    LET stops == IF j < EPC THEN {IsEnd(buf[j + 1])} ELSE BOOLEAN
    IN UNION { IF stop THEN {Fail("FILE_NOT_FOUND")}
               ELSE IF j < EPC THEN ScanEntry(s, buf, j, name, type)
               ELSE UNION { IF r.st # "SUCCESS" THEN {r}
                            ELSE IF r.val = 0 THEN {Fail("FILE_NOT_FOUND")}
                            ELSE LoadScan(r.val, name, type)
                          : r \in NextSectorInClusterChain(s) }
             : stop \in stops }

\* Allocate the cluster buffer (a NULL leaves with status still SUCCESS),
\* read the cluster, scan from index 0.
LoadScan(s, name, type) ==
    (IF AllocMayFail THEN {Ok(Unset)} ELSE {})
    \cup ReadFailures
    \cup ScanEntry(s, LoadCluster(s), 0, name, type)

FatSearchDirectoryEntry(s, name, type) == LoadScan(s, name, type)

-----------------------------------------------------------------------------
(* FatSearch: the outcomes of resolving a path.                            *)

IsDelim(ch) == ch = Delim

RECURSIVE WalkPath(_, _, _, _, _, _)
\* start: 1-based index of the next component; pname: the partialName
\* buffer; cur: currentSearchSector; tmp: tempResult.
WalkPath(path, start, pname, cur, tmp, type) ==
    LET d == IF start > Len(path) THEN 0
             ELSE SelectInSubSeq(path, start, Len(path), IsDelim)
        isLast == d = start                 \* Name + startIndexInName == partialNameEnd
        len == IF isLast THEN Len(path) - start + 1 ELSE d - start
        comp == SubSeq(path, start, start + len - 1)
        \* strncpy copies len bytes and no terminator over the old name
        pn == comp \o SubSeq(pname, len + 1, Len(pname))
        stype == IF isLast THEN type ELSE ATTR_DIRECTORY
    IN
    \* strchr found no delimiter: partialNameLength is the low 32 bits of
    \* NULL - (Name + startIndexInName).  It lies in 1..12 only for a
    \* pointer within 12 bytes below a 4 GiB boundary, and even then the
    \* loop goes on reading past the terminator; it is PATH_NOT_VALID.
    IF d = 0 \/ len >= 13 THEN {Fail("PATH_NOT_VALID")}
    ELSE UNION { IF r.st # "SUCCESS" THEN {r}
                 ELSE LET t == IF r.val = Unset THEN tmp ELSE r.val IN
                      IF isLast THEN {Ok(t)}
                      ELSE WalkPath(path, start + len + 1, pn, t, t, type)
               : r \in FatSearchDirectoryEntry(cur, CStr(pn), stype) }

FatSearch(path, type) ==
    IF path[1] # Delim THEN {Fail("INVALID_FILE_NAME")}
    ELSE IF Len(path) = 1
         THEN IF (type & ATTR_DIRECTORY) # ATTR_DIRECTORY
              THEN {Fail("FILE_TYPE_INVALID")} ELSE {Ok(RootSector)}
    ELSE WalkPath(path, 2, <<>>, RootSector, 0, type)

-----------------------------------------------------------------------------
(* FatCreateDirectoryEntry.  CreateOutcomes gives every possible pair of   *)
(* a returned status and the sequence of device writes done before         *)
(* returning; a write is [k: "fsinfo" | "clus" | "fat", c, v].             *)

Stop(s) == [st |-> s, w |-> <<>>]

\* The loop at line 706: walk to the last cluster of the parent.  A FAT
\* value of 0 is followed as a link, to cluster 0.
RECURSIVE WalkToLast(_, _)
WalkToLast(cur, tmp) ==
    IF tmp >= FAT32_BAD_CLUSTER THEN {Ok(cur)}
    ELSE UNION { IF r.st # "SUCCESS" THEN {r} ELSE WalkToLast(tmp, r.val)
               : r \in NextClusterInChain(tmp) }

\* Mutant: the date loop of step 11 left out.
DotEntryUnstamped(n, c) ==
    [name |-> PadName(n), attr |-> ATTR_DIRECTORY, clus |-> c, dated |-> FALSE]

\* "." and "..": ATTR_DIRECTORY and the stamp of the new entry.
DotEntry(n, c) == [name |-> PadName(n), attr |-> ATTR_DIRECTORY, clus |-> c, dated |-> TRUE]

\* Mutant: ".." always names the parent's cluster, the root's included.
NewClusterDataNoRootCase(attr, newc, parentSector) ==
    IF TypeOf(attr) = ATTR_DIRECTORY
    THEN [ZeroCluster EXCEPT
            ![1] = DotEntry(<<".">>, newc),
            ![2] = DotEntry(<<".", ".">>, ClusterOfSector(parentSector))]
    ELSE ZeroCluster

\* The contents written to the new cluster (step 10/11).
NewClusterData(attr, newc, parentSector) ==
    IF TypeOf(attr) = ATTR_DIRECTORY
    THEN [ZeroCluster EXCEPT
            ![1] = DotEntry(<<".">>, newc),
            ![2] = DotEntry(<<".", ".">>,
                            IF FDS = parentSector THEN 0
                            ELSE ClusterOfSector(parentSector))]
    ELSE ZeroCluster

\* Mutant: the parent's cluster is written before FSINFO.
CreateWritesEntryFirst(wFsInfo, wSlot, wCluster, wFat) ==
    <<wSlot, wFsInfo, wCluster, wFat>>

\* The writes, in the order of lines 887, 900, 983 and 1029.
CreateWrites(wFsInfo, wSlot, wCluster, wFat) ==
    <<wFsInfo, wSlot, wCluster, wFat>>

\* Mutant: the free count is not decremented.
FsInfoNoDecrement(fi) == [free |-> fi.free, next |-> fi.next + 1]

\* Step 9: FSI_Free_Count-- and FSI_Nxt_Free++ on the cached FSINFO.
FsInfoAfterAllocation(fi) == [free |-> fi.free - 1, next |-> fi.next + 1]

\* Mutant: the free count is not checked.
NoFreeClusterUnchecked(fi) == FALSE

\* Line 830: FSINFO says no cluster is free.
NoFreeCluster(fi) == fi.free = 0

\* The statuses with which the write sequence may stop after a prefix.
Persist(ws, ok) ==
    LET stopsAfter(n) == {[st |-> "INTERRUPTED", w |-> SubSeq(ws, 1, k)]
                            : k \in IF Interruptible THEN 0..n ELSE {}}
    IN IF ok THEN {[st |-> "SUCCESS", w |-> ws]} \cup stopsAfter(3)
       \* FirstSectorOfCluster(FSI_Nxt_Free) fails after the first two writes
       ELSE {[st |-> "CLUSTER_INVALID", w |-> SubSeq(ws, 1, 2)]} \cup stopsAfter(1)

\* Steps 4 to 12, once the parent's last cluster is known.
FillSlot(raw, attr, parentSector, lastc) ==
    LET finalSector == FirstSectorOfCluster(lastc)
        buf == disk[lastc]
        first == IF finalSector = FDS THEN 3 ELSE 1     \* root: skip 2 entries
        idx == SelectInSubSeq(buf, first, EPC,
                              LAMBDA e : IsFreeSlot(e) \/ IsEnd(e))
        newc == fsinfo.next
        entry == [name |-> raw, attr |-> attr, clus |-> newc, dated |-> TRUE]
        ws == CreateWrites(
                [k |-> "fsinfo", c |-> 0, v |-> FsInfoAfterAllocation(fsinfo)],
                [k |-> "clus", c |-> lastc, v |-> [buf EXCEPT ![idx] = entry]],
                [k |-> "clus", c |-> newc,
                 v |-> NewClusterData(attr, newc, parentSector)],
                [k |-> "fat", c |-> newc, v |-> FAT32_EOC_MARK])
    IN {Stop(f.st) : f \in AllocFailures \cup ReadFailures}     \* cluster buffer
       \cup IF idx = 0 THEN {Stop("DISK_FULL")}
            ELSE {Stop(f.st) : f \in AllocFailures \cup ReadFailures}  \* FSINFO
                 \cup IF NoFreeCluster(fsinfo) THEN {Stop("DISK_FULL")}
                      ELSE Persist(ws, ValidCluster(newc))

\* Step 3 onwards.
ExtendParent(raw, attr, parentSector) ==
    LET c0 == ClusterOfSector(parentSector) IN
    IF ~ValidCluster(c0) THEN {Stop("CLUSTER_INVALID")}
    ELSE UNION { IF r.st # "SUCCESS" THEN {Stop(r.st)}
                 ELSE IF ~ValidCluster(r.val) THEN {Stop("CLUSTER_INVALID")}
                 ELSE FillSlot(raw, attr, parentSector, r.val)
               : r \in WalkToLast(c0, c0) }

CreateOutcomes(path, attr) ==
    LET p == SelectLastInSeq(path, IsDelim)             \* strrchr
        raw == PadName(SubSeq(path, p + 1, Len(path)))  \* newEntryName
        \* strncpy leaves fullPath unterminated: the byte after the copied
        \* prefix is whatever the stack held, zero or not.
        parents == {SubSeq(path, 1, p - 1), SubSeq(path, 1, p - 1) \o <<Garbage>>}
    IN
    IF p = 1 THEN {Stop("PATH_NOT_VALID")}
    ELSE UNION {
        IF r1.st # "SUCCESS" THEN {Stop(r1.st)}
        ELSE UNION {
            IF r2.st \in {"SUCCESS", "FILE_TYPE_INVALID"}
            THEN {Stop("FILE_ALREADY_EXISTS")}
            ELSE ExtendParent(raw, attr, r1.val)
          : r2 \in FatSearch(path, ATTR_NORMAL) }
      : r1 \in UNION {FatSearch(pp, ATTR_DIRECTORY) : pp \in parents} }

-----------------------------------------------------------------------------
(* FatReadFile: the outcomes of reading n sectors from sector offset off   *)
(* of the file whose first sector is base.  A SUCCESS val is the count     *)
(* returned in *SectorsRead and the sectors the device reads, in order.    *)

\* The first loop: follow the chain one cluster per SPC sectors of offset.
RECURSIVE ReadSkip(_, _, _)
ReadSkip(cur, trav, off) ==
    IF trav + SPC > off THEN {Ok(cur)}
    ELSE UNION { IF r.st # "SUCCESS" THEN {r} ELSE ReadSkip(r.val, trav + SPC, off)
               : r \in NextSectorInClusterChain(cur) }

\* *SectorsRead and the sectors the device read; on failure, nothing.
Read(cnt, secs) == [count |-> cnt, secs |-> secs]
ReadFail(st) == [st |-> st, val |-> Read(0, <<>>)]

\* Mutant: every iteration reads a whole cluster.
ReadChunkWholeCluster(rem) == SPC

\* sectorsToRead = min(SectorsPerCluster, sectorsRemaining)
ReadChunk(rem) == Min({SPC, rem})

\* The second loop.  On every iteration but the first the chain is followed
\* from the sector the previous iteration started at; sector 0 ends the
\* read with the count so far.  Each iteration reads ReadChunk sectors
\* from currentSector on, wherever the cluster ends.
RECURSIVE ReadCopy(_, _, _, _, _)
ReadCopy(cur, rem, n, first, secs) ==
    IF rem = 0 THEN {Ok(Read(n, secs))}
    ELSE UNION { IF r.st # "SUCCESS" THEN {ReadFail(r.st)}
                 ELSE IF ~first /\ r.val = 0 THEN {Ok(Read(n - rem, secs))}
                 ELSE LET k == ReadChunk(rem) IN
                      {ReadFail(f.st) : f \in ReadFailures}
                      \cup ReadCopy(r.val, rem - k, n, FALSE,
                                    secs \o [i \in 1..k |-> r.val + i - 1])
               : r \in IF first THEN {Ok(cur)} ELSE NextSectorInClusterChain(cur) }

\* ASSERT(0 != currentSector) after the first loop stops the kernel.
FatReadFile(base, off, n) ==
    UNION { IF r.st # "SUCCESS" THEN {ReadFail(r.st)}
            ELSE IF r.val = 0 THEN {ReadFail("ASSERT")}
            ELSE ReadCopy(r.val + (off % SPC), n, n, TRUE, <<>>)
          : r \in ReadSkip(base, 0, off) }

-----------------------------------------------------------------------------
(* FatQueryDirectory: the outcomes of enumerating the directory at sector  *)
(* s into a buffer of cap bytes.  An outcome is the status, the value left *)
(* in *RequiredDirectionInformationSize (req) and the records written      *)
(* (recs: decoded name, FilenameLength, attribute class, NextEntryOffset). *)

\* *ActualNameLength of ConvertFatNameToName: strlen(normalName), plus the
\* extension bytes copied and a dot if there are any.
NameLength(raw) ==
    Len(CStr(SubSeq(raw, 1, BaseEnd(raw)))) + ExtLen(raw)
        + (IF ExtLen(raw) # 0 THEN 1 ELSE 0)

\* The FileAttributes _FatPopulateFileInformationFromFatEntry derives.
FileAttributes(attr) ==
    IF (attr & ATTR_VOLUME_ID) # 0 THEN "VOLUME"
    ELSE IF (attr & ATTR_DIRECTORY) # 0 THEN "DIRECTORY"
    ELSE "NORMAL"

\* _FatPopulateFileInformationFromFatEntry decodes the creation and write
\* stamps of all but a volume label and ASSERTs that they decode.
PopulateAsserts(e) == FileAttributes(e.attr) # "VOLUME" /\ ~e.dated

Done(st, acc) == [st |-> st, req |-> acc.req, recs |-> acc.recs]

\* Writing a record at pCurEntry: the previous record's NextEntryOffset is
\* patched to the distance between the two, the new one's set to 0.
AddRecord(recs, e) ==
    LET patched == IF recs = <<>> THEN recs
                   ELSE [recs EXCEPT ![Len(recs)].next = DirInfoSize + recs[Len(recs)].len]
    IN Append(patched, [name |-> DecodeName(e.name), len |-> NameLength(e.name),
                        type |-> FileAttributes(e.attr), next |-> 0])

RECURSIVE EnumEntry(_, _, _, _, _), EnumTest(_, _, _, _, _), EnumLoad(_, _, _)

\* The loop body at index i: free and long-name entries are skipped; any
\* other, FREE_ALL included, is counted, and written if it still fits.
EnumEntry(s, buf, i, acc, cap) ==
    LET e == buf[i + 1]
        req == acc.req + DirInfoSize + NameLength(e.name)
    IN IF IsFreeSlot(e) \/ IsLongName(e) THEN EnumTest(s, buf, i + 1, acc, cap)
       ELSE IF req > cap THEN EnumTest(s, buf, i + 1, [acc EXCEPT !.req = req], cap)
       ELSE IF PopulateAsserts(e) THEN {Done("ASSERT", acc)}
       ELSE EnumTest(s, buf, i + 1, [req |-> req, recs |-> AddRecord(acc.recs, e)], cap)

\* The do-while test on pEntry[j] (past the buffer at j = EPC, as in the
\* search), then at the top of the loop the next cluster of the chain.
EnumTest(s, buf, j, acc, cap) ==
    LET stops == IF j < EPC THEN {IsEnd(buf[j + 1])} ELSE BOOLEAN
    IN UNION { IF stop THEN {Done("SUCCESS", acc)}
               ELSE IF j < EPC THEN EnumEntry(s, buf, j, acc, cap)
               ELSE UNION { IF r.st # "SUCCESS" THEN {Done(r.st, acc)}
                            ELSE IF r.val = 0 THEN {Done("SUCCESS", acc)}
                            ELSE EnumLoad(r.val, acc, cap)
                          : r \in NextSectorInClusterChain(s) }
             : stop \in stops }

\* Allocate the cluster buffer, read the cluster, start at index 0.
EnumLoad(s, acc, cap) ==
    {Done(f.st, acc) : f \in AllocFailures \cup ReadFailures}
    \cup EnumEntry(s, LoadCluster(s), 0, acc, cap)

FatQueryDirectory(s, cap) == EnumLoad(s, [req |-> 0, recs |-> <<>>], cap)

ApplyWrite(vol, w) ==
    CASE w.k = "fsinfo" -> [vol EXCEPT !.fsinfo = w.v]
      [] w.k = "clus"   -> [vol EXCEPT !.disk[w.c] = w.v]
      [] w.k = "fat"    -> [vol EXCEPT !.fat[w.c] = w.v]

Applied(ws) ==
    FoldLeft(ApplyWrite, [fat |-> fat, disk |-> disk, fsinfo |-> fsinfo], ws)

-----------------------------------------------------------------------------
(* The entries that own a cluster, and the directories of the volume.      *)

IsDotName(e) == DecodeName(e.name) \in {<<".">>, <<".", ".">>}

\* The slots (cluster, index) holding an entry that owns a cluster: a used,
\* short-name entry other than "." and "..", with a first cluster.
Owners == {r \in DataClusters \X (1..EPC) :
             LET e == disk[r[1]][r[2]] IN
             /\ ~IsEnd(e) /\ ~IsFreeSlot(e) /\ ~IsLongName(e)
             /\ ~IsDotName(e) /\ e.clus # 0}

Owned(r) == disk[r[1]][r[2]].clus

\* The root and the clusters of the directory entries.
Directories ==
    {RootClus} \cup {Owned(r) : r \in {o \in Owners :
                        TypeOf(disk[o[1]][o[2]].attr) = ATTR_DIRECTORY}}

-----------------------------------------------------------------------------
(* Actions.                                                                *)

Init ==
    /\ fat = InitFat
    /\ disk = InitDisk
    /\ fsinfo = InitFsInfo
    /\ last = [op |-> "mount", path |-> <<>>, attr |-> 0, st |-> "SUCCESS", val |-> 0]

\* FatCreateDirectoryEntry(FatData, path, attr).
CreateEntry(path, attr) ==
    \E o \in CreateOutcomes(path, attr) :
        LET vol == Applied(o.w) IN
        /\ fat' = vol.fat
        /\ disk' = vol.disk
        /\ fsinfo' = vol.fsinfo
        /\ last' = [op |-> "create", path |-> path, attr |-> attr,
                    st |-> o.st, val |-> 0]

\* FatSearch(FatData, path, &sector, type, ...) called by the IO layer.
Lookup(path, type) ==
    \E r \in FatSearch(path, type) :
        /\ last' = [op |-> "lookup", path |-> path, attr |-> type,
                    st |-> r.st, val |-> r.val]
        /\ UNCHANGED <<fat, disk, fsinfo>>

\* FatReadFile(FatData, FirstSectorOfCluster(q.clus), q.off, buf, q.n, ...).
ReadFile(q) ==
    \E r \in FatReadFile(FirstSectorOfCluster(q.clus), q.off, q.n) :
        /\ last' = [op |-> "read", path |-> <<>>, attr |-> q, st |-> r.st, val |-> r.val]
        /\ UNCHANGED <<fat, disk, fsinfo>>

\* The IO layer enumerates a directory it holds open: the first sector of
\* the root or of a directory entry.
Enumerate(q) ==
    /\ q.clus \in Directories
    /\ \E o \in FatQueryDirectory(FirstSectorOfCluster(q.clus), q.cap) :
        /\ last' = [op |-> "enum", path |-> <<>>, attr |-> q, st |-> o.st,
                    val |-> [req |-> o.req, recs |-> o.recs]]
        /\ UNCHANGED <<fat, disk, fsinfo>>

Next ==
    \/ \E p \in CreatePaths, a \in CreateAttrs : CreateEntry(p, a)
    \/ \E q \in EnumRequests : Enumerate(q)
    \/ \E q \in ReadRequests : ReadFile(q)
    \/ \E p \in LookupPaths, t \in {ATTR_NORMAL, ATTR_DIRECTORY} : Lookup(p, t)

Spec == Init /\ [][Next]_vars

-----------------------------------------------------------------------------
(* Invariants.                                                             *)

Entries == [name : {n \in Seq(STRING) : Len(n) = SHORT_NAME_CHARS},
            attr : 0..255, clus : Nat, dated : BOOLEAN]

TypeOK ==
    /\ fat \in [0..MaxCluster -> 0..MaxCluster \cup {FAT32_EOC_MARK}]
    /\ disk \in [DataClusters -> Seq(Entries)]
    /\ \A c \in DataClusters : Len(disk[c]) = EPC
    /\ fsinfo \in [free : Nat, next : Nat]

\* No cluster is the first cluster of two entries, or of an entry and the
\* root: whatever prefix of CreateEntry's four writes reached the disk
\* before a crash or a failure, the next CreateEntry does not hand out a
\* cluster some entry already owns (FSINFO is written before the entry).
NoCrossLinkedClusters ==
    \A a, b \in Owners :
        /\ Owned(a) # RootClus
        /\ a # b => Owned(a) # Owned(b)

\* The FSINFO record promises only clusters that are really free: the
\* FSI_Free_Count clusters from FSI_Nxt_Free on exist, are 0 in the FAT and
\* are owned by no entry.  This is the assumption CreateEntry makes of
\* FSINFO (it allocates FSI_Nxt_Free unchecked); the property says its own
\* partial and complete updates keep it.
FreeRegionUnused ==
    \A c \in fsinfo.next .. (fsinfo.next + fsinfo.free - 1) :
        /\ ValidCluster(c)
        /\ fat[c] = 0
        /\ \A r \in Owners : Owned(r) # c

VolView == <<fat, disk, fsinfo>>

-----------------------------------------------------------------------------
(* Reference resolution: what a lookup of a path should return (spec 4.4,  *)
(* 4.5), written independently of the code's string handling.             *)

\* The clusters of the chain starting at c (at most NC of them).
RECURSIVE ChainFrom(_, _)
ChainFrom(c, n) ==
    IF n = 0 \/ ~ValidCluster(fat[c]) THEN <<c>> ELSE <<c>> \o ChainFrom(fat[c], n - 1)

\* The used short entries of the directory at cluster c, in order, up to
\* the first FREE_ALL.
Listing(c) ==
    LET all == FlattenSeq([i \in 1..Len(ChainFrom(c, NC)) |-> disk[ChainFrom(c, NC)[i]]])
        end == SelectInSeq(all, IsEnd)
        used == IF end = 0 THEN all ELSE SubSeq(all, 1, end - 1)
    IN SelectSeq(used, LAMBDA e : ~IsFreeSlot(e) /\ ~IsLongName(e))

\* The components of a path: the pieces between delimiters.
RECURSIVE Components(_)
Components(p) ==
    LET d == SelectInSeq(p, IsDelim) IN
    IF d = 0 THEN <<p>>
    ELSE <<SubSeq(p, 1, d - 1)>> \o Components(SubSeq(p, d + 1, Len(p)))

\* The results that name no sector: no such entry, or one of another type.
Absent == -2
WrongType == -3

\* The sector a path names with the requested type, or Absent or WrongType.
RECURSIVE RefWalk(_, _, _)
RefWalk(dirc, comps, type) ==
    LET l == Listing(dirc)
        hit == SelectInSeq(l, LAMBDA e : DecodeName(e.name) = Head(comps))
        e == l[hit]
        want == IF Len(comps) = 1 THEN type ELSE ATTR_DIRECTORY
    IN IF hit = 0 THEN Absent
       ELSE IF TypeOf(e.attr) # want THEN WrongType
       ELSE IF Len(comps) = 1 THEN FirstSectorOfCluster(e.clus)
       ELSE RefWalk(e.clus, Tail(comps), type)

RefLookup(path, type) ==
    IF path = <<Delim>>
    THEN IF (type & ATTR_DIRECTORY) = ATTR_DIRECTORY THEN RootSector ELSE WrongType
    ELSE LET comps == Tail(Components(path)) IN
         IF path[1] # Delim \/ \E i \in 1..Len(comps) : comps[i] = <<>>
         THEN Absent ELSE RefWalk(RootClus, comps, type)

-----------------------------------------------------------------------------
(* Properties of lookups and of directory contents.                        *)

\* FatSearch finds what is there: a lookup of a path naming an entry of the
\* requested type returns SUCCESS and the entry's first sector (spec 4.5:
\* the path is split on the delimiter and each component searched).
LookupFindsExisting ==
    last.op = "lookup" /\ RefLookup(last.path, last.attr) >= 0
        => /\ last.st = "SUCCESS"
           /\ last.val = RefLookup(last.path, last.attr)

\* FatSearch reports only what is there: a lookup returning SUCCESS returns
\* the first sector of the entry the path names.
LookupReportsOnlyExisting ==
    last.op = "lookup" /\ last.st = "SUCCESS"
        => /\ RefLookup(last.path, last.attr) >= 0
           /\ last.val = RefLookup(last.path, last.attr)

-----------------------------------------------------------------------------
(* Properties of file reads.                                               *)

\* The sectors of the file starting at cluster c, in file order.
FileSectors(c) ==
    LET ch == ChainFrom(c, NC) IN
    FlattenSeq([i \in 1..Len(ch) |->
                  [j \in 1..SPC |-> FirstSectorOfCluster(ch[i]) + j - 1]])

\* FatReadFile reads the file (spec 4.6, and section 8: a request past the
\* end of the chain returns fewer sectors than asked and does not fail):
\* unless the device or the pool fails it returns SUCCESS, a count of
\* min(n, sectors left after off), and the device read exactly the file's
\* sectors from off on.
ReadReturnsFileSectors ==
    last.op = "read" /\ last.st \notin {"IO_ERROR", "HEAP_NO_MORE_MEMORY"}
        => LET q == last.attr
               fs == FileSectors(q.clus)
               cnt == Min({q.n, Max({0, Len(fs) - q.off})})
           IN  /\ last.st = "SUCCESS"
               /\ last.val = Read(cnt, SubSeq(fs, q.off + 1, q.off + cnt))

-----------------------------------------------------------------------------
(* Properties of directory enumeration.                                    *)

\* FatQueryDirectory lists the directory (spec 4.8, and section 8: with a
\* capacity of 0 it returns the sum of the visible entries' sizes and
\* writes nothing): enumerating a directory of the volume, unless the
\* device or the pool fails, returns SUCCESS, a required size that is the
\* sum over the used short entries of header plus name length, and the
\* records of the longest prefix of them that fits, each linked to the
\* next by its size and the last with NextEntryOffset 0.
EnumerateListsDirectory ==
    last.op = "enum" /\ last.st \notin {"IO_ERROR", "HEAP_NO_MORE_MEMORY"}
        => LET l == Listing(last.attr.clus)
               size == [i \in 1..Len(l) |-> DirInfoSize + Len(DecodeName(l[i].name))]
               fits == Max({k \in 0..Len(l) : SumFunctionOnSet(size, 1..k) <= last.attr.cap})
           IN  /\ last.st = "SUCCESS"
               /\ last.val.req = SumFunction(size)
               /\ last.val.recs =
                    [i \in 1..fits |-> [name |-> DecodeName(l[i].name),
                                       len |-> Len(DecodeName(l[i].name)),
                                       type |-> FileAttributes(l[i].attr),
                                       next |-> IF i < fits THEN size[i] ELSE 0]]

-----------------------------------------------------------------------------
(* Properties of the directory tree CreateEntry builds.                    *)

\* Spec section 8: the first cluster of a directory, once written, holds
\* "." naming that cluster and ".." naming the directory whose chain holds
\* its entry, or 0 when that is the root.  FatCreateDirectoryEntry decides
\* "parent is root" from the parent's sector (line 950), and writes the
\* entry and the cluster in separate steps that may be cut short.
DotEntriesNameParents ==
    \A h \in Directories \cap DataClusters, o \in Owners :
        LET e == disk[o[1]][o[2]]
            c == e.clus
        IN  /\ TypeOf(e.attr) = ATTR_DIRECTORY
            /\ ValidCluster(c)
            /\ o[1] \in Range(ChainFrom(h, NC))
            /\ disk[c][1].name = PadName(<<".">>)
            => /\ disk[c][1].clus = c
               /\ disk[c][2].name = PadName(<<".", ".">>)
               /\ disk[c][2].clus = IF h = RootClus THEN 0 ELSE h

=============================================================================
