---------------------------- MODULE MCFatVolume ----------------------------
(* A small FAT32 volume for TLC: 6 data clusters of 4 entries, 2 sectors   *)
(* per cluster.  Root (cluster 2) holds directory A (cluster 3) and file B *)
(* (cluster 4); clusters 5..7 are free and FSINFO says so.                 *)
EXTENDS FatVolume

MCNC == 6
MCEPC == 4

\* An entry stamped by FatCreateDirectoryEntry.
Entry(n, a, c) == [name |-> PadName(n), attr |-> a, clus |-> c, dated |-> TRUE]

MCInitDisk ==
    [c \in 2..MCNC + 1 |->
        CASE c = 2 -> <<Entry(<<"A">>, ATTR_DIRECTORY, 3), Entry(<<"B">>, ATTR_NORMAL, 4),
                        ZeroEntry, ZeroEntry>>
          [] c = 3 -> <<Entry(<<".">>, ATTR_DIRECTORY, 3), Entry(<<".", ".">>, ATTR_DIRECTORY, 0),
                        ZeroEntry, ZeroEntry>>
          [] OTHER -> [i \in 1..MCEPC |-> ZeroEntry]]

\* FAT[0] holds the media byte, FAT[1] an end-of-chain value.
MCInitFat ==
    [c \in 0..MCNC + 1 |-> IF c \in {0, 1, 2, 3, 4} THEN FAT32_EOC_MARK ELSE 0]

MCInitFsInfo == [free |-> 3, next |-> 5]

\* "\\C" (parent "\"), "\A\\\D" (parent "\A\\"), "\C" (a root entry)
MCCreatePaths == { <<Delim, Delim, "C">>,
                   <<Delim, "A", Delim, Delim, Delim, "D">>,
                   <<Delim, "C">> }

MCLookupPaths == { <<Delim>>, <<Delim, Delim, "C">> }

\* "\A": directory A exists in the root.
MCLookupExisting == { <<Delim, "A">> }

\* "\\Z": an empty first component; the path names no entry.
MCLookupMalformed == { <<Delim, Delim, "Z">> }

MCCreateAttrs == {ATTR_NORMAL, ATTR_DIRECTORY}

MCNoReads == {}
MCNoEnums == {}

\* Enumerations of the root, of A and of the directories CreateEntry may
\* make once B holds cluster 5 (clusters 6, 7), into no buffer, a buffer
\* for one record of a one-letter name, and one for all of them.
MCEnums == [clus : {2, 3, 6, 7}, cap : {0, 10, 64}]

\* A full listing of an empty root.
MCEnumRootProbe == [clus : {2}, cap : {64}]

\* A root directory without entries: its first slot is FREE_ALL.
MCInitDiskEmptyRoot == [MCInitDisk EXCEPT ![2] = ZeroCluster]

\* File B grown to two clusters, 4 -> 5; FSINFO then points at cluster 6.
MCInitFatTwoClusterB == [MCInitFat EXCEPT ![4] = 5, ![5] = FAT32_EOC_MARK]
MCInitFsInfoTwoClusterB == [free |-> 2, next |-> 6]

\* Reads of B (4 sectors) from cluster-aligned offsets, within, up to and
\* past the end of its chain.
MCReadsAligned == [clus : {4}, off : {0, 2}, n : {0, 1, 2, 3, 5}]

\* An offset in the middle of a cluster.
MCReadsUnaligned == [clus : {4}, off : {1}, n : {3}]
=============================================================================
