---------------------------------- MODULE Disk ----------------------------------
(***************************************************************************)
(* What kmain_common does with the legacy ATA disk (src/src/main.rs): it   *)
(* probes the drive, runs AtaDevice::self_test on the last sector, looks   *)
(* for a partition, mounts the FAT32 volume it finds and reads /test.txt   *)
(* by walking the root directory's and the file's cluster chains.          *)
(*                                                                         *)
(* The drive is external: any command may fail or time out.  What is on    *)
(* the disk is chosen initially, well-formed or not: mount takes the       *)
(* geometry from the boot sector without a check, so the root cluster and  *)
(* the chains may be any numbers.  A read returns what is there or fails,  *)
(* and a buffer that the heap has no room for is a panic.                  *)
(***************************************************************************)
EXTENDS Naturals, Sequences, FiniteSets, FiniteSetsExt

CONSTANTS
  Cluster,       \* the cluster numbers, from 2 on, that the drive reads: those of
                 \* the volume, and those beyond it whose sector number, cut to
                 \* 32 bits (`sector_id as u32`), is on the disk again
  DirContents,   \* what a directory cluster may hold: sequences of entries
  FileSizes,     \* sizes the directory entry of the file may give
  ClusterSize,   \* bytes in a cluster
  Eoc,           \* the first end-of-chain number, 0x0FFFFFF8
  HeapLeft,      \* bytes that the heap has left when the volume is mounted
  Layouts        \* what LBA 0 may hold

ASSUME DiskAssumption ==
  /\ Eoc \in Nat \ {0} /\ Cluster \subseteq 2 .. Eoc - 1
  /\ DirContents \subseteq Seq(STRING)
  /\ ClusterSize \in Nat \ {0} /\ FileSizes \subseteq Nat /\ HeapLeft \in Nat

VARIABLES
  volume,      \* fat, dir and root: what the FAT and the clusters hold and where the
               \* root directory is; start and size: the file's entry
  layout,      \* LBA 0: signature, partition entries, and which LBA has the volume
  last,        \* the drive's last sector: "original" or "pattern"
  fault,       \* history: a command of the drive has failed
  pc,          \* where the boot code is
  original, readback,   \* locals of self_test
  base,        \* lba_offset of the mounted device
  cluster,     \* current_cluster of the running loop
  remaining,   \* bytes_remaining of read_file_content
  content,     \* what it has copied: <<cluster, bytes>> pairs
  result       \* how read_file_by_path ended

vars == <<volume, layout, last, fault, pc, original, readback, base, cluster, remaining,
          content, result>>

IsChain(c) == c < Eoc /\ c >= 2

--------------------------------------------------------------------------------
\* What a boot sector, a FAT or a directory entry may give as a cluster: one
\* that can be read, none, the end of a chain, or one that is not on the disk.
Numbers == Cluster \cup {0, Eoc, Eoc - 1}

\* A directory cluster of a volume with 0 sectors per cluster holds no entries.
Volumes ==
  [fat : [Cluster -> Numbers], dir : [Cluster -> DirContents], root : Numbers,
   start : Numbers, size : FileSizes]

Init ==
  /\ volume \in Volumes
  /\ layout \in Layouts
  /\ last = "original"
  /\ fault = FALSE
  /\ pc = "new"
  /\ original = "none" /\ readback = "none"
  /\ base = 0
  /\ cluster = 0
  /\ remaining = 0
  /\ content = << >>
  /\ result = "none"

--------------------------------------------------------------------------------
(* AtaDevice *)

\* A sector access succeeds: wait_while_busy and wait_for_data saw the drive
\* get ready.
Succeeds == UNCHANGED fault

\* One of the waits timed out or saw ERR or DF.
Fails == fault' = TRUE

\* The probe of the primary master.  Without a drive boot goes on, and so it
\* does with one of zero sectors, for which self_test, the MBR probe and the
\* mount are all refused.
AtaNew ==
  /\ pc = "new"
  /\ \/ pc' = "st_read" /\ Succeeds
     \/ pc' = "done" /\ UNCHANGED fault
     \/ pc' = "done" /\ Fails
  /\ UNCHANGED <<volume, layout, last, original, readback, base, cluster, remaining, content,
                 result>>

\* self_test, one action for each sector access; an error ends it at once.
self_testRead ==
  /\ pc = "st_read"
  /\ \/ Succeeds /\ original' = last /\ pc' = "st_write"
     \/ Fails /\ UNCHANGED original /\ pc' = "probe"
  /\ UNCHANGED <<volume, layout, last, readback, base, cluster, remaining, content, result>>

\* Before the data transfer a failing wait means that nothing is written.
\* Afterwards only the flush's BSY is looked at: a time-out there is an error
\* although the sector may have been written, and a write that the drive
\* rejects goes unnoticed.
self_testWrite ==
  /\ pc = "st_write"
  /\ \/ Succeeds /\ last' = "pattern" /\ pc' = "st_readback"
     \/ Fails /\ last' \in {last, "pattern"} /\ pc' = "probe"
     \/ Fails /\ UNCHANGED last /\ pc' = "st_readback"
  /\ UNCHANGED <<volume, layout, original, readback, base, cluster, remaining, content, result>>

self_testReadback ==
  /\ pc = "st_readback"
  /\ \/ Succeeds /\ readback' = last /\ pc' = "st_restore"
     \/ Fails /\ UNCHANGED readback /\ pc' = "probe"
  /\ UNCHANGED <<volume, layout, last, original, base, cluster, remaining, content, result>>

\* Mutant of self_testRestore: what was read back is written.
self_testRestoreReadback ==
  /\ pc = "st_restore"
  /\ \/ Succeeds /\ last' = readback
     \/ Fails /\ last' \in {last, readback}
  /\ pc' = "probe"
  /\ UNCHANGED <<volume, layout, original, readback, base, cluster, remaining, content, result>>

self_testRestore ==
  /\ pc = "st_restore"
  /\ \/ Succeeds /\ last' = original
     \/ Fails /\ last' \in {last, original}
  /\ pc' = "probe"
  /\ UNCHANGED <<volume, layout, original, readback, base, cluster, remaining, content, result>>

--------------------------------------------------------------------------------
(* mbr and mount *)

\* The first entry in use; 0 stands for None.
find_first_partition_lba(sector0) ==
  LET used == {i \in DOMAIN sector0.entries :
                 sector0.entries[i].type # "empty" /\ sector0.entries[i].lba # 0}
  IN IF ~sector0.signature \/ used = {} THEN 0 ELSE sector0.entries[Min(used)].lba

\* Without a partition table, or when LBA 0 cannot be read, LBA 0 is mounted.
Probe ==
  /\ pc = "probe"
  /\ \/ Succeeds /\ base' = find_first_partition_lba(layout)
     \/ Fails /\ base' = 0
  /\ pc' = "mount"
  /\ UNCHANGED <<volume, layout, last, original, readback, cluster, remaining, content, result>>

\* The allocator's answer to a request for a buffer, when `used` bytes are gone:
\* the code goes on, or handle_alloc_error panics.  A buffer of a cluster is not
\* given back: blocks above 2048 bytes are not used again.
Allocated(used, bytes, next) == IF used + bytes <= HeapLeft THEN next ELSE "panic"

\* Fat32FileSystem::mount: only a FAT boot sector passes its checks.  Then
\* find_in_directory takes its buffer and begins at the root cluster.
Mount ==
  /\ pc = "mount"
  /\ \/ /\ Succeeds /\ base = layout.volume
        /\ pc' = Allocated(0, ClusterSize, "find") /\ cluster' = volume.root /\ UNCHANGED result
     \/ /\ Succeeds /\ base # layout.volume
        /\ pc' = "done" /\ result' = "no volume" /\ UNCHANGED cluster
     \/ /\ Fails
        /\ pc' = "done" /\ result' = "no volume" /\ UNCHANGED cluster
  /\ UNCHANGED <<volume, layout, last, original, readback, base, remaining, content>>

--------------------------------------------------------------------------------
(* fat32 *)

\* The entries of a directory cluster that the inner loop looks at.
Seen(entries) ==
  {i \in DOMAIN entries : \A j \in 1 .. i : entries[j] # "end"}

\* The first entry with the name: a file or a directory; free and long-name
\* entries are passed over.
Match(entries) ==
  LET hits == {i \in Seen(entries) : entries[i] \in {"file", "directory"}}
  IN IF hits = {} THEN "none" ELSE entries[Min(hits)]

Finish(how) == pc' = "done" /\ result' = how

\* Mutant of find_in_directory: a cluster without a match ends the search.
find_in_directoryOneCluster ==
  /\ pc = "find"
  /\ \/ /\ ~IsChain(cluster) /\ UNCHANGED fault /\ Finish("not found")
        /\ UNCHANGED <<cluster, remaining>>
     \/ /\ IsChain(cluster) /\ cluster \in Cluster /\ Succeeds
        /\ CASE Match(volume.dir[cluster]) = "file" ->
                  /\ pc' = Allocated(ClusterSize, volume.size + ClusterSize, "read")
                  /\ cluster' = volume.start /\ remaining' = volume.size
                  /\ UNCHANGED result
             [] Match(volume.dir[cluster]) = "directory" ->
                  Finish("is a directory") /\ UNCHANGED <<cluster, remaining>>
             [] OTHER -> Finish("not found") /\ UNCHANGED <<cluster, remaining>>
     \/ /\ IsChain(cluster) /\ Fails /\ Finish("error")
        /\ UNCHANGED <<cluster, remaining>>
  /\ UNCHANGED <<volume, layout, last, original, readback, base, content>>

\* One round of the loop of find_in_directory up to the end of the inner loop,
\* with what read_file_by_path does with the entry: read_file_content begins
\* with a vector for the whole file and a buffer for a cluster.  A cluster
\* number outside the disk is a read error.
find_in_directory ==
  /\ pc = "find"
  /\ \/ /\ ~IsChain(cluster) /\ UNCHANGED fault /\ Finish("not found")
        /\ UNCHANGED <<cluster, remaining>>
     \/ /\ IsChain(cluster) /\ cluster \in Cluster /\ Succeeds
        /\ CASE Match(volume.dir[cluster]) = "file" ->
                  /\ pc' = Allocated(ClusterSize, volume.size + ClusterSize, "read")
                  /\ cluster' = volume.start /\ remaining' = volume.size
                  /\ UNCHANGED result
             [] Match(volume.dir[cluster]) = "directory" ->
                  Finish("is a directory") /\ UNCHANGED <<cluster, remaining>>
             [] OTHER -> pc' = "find_next" /\ UNCHANGED <<cluster, remaining, result>>
     \/ /\ IsChain(cluster) /\ cluster \notin Cluster /\ UNCHANGED fault /\ Finish("error")
        /\ UNCHANGED <<cluster, remaining>>
     \/ /\ IsChain(cluster) /\ Fails /\ Finish("error")
        /\ UNCHANGED <<cluster, remaining>>
  /\ UNCHANGED <<volume, layout, last, original, readback, base, content>>

\* Mutant of next_cluster: the search stays where it is.
next_clusterStays ==
  /\ pc \in {"find_next", "read_next"}
  /\ \/ /\ Succeeds /\ UNCHANGED result
        /\ cluster' = IF pc = "find_next" THEN cluster ELSE volume.fat[cluster]
        /\ pc' = IF pc = "find_next" THEN "find" ELSE "read"
     \/ Fails /\ Finish("error") /\ UNCHANGED cluster
  /\ UNCHANGED <<volume, layout, last, original, readback, base, remaining, content>>

\* The FAT entry of the cluster; it is an error when the drive fails or when
\* the FAT's sector is not on the disk.
next_cluster ==
  /\ pc \in {"find_next", "read_next"}
  /\ \/ /\ Succeeds /\ cluster' = volume.fat[cluster] /\ UNCHANGED result
        /\ pc' = IF pc = "find_next" THEN "find" ELSE "read"
     \/ (Fails \/ UNCHANGED fault) /\ Finish("error") /\ UNCHANGED cluster
  /\ UNCHANGED <<volume, layout, last, original, readback, base, remaining, content>>

\* Mutant of Copied: the last cluster is copied whole.
CopiedWhole(bytes) == ClusterSize

Copied(bytes) == Min({bytes, ClusterSize})

\* One round of the loop of read_file_content up to the test for the last
\* cluster.
read_file_content ==
  /\ pc = "read"
  /\ \/ /\ ~IsChain(cluster) /\ UNCHANGED fault /\ Finish("ok")
        /\ UNCHANGED <<remaining, content>>
     \/ /\ IsChain(cluster) /\ cluster \in Cluster /\ Succeeds
        /\ content' = Append(content, <<cluster, Copied(remaining)>>)
        /\ IF remaining <= ClusterSize
             THEN Finish("ok") /\ UNCHANGED remaining
             ELSE pc' = "read_next" /\ remaining' = remaining - ClusterSize /\ UNCHANGED result
     \/ /\ IsChain(cluster) /\ cluster \notin Cluster /\ UNCHANGED fault /\ Finish("error")
        /\ UNCHANGED <<remaining, content>>
     \/ /\ IsChain(cluster) /\ Fails /\ Finish("error")
        /\ UNCHANGED <<remaining, content>>
  /\ UNCHANGED <<volume, layout, last, original, readback, base, cluster>>

--------------------------------------------------------------------------------
Step ==
  \/ AtaNew \/ self_testRead \/ self_testWrite \/ self_testReadback \/ self_testRestore
  \/ Probe \/ Mount \/ find_in_directory \/ next_cluster \/ read_file_content

\* Boot goes on, or the kernel is parked by the panic handler.
Done == pc \in {"done", "panic"} /\ UNCHANGED vars

Next == Step \/ Done

Spec == Init /\ [][Next]_vars

--------------------------------------------------------------------------------
(* Properties *)

SelfTested == pc \notin {"new", "st_read", "st_write", "st_readback", "st_restore"}

\* As long as the drive reports no error, self_test leaves the disk as it was.
RestoredUnlessFault == SelfTested /\ ~fault => last = "original"

\* The clusters of the root directory's chain: what every set with the root
\* cluster that is closed under next_cluster holds.
Closed(S) ==
  /\ volume.root \in Cluster => volume.root \in S
  /\ \A c \in S : volume.fat[c] \in Cluster => volume.fat[c] \in S
RootChain == {c \in Cluster : \A S \in SUBSET Cluster : Closed(S) => c \in S}

\* "not found" is only ever the answer when no cluster of the root directory
\* shows an entry with the name.
NotFoundMeansAbsent ==
  result = "not found" =>
    \A c \in RootChain : Match(volume.dir[c]) = "none"

\* A file read without an error is the clusters of its chain, in order, all
\* but the last one whole, cut to the size in its directory entry; it is
\* shorter than that only where the chain ends early.
ContentIsTheFile ==
  pc = "done" /\ result = "ok" =>
    LET n == Len(content)
        bytes == IF n = 0 THEN 0 ELSE (n - 1) * ClusterSize + content[n][2]
    IN /\ n > 0 => content[1][1] = volume.start
       /\ \A i \in 1 .. n - 1 : /\ content[i][2] = ClusterSize
                                /\ content[i + 1][1] = volume.fat[content[i][1]]
       /\ bytes <= volume.size
       /\ bytes < volume.size =>
            ~IsChain(IF n = 0 THEN volume.start ELSE volume.fat[content[n][1]])

\* Boot gets past the disk, whatever the boot sector, the file's chain and its
\* size look like and whichever commands fail, with two exceptions: a root
\* directory whose chain is a loop, in which find_in_directory goes round for
\* ever, and a file that the heap has no room for, which is a panic.
BootGoesOn ==
  /\ RootChain = {} \/ \E c \in RootChain : volume.fat[c] \notin Cluster
  /\ volume.size + 2 * ClusterSize <= HeapLeft
  => <>(pc = "done")
================================================================================
