--------------------------------- MODULE MCRamdisk ---------------------------------
(***************************************************************************)
(* Instances of Disk and Ramdisk for TLC.                                  *)
(***************************************************************************)
EXTENDS Ramdisk

\* Entries are "end", "free", "lfn", "other", and "file" or "directory" for one
\* that is named test.txt.
MCDirContents ==
  { <<"lfn", "file">>, <<"end", "file">>, <<"free", "other">>, <<"other", "directory">>, << >> }

Entry(type, lba) == [type |-> type, lba |-> lba]
Sector0(signature, entries, lba) ==
  [signature |-> signature, entries |-> entries, volume |-> lba]

\* A bare volume; one whose boot code reads like a partition entry; partition
\* tables with unused entries in front; a blank disk (no volume at any LBA the
\* code can ask for).
MCLayouts ==
  { Sector0(TRUE, << >>, 0),
    Sector0(TRUE, << Entry("code", 7) >>, 0),
    Sector0(TRUE, << Entry("empty", 5), Entry("extended", 0), Entry("fat32", 63) >>, 63),
    Sector0(FALSE, << >>, 1) }

\* Where the header of the next file is, and a file whose header is at offset at.
Behind(at, size) == at + Block + Padded(size)
File(name, size, at) == [name |-> name, size |-> size, at |-> at]
Archive(files, present) == [files |-> files, present |-> present]

\* Up to three files, empty ones, ones that fill a block or do not, two of one
\* name, and the archive ending anywhere after its start.
MCSize == {0, 1, 2, 3}
Second == Behind(0, 3)
MCFiles ==
  { << >> } \cup { << File("a", s, 0) >> : s \in MCSize }
  \cup { << File(n, s, 0), File("b", t, Behind(0, s)) >> : n \in {"a", "b"}, s, t \in MCSize }
  \cup { << File("a", 3, 0), File("b", 0, Second), File("c", s, Behind(Second, 0)) >> : s \in MCSize }
MCArchives == { Archive(f, n) : f \in MCFiles, n \in 0 .. 14 }

MCPaths ==
  { [slash |-> TRUE, name |-> n] : n \in {"a", "b", "c", ""} }
  \cup { [slash |-> FALSE, name |-> n] : n \in {"a", "b"} }

\* Disk and ramdisk share no state: one of them is varied at a time, and on a
\* blank disk no volume is read.  With a ramdisk there is no drive; without one
\* no command is given.
Blank == Archive(<< >>, 0)
BlankLayouts == {l \in MCLayouts : l.volume = 1}

\* The volume's tables are varied with the root directory at cluster 2 and no
\* partition table, and of them only what can be read: nothing behind a match,
\* and the file's chain only when there is a file.  With the other root clusters
\* and the partition tables goes one volume.
MCVolumes ==
  {v \in Volumes :
     /\ v.root = 2 /\ v.start # Eoc
     /\ Match(v.dir[2]) # "none" => v.dir[3] = << >>
     /\ (\A c \in Cluster : Match(v.dir[c]) # "file") => v.start = 0 /\ v.size = 0}
Volume(rootCluster, start, size) ==
  [fat |-> [c \in Cluster |-> Eoc], dir |-> [c \in Cluster |-> <<"lfn", "file">>],
   root |-> rootCluster, start |-> start, size |-> size]

MCInit ==
  /\ \/ /\ archive = Blank /\ layout = Sector0(TRUE, << >>, 0)
        /\ volume \in MCVolumes
     \/ /\ archive = Blank /\ layout \in MCLayouts \ BlankLayouts
        /\ volume \in {Volume(r, 3, 2) : r \in Numbers}
     \/ /\ archive \in MCArchives /\ layout \in BlankLayouts
        /\ volume = Volume(2, 3, 2)
  /\ RInit

MCNext ==
  /\ RNext
  /\ archive = Blank => UNCHANGED command
  /\ archive # Blank => pc' \in {"new", "done"}

Stopped ==
  /\ \/ archive = Blank /\ pc = "done"
     \/ pc = "panic"
     \/ command.name = "panic"
  /\ UNCHANGED rvars

MCSpec == MCInit /\ [][MCNext \/ Stopped]_rvars /\ RFairness
================================================================================
