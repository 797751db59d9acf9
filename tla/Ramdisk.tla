--------------------------------- MODULE Ramdisk --------------------------------
(***************************************************************************)
(* The initial ramdisk and the commands that read it: kmain_common checks  *)
(* the tar archive and mounts it at "/" before it goes to the disk, and    *)
(* the shell's ls, raw, cat, stat and run walk it, the last three through  *)
(* VirtualFileSystem::open and TarFsAdapter.                               *)
(*                                                                         *)
(* An archive is what tar wrote for a list of files, in units of a byte    *)
(* with blocks of Block units, possibly cut short; a directory is an entry *)
(* of size 0.  TarIterator's `next` is one step.  The volume that          *)
(* kmain_common would mount at "/disk" is on a zeroed RAM disk, which is   *)
(* never a FAT32 volume: "/" is the only mount.                            *)
(***************************************************************************)
EXTENDS Disk

CONSTANTS
  Block,      \* units in a block, 512
  Archives,   \* what the ramdisk may be: files, in order, each with the unit
              \* its header is at, and the units present
  Paths,      \* arguments of the commands: an optional leading '/', and a name
  RootName,   \* the empty name
  ShellHeap,  \* bytes that the heap has left when the shell starts
  SmallBlock  \* the largest block that is used again once it is freed, 2048

Padded(size) == ((size + Block - 1) \div Block) * Block

\* tar writes one header after another, each followed by its file's data and
\* padding.
LaidOut(files) ==
  \A i \in DOMAIN files :
    files[i].at = IF i = 1 THEN 0 ELSE files[i - 1].at + Block + Padded(files[i - 1].size)

ASSUME RamdiskAssumption ==
  /\ Block \in Nat \ {0}
  /\ \A a \in Archives :
       /\ a.files \in Seq([name : STRING, size : Nat, at : Nat]) /\ LaidOut(a.files)
       /\ a.present \in Nat
  /\ Paths \subseteq [slash : BOOLEAN, name : STRING]
  /\ ShellHeap \in Nat /\ SmallBlock \in Nat

VARIABLES
  archive,    \* the ramdisk
  mounts,     \* the VFS's mount table: "unprobed" until boot gets there
  command,    \* the shell's command
  offset,     \* TarIterator.offset
  listed,     \* what ls has printed
  answer,     \* how the command ended: no entry, or the entry with its data
  room        \* bytes that the heap has left

ramdisk == <<archive, mounts, command, offset, listed, answer, room>>
rvars == <<vars, ramdisk>>

NoCommand == [name |-> "none"]
NotFound == [found |-> FALSE]

--------------------------------------------------------------------------------
(* The archive as tar writes it *)

\* Where the header of the i-th file is.
HeaderAt(i) == archive.files[i].at

Files == DOMAIN archive.files

\* The file whose header begins at unit o, or 0: anything else is padding, data
\* or the zeros after the last file, and has no magic.
HeaderIn(o) ==
  LET here == {i \in Files : HeaderAt(i) = o}
  IN IF here = {} THEN 0 ELSE CHOOSE i \in here : TRUE

\* Unit o of the archive: a byte of a file, or something else.
Unit(o) ==
  LET here == {i \in Files : o \in HeaderAt(i) + Block .. HeaderAt(i) + Block + archive.files[i].size - 1}
  IN IF here = {} THEN <<0, 0>>
     ELSE LET i == CHOOSE i \in here : TRUE IN <<i, o - HeaderAt(i) - Block>>

--------------------------------------------------------------------------------
(* Boot *)

RInit ==
  /\ Init
  /\ archive \in Archives
  /\ mounts = "unprobed"
  /\ command = NoCommand
  /\ offset = 0
  /\ listed = << >>
  /\ answer = NotFound
  /\ room = ShellHeap

\* TarFileSystem::new wants one header; with it the archive is mounted at "/".
MountRamdisk ==
  /\ mounts = "unprobed"
  /\ mounts' = IF archive.present >= Block /\ HeaderIn(0) # 0 THEN "tar" ELSE "none"
  /\ UNCHANGED <<vars, archive, command, offset, listed, answer, room>>

DiskStep == mounts # "unprobed" /\ Step /\ UNCHANGED ramdisk

--------------------------------------------------------------------------------
(* The shell's commands *)

Finished(a) == answer' = a /\ command' = [command EXCEPT !.name = "done"]

\* The directory that "/" names.
root == [found |-> TRUE, index |-> 0, size |-> 0, data |-> << >>]

\* VirtualFileSystem::open: the path begins with the path of a mount.
open(path) == mounts = "tar" /\ path.slash

\* What a command does before the scan.  `open` strips the mount's "/"; `raw`
\* looks for the argument as it stands, and no name in an archive begins with
\* '/'.
Command(name, path) ==
  /\ pc = "done" /\ command.name \in {"none", "done"}
  /\ LET vfs == name \in {"cat", "stat", "run"}
         refused == IF vfs THEN ~open(path)
                    ELSE mounts = "none" \/ (name = "raw" /\ path.slash)
     IN IF refused \/ (vfs /\ path.name = RootName)
          THEN /\ answer' = IF refused THEN NotFound ELSE root
               /\ command' = [name |-> "done", of |-> name, path |-> path]
          ELSE /\ command' = [name |-> name, of |-> name, path |-> path]
               /\ answer' = NotFound
  /\ offset' = 0
  /\ listed' = << >>
  /\ UNCHANGED <<vars, archive, mounts, room>>

\* Mutant of SafeSlice: only the start is tested.
SafeSliceStart(start, size) ==
  IF start <= archive.present THEN [k \in 1 .. size |-> Unit(start + k - 1)] ELSE << >>

\* The slice of a file's data: all of it, or nothing.
SafeSlice(start, size) ==
  IF start + size <= archive.present THEN [k \in 1 .. size |-> Unit(start + k - 1)] ELSE << >>

\* Mutant of NextOffset: the header is not counted.
NextOffsetNoHeader(size) == offset + Padded(size)

NextOffset(size) == offset + Block + Padded(size)

\* TarFileNode: the entry's size, and what read gives to a buffer of that size.
TarFileNode(i, data) ==
  [found |-> TRUE, index |-> i, size |-> archive.files[i].size, data |-> data]

\* The buffer of `size` bytes that cat and run take for the file.  A small one
\* may be a block that was freed before; any other is carved from what is left
\* and gone for good when it is freed, and when too little is left the kernel
\* panics.
FileBuffer(size, a) ==
  \/ /\ size <= SmallBlock \/ command.name \in {"raw", "stat"}
     /\ Finished(a) /\ UNCHANGED room
  \/ /\ command.name \in {"cat", "run"} /\ size <= room
     /\ Finished(a) /\ room' = room - size
  \/ /\ command.name \in {"cat", "run"} /\ size > room
     /\ command' = [command EXCEPT !.name = "panic"] /\ UNCHANGED <<answer, room>>

\* TarIterator::next, and what ls or find does with the entry.
next ==
  /\ command.name \in {"ls", "raw", "cat", "stat", "run"}
  /\ IF offset + Block > archive.present \/ HeaderIn(offset) = 0
       THEN Finished(NotFound) /\ UNCHANGED <<offset, listed, room>>
       ELSE LET i == HeaderIn(offset)
                file == archive.files[i]
            IN /\ offset' = NextOffset(file.size)
               /\ IF command.name = "ls"
                    THEN listed' = Append(listed, i) /\ UNCHANGED <<command, answer, room>>
                    ELSE /\ IF file.name = command.path.name
                              THEN FileBuffer(file.size,
                                     TarFileNode(i, SafeSlice(offset + Block, file.size)))
                              ELSE UNCHANGED <<command, answer, room>>
                         /\ UNCHANGED listed
  /\ UNCHANGED <<vars, archive, mounts>>

RNext ==
  \/ MountRamdisk \/ DiskStep \/ next
  \/ \E name \in {"ls", "raw", "cat", "stat", "run"}, path \in Paths : Command(name, path)

\* Boot code and commands run until they are done.
RFairness == WF_rvars(MountRamdisk \/ DiskStep) /\ WF_rvars(next)

RSpec == RInit /\ [][RNext]_rvars /\ RFairness

--------------------------------------------------------------------------------
(* Properties *)

\* The files whose header is in the archive, and those that are there whole.
Present == {i \in Files : HeaderAt(i) + Block <= archive.present}
Whole == {i \in Present : HeaderAt(i) + Block + archive.files[i].size <= archive.present}

\* The command's path, without the '/', names the entry.
Named == {i \in Present : archive.files[i].name = command.path.name}

\* ls lists the entries of the archive in order, up to where it was cut.  A
\* lookup finds the first entry with the name, if there is one, and its data
\* is exactly what tar was given: all of it, or nothing where the archive was
\* cut, never padding, another file's bytes or what lies behind the archive.
AnswerIsTheArchive ==
  command.name = "done" /\ mounts = "tar" =>
    \/ /\ command.of = "ls"
       /\ DOMAIN listed = Present /\ \A k \in Present : listed[k] = k
    \/ /\ command.of # "ls" /\ ~answer.found
       /\ Named = {} \/ (command.of = "raw") = command.path.slash
    \/ /\ command.of # "ls" /\ answer = root
       /\ command.path.name = RootName
    \/ /\ command.of # "ls" /\ answer.found
       /\ Named # {} /\ answer.index = Min(Named)
       /\ answer.data = IF answer.index \in Whole
                          THEN [k \in 1 .. answer.size |-> <<answer.index, k - 1>>]
                          ELSE << >>

\* The command takes no buffer, or the heap has room for any file it may name.
Affordable == command.of \in {"cat", "run"} => \A i \in Named : archive.files[i].size <= room

\* Every command comes back to the prompt, however the archive is cut, unless
\* it is a cat or run of a file larger than what the commands before it have
\* left of the heap.
CommandReturns ==
  command.name \notin {"none", "done"} /\ Affordable ~> command.name = "done"
================================================================================
