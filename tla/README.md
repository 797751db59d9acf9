# mitosOS in TLA+

A TLA+ model of the mitosOS kernel: its scheduler and mailbox, address spaces, heap,
locks, exception frames, console input, ACPI walk, SMP bring-up, disk drivers and
ramdisk, model-checked with TLC. Every safety property that a run finds to hold is also
proved with TLAPS, for every value of the constants that meets the assumptions named
under Proofs. Paths below are relative to `src/src/`.

## The system

One CPU runs the kernel proper. `kmain_common` (`main.rs`) seeds the frame bitmap
from the bootloader's memory map, starts the other processors (which then only
halt), mounts the ramdisk, brings up the disks, calls `spawn` twice and becomes the
shell. The first `spawn` only gives the running boot thread its slot, 0; the second
one starts a worker in slot 1. From
then on three kinds of activity interleave:

- **threads** (the shell in slot 0, the worker in slot 1) run preemptible kernel code;
- **processes** run in ring 3 / EL0 and enter the kernel by system calls and faults,
  with interrupts masked;
- **interrupts**: the timer calls `run_schedule`; the UART's bytes go to the input ring,
  by an interrupt of the UART's own on x86_64, by the timer's handler on aarch64.

They meet in the task table (`task.rs`), the page tables and the frame bitmap
(`vmm.rs`, `memory.rs`), the locks (`sync.rs`, `memory.rs`) and the input ring
(`interrupts.rs`). Only slot 0 ever spawns.

## Inventory

| Part | Source | State and operations | Module |
|---|---|---|---|
| input ring | `interrupts.rs` | HEAD, TAIL, slots; enqueue_byte, dequeue_byte | RingBuffer, BoundedFifo |
| scheduler | `task.rs` | TASKS, CURRENT_TASK, CR3, RSP0; run_schedule, exit, spawn family | RoundRobin, Scheduler |
| mailbox | `task.rs` | one message per task; send_message, receive_message (no caller) | Mailbox |
| address spaces | `vmm.rs`, `memory.rs`, `elf.rs`, `syscall.rs` | tables, bitmap; map, unmap, fault, load, munmap, teardown | AddressSpace |
| kernel heap | `memory.rs` | size classes, bump region; alloc, dealloc | Heap |
| locks | `sync.rs`, `memory.rs` | lock words, interrupt flags; lock, drop | Locks |
| console input | `interrupts.rs`, `uart.rs`, `shell.rs`, `syscall.rs` | UART FIFO, ring, sleeping shell; both handlers, the shell's loop, polling, sys_read | Console |
| exception entry | `interrupts.rs`, `task.rs`, `gdt.rs` | register frames, SP_EL0, RSP0; the exception bodies, timer stub, yield | Frames |
| SMP and boot memory | `hal/smp.rs`, `smp_trampoline.s`, `hal/apic.rs`, `memory.rs`, `main.rs` | parameter block, AP_ONLINE, bitmap; start_aps, trampoline, reclaim | Boot |
| AHCI | `drivers/ahci.rs` | port registers, slots; new, init_port, issue_command, irq handler | Ahci |
| ATA, MBR, FAT32 | `fs/ata.rs`, `fs/mbr.rs`, `fs/fat32.rs`, `main.rs` | drive, volume; self_test, probe, mount, lookup, read | Disk |
| ramdisk, VFS | `ramdisk.rs`, `fs/vfs.rs`, `fs/tar_adapter.rs`, `shell.rs` | archive, mount, tar walk; mount, open, ls, raw, cat, stat, run | Ramdisk |
| FAT32 adapter, descriptors | `fs/fat32_adapter.rs`, `fd.rs` | nodes, descriptors; out of reach in this kernel | not modelled |
| ACPI walk | `hal/acpi.rs`, `hal/madt.rs`, `limine.rs` | no state; descriptor search, root table, MADT entries | Acpi, Boot |
| DMA memory | `pci.rs` | alloc_dma | Ahci |
| console output, graphics, boot information, early assembly, version | `uart.rs`, `graphics.rs`, `boot_info.rs`, the rest of `limine.rs`, `boot*.s`, `version.rs` | output, or read-only parsing | not modelled |

`PROJECT.json` lists every part with its status, the source lines each definition
translates, and the hazards: the places where an interleaving, a late answer, a
failure half-way or a limit could break the code, with the properties that would
show it.

## Modules

**RingBuffer** has one action per shared load or store of `enqueue_byte` and
`dequeue_byte`, each side with its own program counter and its private copy of its
index. One producer and one consumer: handlers do not nest, and `dequeue_byte` is
called with interrupts masked by the shell and by `sys_read` (`UartFd::read` calls it
too, but nothing reads through the descriptor table); that no two consumers meet is
`TakenOnce` of Console. The Acquire/Release pairs justify sequential
consistency. **BoundedFifo** is what the ring promises: a queue that drops a byte
only when `BUFFER_SIZE - 1` are waiting and answers None only when empty.

**Scheduler** has the fields of `TASKS`, the CPU's root and RSP0, and the spawn call
in progress. A tick may come between any two stores of `Task::init`; `exit` runs
masked, so it and its `run_schedule` are one step. A slot dispatched before its `sp`
is stored does undefined things: the model lets it run, exit or panic. Slot 0 locks
`PHYSICAL_PMM` for every frame it takes, and can be preempted with it (`pmm`): a fault,
a munmap or a teardown then waits for the lock with interrupts masked, and the kernel
hangs (`halted`). The history
variable `torn` remembers such a dispatch, and also one from the old frame of a slot
that had blocked, because `run_schedule` saves the frame of a Running slot only.
**RoundRobin** is the search.

**Mailbox** adds `send_message` and `receive_message` to the scheduler, with a tick
possible between the test, the store, the wake-up and the block. Nothing calls them
yet; the model lets the shell send and the worker send and receive. `raced` and
`missed` remember the two races the code admits, so that the properties can say that
nothing else loses a message or a wake-up.

**Heap** is `FastBlockAllocator`: a bump pointer and one free list per power of two.
`alloc` and `dealloc` hold the lock, so each is a step. A block is carved with the size
asked for and filed under the rounded one, so a later request of the class can be given
less than it asks: `stretched` remembers that. Such a block runs into what lies behind it;
where that is the link of a free block, the list then goes on at any of the addresses in
`Wild` (`clobbered`).

**AddressSpace** has the bitmap and every frame read as a page table (the four
levels are folded into two). `arch` is chosen initially: on x86_64 a process root
copies the kernel's high-half entries, on aarch64 it copies entry 0. The shell can
be preempted between any two frames it takes; traps are one step each. A segment of an
ELF image can be at any root index, the kernel's included, since `elf.rs:130` has no upper
bound; mapping one there damages the kernel's tables (`Undamaged`). On x86_64 a user fault maps a page, on aarch64 it ends the process (`handle_el0_sync_trap`), and only
there can a process call `sys_munmap`. Any allocation may fail once the frames are used up.

**Locks** models both lock types on one CPU: a task spins, swaps the word, holds
guards, and drops them in two stores (release, then restore the flag). Threads nest
locks in increasing order; processes take one inside a trap. `Masks` chooses between
`sync::Spinlock` and `memory::Mutex`.

**Console** extends that CPU by the UART, the ring and its consumers. The shell's loop
masks, dequeues, and either handles the byte or sleeps: `sti; hlt` is one step, since no
interrupt can come between the two, `msr daifclr` and `wfe` are two, with the event
register that an exception return sets. The commands that matter lock, poll the UART
behind the handler's back (`rxtest`, `panic`), panic, by the command of that name or for
lack of heap, or take a frame, with `PHYSICAL_PMM` locked as in Scheduler. A dequeue is
two steps.

**Frames** extends Console by the registers: each exception body saves them on a stack
and restores those that `schedule` answers with, which another body or `Task::init`
may have written. A register's value is whose it is and whether it is current. RSP0,
or SP_EL1, decides whose stack a trap writes to. Traps that end their process are left
to Scheduler.

**Acpi** has no state: it computes the processors `acpi::init` lists from what the
firmware left in memory. A root descriptor comes from Limine, whose address is read
as direct or as physical depending on the base revision it granted, or else from the
scan of the EBDA and the BIOS ROM. The first descriptor that checks out decides; a
broken XSDT is not replaced by the RSDT. Checksums and signatures are Booleans of the
table, and a read through the wrong kind of address yields bytes that do not check out,
or is a fault where that address is not canonical (`rsdp_faults`).

**Boot** is `kmain_common` up to the removal of the identity map. The BSP writes the
one parameter block in two steps, sends INIT and two Startup IPIs and waits twice. It
panics when the heap has no stack for an AP, and hangs when `wait_icr_idle` or the PIT's
delay never ends, which have no limit;
every AP walks through the trampoline and `init_ap` at its own pace or never. The
processors to start are what Acpi finds in `firmware`, chosen initially. Memory regions stand
for the frames of their kind.

**Ahci** is the driver against a controller that carries out the commands of `PxCI`
in any order, at any pace, with errors, or not at all. `routed` says whether
`ahci_irq_handler` is installed; no build of the kernel installs it. `alloc_dma` reserves
one frame for a port's command tables and zeroes as many as they need (`overrun`); once a
table outside the frame is used, the controller may do something else than it was told.

**Disk** is the boot code's use of the ATA drive: probe, `self_test`, MBR probe,
mount, and the walks of `find_in_directory` and `read_file_content`. The volume is
any FAT and any directory over the given clusters, loops and dangling numbers
included, with any root cluster, and every command may fail. Buffers come from what the
heap has left; one that does not fit is a panic.

**Ramdisk** is the boot code's check and mount of the tar archive, before the disk, and
the shell's `ls`, `raw`, `cat`, `stat` and `run` (up to the spawn, which is Scheduler's).
One step of the walk is one `TarIterator::next`. The archive is what tar writes for a
list of files, each with the offset of its header, possibly cut short anywhere. `cat`
and `run` take a buffer of the file's size from the heap, which does not get a large one
back, and panic when there is no room.

MCBoot, MCHeap and MCRamdisk give the larger constants their values. MCRamdisk varies
the disk and the archive one at a time, since they share no state. MCBoot varies the
memory map only with at most one AP, since bring-up does not look at it.

## Runs

| Run | Result | What it asks |
|---|---|---|
| ring_buffer | holds | the ring implements BoundedFifo, no slot is accessed by both sides |
| scheduler | holds | CPU and table agree, slot 0 survives, ownership of page tables is sound until `torn`, messages and wake-ups are lost only to the two recorded races, every Ready slot is dispatched unless the kernel panics or a trap hangs on `PHYSICAL_PMM` |
| scheduler_active_root | violated | the comment at `task.rs:675`: teardown never frees the table in CR3 |
| address_space | holds | until something is mapped through the kernel's own tables or freed from them: no mapped frame is free, processes are disjoint, frames leak only when a call failed |
| address_space_teardown | violated | the comment at `vmm.rs:549`: every root entry but the identity map is private to the process |
| cpu | holds | Spinlock: exclusion, flag restored, no spin on a preempted holder, lock() returns; input: taken once and in order, and in the end unless the shell polls for ever or panics or a trap hangs on `PHYSICAL_PMM`, no sleep over a byte; frames: every task resumes with its own registers, whichever stack a trap writes to |
| mutex_dead_spin | violated | the rule at `sync.rs:34`, for memory::Mutex |
| boot | holds | cores have their own slots, none dies in the trampoline, no listed CPU is forgotten, none is started that no checksummed table lists, reserved memory stays reserved but for a heap that the map calls reclaimable, boot completes but for a fault on the RSDP, a heap without a stack for each AP and the two waits without a limit |
| boot_late_ap | violated | the comment at `gdt.rs:354`: cpu_index is unique per core |
| ahci | holds | no slot is rebuilt while in use, ports are programmed at rest, polled success is real, only a time-out leaves a transfer running, memory outside the tables' frame is written only with more slots than it holds tables and a command is built there only after as many time-outs, the driver returns |
| disk | holds | sector restored unless a command fails, lookups miss nothing, a file is its chain cut to its size, boot goes on unless the root directory is a loop or the heap has no room for the file; ls lists the archive, a lookup gives the file's data or nothing, every command returns unless the heap has no room for its file |
| heap | holds | until a request is given a block carved for less, whatever layouts share a class: an address has one holder and no block is lost, blocks never overlap, no link is overwritten, blocks fit and are aligned |

Every violated run is a finding in `PROJECT.json`, with the line it contradicts:

1. `Task::init` stores state = Ready first. A process that exits while the next Ready
   slot still has `memory_root` 0 is switched away from without a CR3 load, and the same
   call frees its page table, which CR3 still holds.
2. On x86_64 the first process to exit frees the kernel's shared high-half tables.
   For this reason `address_space` explores behaviours only while the kernel's
   frames are intact (`CONSTRAINT Undamaged`); exits of processes that own their root
   are therefore explored on aarch64 only. Nothing is missed by stopping there: the
   properties speak of undamaged states, and `DamageIsPermanent` proves that no step
   leads back to one.
3. `memory::Mutex` does not mask interrupts; a masked trap spins on a preempted holder.
   `NoStarvation` and `InputTaken` therefore hold only up to such a trap.
4. An AP that answers after it was given up starts with the next AP's index and stack.
   OwnCpuSlot and BringUpDone therefore hold only while no AP has been given up.

More things the properties had to allow for, listed as hazards:

- An error in the middle of `self_test` leaves the pattern on the disk, although
  `fs/ata.rs:189` says that it restores the contents (`RestoredUnlessFault`).
- Requests of different sizes in one size class make heap blocks overlap, since a block
  is carved with the size asked for and filed under the rounded one (`BlocksApart`).
- A segment in the high half is mapped through the tables that a process shares with the
  kernel; `elf.rs:126` says of the shared region "Refuse either way" (`Isolated`).
- A heap in a range that the memory map calls reclaimable is freed with it
  (`BootMemoryKept`).
- The heap of 640 KiB has no room for the stacks of 64 processors (`BootCompletes`), and
  blocks of more than 2048 bytes are never used again (`BootGoesOn`, `CommandReturns`).
- A loop in the root directory's cluster chain keeps boot in the search (`BootGoesOn`).
- A receiver that blocks after its wake-up has come sleeps over its message, and two
  senders can both find a mailbox empty (`WokenUp`, `MessageKept`).

## Bounds

- RingBuffer: 4 slots, 3 bytes: wrap-around, full and empty, distinguishable bytes.
- Scheduler and Mailbox: 4 slots, as in the code, and 1 root: the shell, the worker and
  two processes, the second of which falls back to the shell's root; a slot reused
  while another process runs. Messages go to the worker.
- Heap: 10 bytes from address 4 (so that alignment leaves gaps), links of 2 bytes, lists
  up to 4; five layouts, one in the class of 2, three in that of 4, one beyond the
  lists; 3 live blocks, enough to reuse a block between two others; an overwritten link
  ends the list or leads to address 7, inside another block.
- AddressSpace: 9 frames of which boot holds 3; a process needs 4 (root, table, two
  pages), so a second one runs out at every possible point. Two slots, two pages. States
  that differ only in what free frames hold count as one (`VIEW InUse`): a frame is
  overwritten before it is used again, and `NoUseAfterFree` says that nobody reads it
  before.
- Locks, Console, Frames: 3 threads, one more than the kernel starts, 2 processes, 2
  locks (nested), a ring of 2 and 3 bytes, so that a burst overflows it. One of each
  shows the Mutex counterexample.
- Boot: 4 APs, MAX_CPUS 4 and room for 3 stacks, so that the table and the heap run out;
  memory maps in which low memory and the heap are any type. Fifteen firmwares: five
  MADTs in the usual layout and ten layouts with one AP.
- Ahci: 2 ports, 3 slots of which 2 have their table in the reserved frame, 3 commands: a
  late answer, a reused slot, another port's slot of the same number, and a spill after
  two time-outs.
- Disk: 2 clusters of 2 bytes, sizes 0, 2, 5 and 6 (empty, exact, longer than the chain
  can hold, more than the heap has), Eoc 8; layouts with and without a partition table.
- Ramdisk: blocks of 2 units, up to 3 files of 0 to 3 units (empty, part of a block, a
  block, more), two files of one name, and every length from nothing to the whole; a heap
  of 5 units, which a second large file exhausts.

## Fairness

- Scheduler: the timer is periodic. Interrupts stay masked for ever only after a panic
  and in a wait for `PHYSICAL_PMM`, which both set `halted`; until then ticks are weakly
  fair. A slot resumed with a null `sp` faults at once, so `Crash` is too.
  Nothing is assumed of exits and spawns.
- Console and Frames: a pending interrupt stays pending while it is masked and is taken
  when it is not, and a task that gets the CPU again and again executes, since a time
  slice is many instructions: strong fairness of the interrupts and of the shell's
  steps. Critical sections, commands and traps, but for one that waits for
  `PHYSICAL_PMM`, are finite: their ends are fair, for locks at each nesting depth.
  `InputTaken` excepts such a trap, and a shell that waits in `read_byte` or has panicked.
- Boot: the BSP runs; nothing is assumed of the APs, as `wait_online` is bounded, or of
  the local APIC and the PIT: the BSP may get stuck there.
- Ahci: the driver runs; nothing is assumed of the controller, as every wait is bounded.
- Disk and Ramdisk: the boot code and the shell's commands run.

## Proofs

Eight modules hold the proofs, each about the modules named in brackets. Every safety
theorem has the same shape: an inductive invariant that holds initially and survives
every action, and the property as a consequence; fairness plays no part. What follows
says what has to be added to the property, and why.

**RingBufferProofs** (RingBuffer), for every `BUFFER_SIZE >= 2` and every set of bytes
without None: `NoDataRace`, and refinement of BoundedFifo. `IndInv`
adds to the types that each side's private index is current and that a check that
passed stays passed: only the other side moves the other index, and only in the
direction that keeps the condition true. Refinement needs lemmas about the modular
distance between HEAD and TAIL.

**MailboxProofs** (Scheduler and Mailbox), for every number of slots and every set of
roots and destinations: `CpuMatchesTable`, `ShellSurvives`, `OwnershipSound`,
`MessageKept` and `WokenUp`. `CpuMatchesTable` alone is not
inductive: a step needs to know which stores of `Task::init` have been made, that the
slot being initialised is not the spawner's, and that the roots a half-made slot is
about to own are allocated and owned by nobody. Ownership is stated up to `torn`,
because the run scheduler_active_root shows that it fails afterwards. The scheduler's
invariant is proved twice, for Scheduler alone and for Mailbox, where tasks also block
(`IndInvWithMail`, `SchedulerWithMail`). The properties of the mailbox need to know which
calls are in progress (`MailInv`): a mailbox that a sender is about to fill is empty and
no other sender is about to fill it, unless they raced; a message for a task that is
blocked or about to block has a sender that has yet to wake it, unless that is `missed`.

**HeapProofs** (Heap), for every arena, every set of layouts and any number of owners:
`OneHolder`, `BlocksApart` and `BlocksFit`, whatever layouts share a class. That blocks
are apart is not inductive: what is on a list has no size. The invariant therefore goes
through the blocks as they were cut off the bump pointer: these never overlap, whatever
happens to the lists (`Carving`), and until a request is given a block carved for less
(`stretched`), whatever is held or on a list is one of them, of the right class and large
enough (`HeldAreCarved`). A link is overwritten (`clobbered`) only after that.

**FramesProofs** (Locks, Console and Frames), for every number of threads (at least one),
processes and locks, every size of the ring and any number of bytes. Of Locks alone:
`MutualExclusion` of both kinds of lock and `NoDeadSpin` of the kind that masks. Of the
whole CPU with masking locks: these two again, `FlagRestored`, `TakenOnce`,
`NoLostWakeup` and `RegistersRestored`. Masking is the hypothesis `Masks`, the constant
that chooses `sync::Spinlock`; mutex_dead_spin shows what happens without it.
- For exclusion: locks are nested in increasing order (`Nested`), so that a task never
  holds two guards of one lock, and a lock word is set exactly when somebody holds it.
- `Masked`: a task between the first line of `lock` and the last of `drop` has the CPU
  with interrupts masked, and only its outermost guard saved an enabled flag.
- `Contexts`: outside every lock a task has the flag its context calls for (masked in a
  trap and in the shell's own masked sections), and inside, the outermost guard, the
  pending one or the one being dropped has saved it.
- `Dequeuing`: a `dequeue_byte` between its load and its store of HEAD has the CPU with
  interrupts off, so what it loaded is still HEAD. This is why no two consumers meet.
- `Wakeup`: at `wfe`, a byte that came after the shell's test has left the event
  register set; asleep, the ring is empty.
- `FramesInv`: every task's frame is on its own stack and holds its registers while it
  is suspended or in a trap. Only SP_EL0, which a thread does not use, may hold anything
  while a thread runs and in its frame.

**AddressSpaceProofs** (AddressSpace), for every set of frames, indices and slots and
both targets: `NoUseAfterFree`, `Isolated`, `NothingLost`, and `DamageIsPermanent`. The
properties are about what a root reaches, which says nothing of how tables change. The
invariant gives every frame one *place* instead: there are functions that say what each
frame is used for and, for a table or a page, the frame and the index it hangs under
(`Placed`). Two entries can then never name the same frame. `map_page`, `unmap_page`,
a page fault, taking a frame and freeing a whole tree each change the places of the
frames they touch, one lemma each; `Linked` adds that nothing has leaked, until a call
fails. All of it holds while the kernel's root and
table are undamaged (`Undamaged`): a segment or a fault at the kernel's index, a spawn on
the kernel's root and, on x86_64, an exit end that. What is assumed of
the constants: frames and indices are numbers, frame 0 is none, the pages between two
pages are pages, and the indices of the user half, the high half and the identity map
differ.

**BootProofs** (Acpi and Boot), for every set of processors, every size of the per-CPU
tables and every firmware in which an address can be read as what the code takes it for
(`FirmwareAssumption`): `BootMemoryKept`, `OwnCpuSlot`, `StartedAreListed`,
`NoCpuForgotten` and `BringUpDone`. `BootMemoryKept` speaks of the heap only where the map
does not call its range reclaimable. APIC ids fit the interrupt command register
(`BootAssumption`), so an IPI reaches the processor it is meant for. The two properties about the list need what `acpi::init`
computes, in terms of what is in memory rather than of the order of the search: the
first candidate that parses is a genuine descriptor, the entries are those of a MADT
its root lists, the walk keeps the first MAX_CPUS processors. `FromTheList` then says
that every processor of the list is still to do, given up, or has had its INIT.
`OneAtATime` says that while no AP is given up only the one that `start_one_ap` waits
for is on its way, so the parameter block is its own. `BringUpDone` counts, so it also
needs `Counted` (how `started` relates to the cores online) and a hypothesis,
`ListedOnce`: a MADT that lists a processor twice would be counted twice. TLC checks
`ListedOnce` for the firmwares of MCBoot.

**AhciProofs** (Ahci), for every number of ports, slots, tables per frame and commands:
`SlotNotInUse`, `ProgrammedAtRest`, `PolledOkMeansDone`, `TablesStayInFrame` and
`NoStrayTransfer`. The invariant follows a command: it has one name and is in one table
of its port at most and, with completion by polling, a bit in `PxCI` that is not the
driver's current one belongs to a command that has timed out, and a bit that dropped out
means done or error. What `stop_cmd_engine` turned off stays off (`Stopped`). For the
frame it needs that `find_free_slot` takes the lowest free slot, so that a slot outside
is taken only when all inside are held; with finite sets this is a counting argument.

**RamdiskProofs** (Disk and Ramdisk). Of Disk, for every FAT, directory, size and layout
over any number of clusters: `RestoredUnlessFault`, `NotFoundMeansAbsent` and
`ContentIsTheFile`. The search's invariant is a set of clusters already looked at, closed
under successors but for the next one (`Searching`), which makes "not found" mean that
the whole chain has been seen even when it loops or dangles; the copy's says that what
has been copied is a whole number of clusters, each the successor of the one before.
Of Ramdisk, for every list of files, block size and length of the archive:
`AnswerIsTheArchive`, from how many entries the walk has passed (`Scanned`). Every
behaviour of Ramdisk is one of Disk (`RamdiskImplementsDisk`), so the first three hold
there too. The offsets of the files are where tar puts them (`RamdiskAssumption`), which
TLC evaluates for the archives of the run.

Sums and filters over sequences are written without recursion in the modules that are
proved about: a place in a list is the number of earlier indices that qualify (`Rank`),
and a file's header is at the offset its record carries. Where a proof needs the first of
several indices it takes the least element of a set of numbers.

Model-checked only: the liveness properties `NoStarvation`, `LockReturns`, `InputTaken`,
`BootCompletes`, `DriverReturns`, `BootGoesOn` and `CommandReturns`, because fairness and
ENABLED are outside the prover. The four properties of the violated runs are false there
and have no theorem (`NoDeadSpin` has one for the locks that mask).

## Not modelled

- The FAT32 adapter and a second mount: `kmain_common` would mount a volume that is on a
  zeroed RAM disk, which never succeeds. So neither the subtraction at
  `fs/fat32_adapter.rs:95` nor the choice of the first matching mount at `fs/vfs.rs:30`
  can show. The descriptor table: nothing opens through it.
- A message left in the mailbox of a slot that is reused: only processes end, and they
  have no system call for the mailbox.
- Vector registers. `boot.s` enables them and the frame of 272 bytes does not hold them;
  whether kernel code uses them is the compiler's choice.
- That `memstat` never frees its frame (repeated use ends every spawn), and `diskread` and
  `diskwrite`, which open the drive anew for one sector.
- Which memory the zeroing of `alloc_dma` hits, and what a kernel whose tables a segment
  has changed does next.
- Graphics, console output, version, and the set-up of descriptor tables, I/O APIC, PCI
  and timers: written once, in a straight line. Early assembly likewise.
- Page flags other than present, the contents of FISes and PRDTs, file names, and timing
  other than "in time" or "late". Memory ordering weaker than sequential consistency.
