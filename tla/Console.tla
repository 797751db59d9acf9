-------------------------------- MODULE Console --------------------------------
(***************************************************************************)
(* The console's input path on top of the CPU of Locks: bytes arrive in    *)
(* the UART's FIFO, an interrupt handler drains it into the input ring,    *)
(* and shell::run (task 0) or a process's sys_read takes them out again,   *)
(* while the shell's commands lock, poll the UART behind the handler's     *)
(* back, and panic.  On x86_64 the UART has an interrupt of its own; on    *)
(* aarch64 it is not routed and the timer's handler drains the FIFO.       *)
(*                                                                         *)
(* The ring is the bounded FIFO that RingBuffer implements, except that a  *)
(* dequeue is two steps, so that two consumers could meet in it.           *)
(*                                                                         *)
(* The locks of Locks are here the Spinlocks (Masks = TRUE).  PHYSICAL_PMM *)
(* is a memory::Mutex: only the shell's commands hold it with interrupts   *)
(* enabled, and traps of processes wait for it with interrupts masked.     *)
(***************************************************************************)
EXTENDS Locks

CONSTANTS
  RingCapacity,   \* BUFFER_SIZE - 1
  MaxBytes        \* bound: bytes that arrive

\* The shell is a kernel thread.
ASSUME ConsoleAssumption ==
  RingCapacity \in Nat \ {0} /\ MaxBytes \in Nat /\ Threads > 0

VARIABLES
  arch,      \* the target the kernel is built for
  arrived,   \* number of bytes that have arrived; byte n is the n-th
  rx,        \* the UART's receive FIFO
  ring,      \* every byte the ring has accepted
  head,      \* how many of them have been dequeued
  loaded,    \* per task: the head a dequeue_byte in progress has loaded, or Idle
  shell,     \* where shell::run is: mask, dequeue, wfe, asleep, handle, command,
             \* try_read, read, try_data, data, panicked, pmm (in a command, with
             \* PHYSICAL_PMM locked) or stuck (pmm, and a trap waits for the lock)
  event,     \* aarch64's event register: an exception has returned since the last wfe
  taken      \* history: the bytes dequeue_byte returned, in that order

console == <<arch, arrived, rx, ring, head, loaded, shell, event, taken>>
cvars == <<vars, console>>

Shell == 0
Idle == -1

CInit ==
  /\ Init
  /\ arch \in {"x86_64", "aarch64"}
  /\ arrived = 0 /\ rx = << >> /\ ring = << >> /\ head = 0 /\ taken = << >>
  /\ loaded = [t \in Task |-> Idle]
  /\ shell = "mask"
  /\ event = FALSE

--------------------------------------------------------------------------------
(* The UART and its interrupt handlers *)

Arrive ==
  /\ arrived < MaxBytes
  /\ arrived' = arrived + 1
  /\ rx' = Append(rx, arrived')
  /\ UNCHANGED <<vars, arch, ring, head, loaded, shell, event, taken>>

\* The loop of both handlers: every byte of the FIFO goes to enqueue_byte,
\* which drops what the ring has no room for.
Drain ==
  /\ LET room == RingCapacity - (Len(ring) - head)
     IN  ring' = ring \o SubSeq(rx, 1, IF room < Len(rx) THEN room ELSE Len(rx))
  /\ rx' = << >>

\* What an interrupt does to a shell that halts or waits.
Awake == IF cur = Shell /\ shell = "asleep" THEN "mask" ELSE shell

raw_uart_interrupt_handler ==
  /\ arch = "x86_64" /\ iflag[cur] /\ rx # << >>
  /\ Drain
  /\ shell' = Awake
  /\ UNCHANGED <<vars, arch, arrived, head, loaded, event, taken>>

\* Mutant of TimerIrq: aarch64 relies on an interrupt of the UART's own too.
TimerIrqNoDrain ==
  /\ Tick
  /\ event' = (event \/ arch = "aarch64")
  /\ shell' = Awake
  /\ UNCHANGED <<arch, arrived, rx, ring, head, loaded, taken>>

\* The timer interrupt; on aarch64 it is handle_irq that drains the FIFO, and
\* its eret sets the event register.
TimerIrq ==
  /\ Tick
  /\ IF arch = "aarch64" THEN Drain /\ event' = TRUE
                         ELSE UNCHANGED <<ring, rx, event>>
  /\ shell' = Awake
  /\ UNCHANGED <<arch, arrived, head, loaded, taken>>

--------------------------------------------------------------------------------
(* dequeue_byte *)

Waiting == Len(ring) - head

LoadHead(t) == loaded' = [loaded EXCEPT ![t] = head]

AdvanceHead(t) ==
  /\ head' = loaded[t] + 1
  /\ taken' = Append(taken, ring[loaded[t] + 1])
  /\ loaded' = [loaded EXCEPT ![t] = Idle]

--------------------------------------------------------------------------------
(* shell::run *)

At(pcs) == cur = Shell /\ ~Spinning(Shell) /\ ~Dropping(Shell) /\ held[Shell] = << >> /\ shell \in pcs
SetFlag(b) == iflag' = [iflag EXCEPT ![Shell] = b]
CpuElse == <<cur, locked, want, held, dropped, trapped>>
Device == <<arch, arrived, rx, ring>>

\* Mutant of Mask: the loop dequeues with interrupts enabled.
MaskNot ==
  /\ At({"mask"})
  /\ shell' = "dequeue"
  /\ UNCHANGED <<vars, Device, head, loaded, event, taken>>

Mask ==
  /\ At({"mask"})
  /\ shell' = "dequeue"
  /\ SetFlag(FALSE)
  /\ UNCHANGED <<CpuElse, Device, head, loaded, event, taken>>

\* Some(byte): the head is loaded, then stored, then interrupts are enabled.
DequeueSome ==
  /\ At({"dequeue"})
  /\ \/ /\ loaded[Shell] = Idle /\ Waiting > 0
        /\ LoadHead(Shell)
        /\ UNCHANGED <<vars, head, taken, shell>>
     \/ /\ loaded[Shell] # Idle
        /\ AdvanceHead(Shell)
        /\ SetFlag(TRUE)
        /\ shell' = "handle"
        /\ UNCHANGED CpuElse
  /\ UNCHANGED <<Device, event>>

\* Mutant of DequeueNone: interrupts are enabled before the halt, not with it,
\* which is the wfe sequence without an event register.
DequeueNoneNotAtomic ==
  /\ At({"dequeue"}) /\ loaded[Shell] = Idle /\ Waiting = 0
  /\ SetFlag(TRUE)
  /\ shell' = "wfe"
  /\ UNCHANGED <<CpuElse, Device, head, loaded, event, taken>>

\* None: `sti; hlt`, which no interrupt can split, or `daifclr` before `wfe`.
DequeueNone ==
  /\ At({"dequeue"}) /\ loaded[Shell] = Idle /\ Waiting = 0
  /\ SetFlag(TRUE)
  /\ shell' = IF arch = "x86_64" THEN "asleep" ELSE "wfe"
  /\ UNCHANGED <<CpuElse, Device, head, loaded, event, taken>>

Wfe ==
  /\ At({"wfe"})
  /\ shell' = IF event THEN "mask" ELSE "asleep"
  /\ event' = FALSE
  /\ UNCHANGED <<vars, Device, head, loaded, taken>>

\* Most bytes edit the line; the one that ends a line which is not blank runs
\* a command, and a command returns.
Handle ==
  /\ \/ At({"handle"}) /\ shell' \in {"mask", "command"}
     \/ At({"command"}) /\ shell' = "mask"
  /\ UNCHANGED <<vars, Device, head, loaded, event, taken>>

\* The commands that poll: rxtest calls try_read_byte, panic calls read_byte.
PollCommand ==
  /\ At({"command"})
  /\ shell' \in {"try_read", "read"}
  /\ UNCHANGED <<vars, Device, head, loaded, event, taken>>

\* A command takes a frame: memstat, or a spawn.
LockPmm ==
  /\ \/ At({"command"}) /\ shell' = "pmm"
     \/ At({"pmm"}) /\ shell' = "command"
  /\ UNCHANGED <<vars, Device, head, loaded, event, taken>>

\* The line, the history and the commands use the heap; when it is used up the
\* allocation panics.
AllocPanics ==
  /\ At({"handle", "command"})
  /\ shell' = "panicked" /\ SetFlag(FALSE)
  /\ UNCHANGED <<CpuElse, Device, head, loaded, event, taken>>

\* try_read_byte's status test.  It gives up after POLL_ATTEMPTS tests, and
\* read_byte then starts it again.
PollStatus ==
  /\ At({"try_read", "read"})
  /\ \/ /\ rx # << >>
        /\ shell' = IF shell = "read" THEN "data" ELSE "try_data"
     \/ /\ rx = << >> /\ shell = "try_read"
        /\ shell' = "command"
  /\ UNCHANGED <<vars, Device, head, loaded, event, taken>>

\* Its data read: the FIFO's first byte, or junk from an empty FIFO.  A byte
\* with a line error is dropped, and read_byte waits on; `y` panics.
PollData ==
  /\ At({"try_data", "data"})
  /\ rx' = IF rx = << >> THEN rx ELSE Tail(rx)
  /\ IF shell = "data"
       THEN \/ shell' \in {"read", "command"} /\ UNCHANGED iflag
            \/ shell' = "panicked" /\ SetFlag(FALSE)
       ELSE shell' = "command" /\ UNCHANGED iflag
  /\ UNCHANGED <<CpuElse, arch, arrived, ring, head, loaded, event, taken>>

\* panic() parks the CPU; a trap that waits for PHYSICAL_PMM does not come back.
Parked == shell \in {"panicked", "stuck"} /\ UNCHANGED cvars

--------------------------------------------------------------------------------
(* sys_read in a process's trap, and the lock steps of Locks *)

\* sys_read's loop: until the ring is empty or the caller's buffer is full.
\* Only aarch64's processes can make system calls.
sys_read(t) ==
  /\ arch = "aarch64"
  /\ cur = t /\ trapped[t] /\ ~Spinning(t) /\ ~Dropping(t) /\ held[t] = << >>
  /\ shell # "stuck"
  /\ \/ /\ loaded[t] = Idle /\ Waiting > 0
        /\ LoadHead(t)
        /\ UNCHANGED <<head, taken>>
     \/ loaded[t] # Idle /\ AdvanceHead(t)
  /\ UNCHANGED <<vars, Device, shell, event>>

\* A page fault, a munmap or the teardown of an exit needs PHYSICAL_PMM, which the
\* shell was preempted with: with interrupts masked the shell never runs again.
\* When the lock is free the trap takes it and drops it within its own masked
\* section, which nobody sees.
PmmSpins(t) ==
  /\ cur = t /\ trapped[t] /\ ~Spinning(t) /\ ~Dropping(t) /\ held[t] = << >>
  /\ loaded[t] = Idle
  /\ shell = "pmm" /\ shell' = "stuck"
  /\ UNCHANGED <<vars, Device, head, loaded, event, taken>>

\* The shell takes locks in its commands, everybody else as in Locks; a trap
\* ends after the system call it was taken for.
GuardStep(t) == (Acquire(t) \/ Release(t) \/ Restore(t)) /\ UNCHANGED console

LockStep(t) ==
  \/ GuardStep(t)
  \/ /\ t = Shell => shell = "command"
     /\ loaded[t] = Idle /\ shell # "stuck"
     /\ \E l \in Lock : lock(t, l)
     /\ UNCHANGED console

TrapReturn(t) ==
  /\ loaded[t] = Idle /\ shell # "stuck"
  /\ Return(t)
  /\ event' = (event \/ arch = "aarch64")
  /\ UNCHANGED <<Device, head, loaded, shell, taken>>

TrapEntry(t) == Trap(t) /\ UNCHANGED console

\* A background worker gives up the CPU: the scheduler runs, the UART is left
\* alone.
yield_now(t) ==
  /\ cur = t /\ IsThread(t) /\ t # Shell
  /\ ~Spinning(t) /\ ~Dropping(t) /\ held[t] = << >>
  /\ cur' = (cur + 1) % (Threads + Processes)
  /\ event' = (event \/ arch = "aarch64")
  /\ UNCHANGED <<iflag, locked, want, held, dropped, trapped>>
  /\ UNCHANGED <<Device, head, loaded, shell, taken>>

--------------------------------------------------------------------------------
ShellStep ==
  \/ Mask \/ DequeueSome \/ DequeueNone \/ Wfe \/ Handle \/ PollCommand \/ PollStatus
  \/ PollData \/ LockPmm \/ AllocPanics

CNext ==
  \/ Arrive \/ raw_uart_interrupt_handler \/ TimerIrq \/ ShellStep \/ Parked
  \/ \E t \in Task : TrapEntry(t) \/ sys_read(t) \/ TrapReturn(t) \/ LockStep(t)
                     \/ yield_now(t) \/ PmmSpins(t)

CSpec == CInit /\ [][CNext]_cvars

\* An interrupt stays pending while it is masked and is taken once it is not; a
\* task that is given the CPU time and again executes, since a time slice is
\* many instructions; critical sections, commands and traps end, but for a trap
\* that PmmSpins has stopped.
CFairness ==
  /\ SF_cvars(TimerIrq) /\ SF_cvars(raw_uart_interrupt_handler)
  /\ SF_cvars(ShellStep) /\ SF_cvars(Handle)
  /\ SF_cvars(\E t \in Task : TrapReturn(t))
  /\ WF_cvars(\E t \in Task : sys_read(t) \/ GuardStep(t))
  /\ \A depth \in Lock :
       SF_cvars(\E t \in Task : Len(held[t]) = depth /\ Release(t) /\ UNCHANGED console)

CFairSpec == CSpec /\ CFairness

--------------------------------------------------------------------------------
(* Properties *)

\* The shell masks interrupts from before its dequeue until after it, and where
\* it parks.
ShellMasks == shell \in {"dequeue", "panicked"}

\* The flag a task runs with outside every lock is the one its context calls
\* for: nested guards, traps and the shell's own cli and sti put it back.
FlagRestored ==
  \A t \in Task :
    ~Spinning(t) /\ ~Dropping(t) /\ held[t] = << >> =>
      iflag[t] = ~(trapped[t] \/ (t = Shell /\ ShellMasks))

\* Two dequeue_byte calls are never in progress at once (HEAD is loaded and
\* stored without a lock), so every byte the ring accepted is handed out
\* exactly once and in order, whichever of shell and processes takes it.  A
\* burst leaves no more in the ring than it has room for.
TakenOnce ==
  /\ \A t, u \in Task : loaded[t] # Idle /\ loaded[u] # Idle => t = u
  /\ taken = SubSeq(ring, 1, head) /\ Waiting <= RingCapacity

\* The shell never halts on a byte that is already in the ring: what arrives
\* between its test of the ring and its halt, or its wfe, still wakes it.
NoLostWakeup == shell = "asleep" => Waiting = 0

\* What has arrived is drained and taken in the end, unless the shell waits
\* for good in the panic command's read_byte or has panicked, or a trap waits for
\* the frame bitmap that the preempted shell has locked.
InputTaken ==
  (rx # << >> \/ Waiting > 0) ~>
    ((rx = << >> /\ Waiting = 0) \/ shell \in {"read", "panicked", "stuck"})
================================================================================
