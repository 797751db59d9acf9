------------------------------- MODULE Scheduler -------------------------------
(***************************************************************************)
(* The task table and the preemptive scheduler of src/src/task.rs.         *)
(*                                                                         *)
(* One CPU runs the slots.  Slot 0 is the boot thread, which becomes the   *)
(* shell: it is the only caller of spawn and spawn_from_elf.  A timer tick *)
(* can come between any two stores of Task::init, because spawning masks   *)
(* no interrupt; exit runs in trap context with interrupts masked, so      *)
(* marking the slot Terminated and the run_schedule that follows are one   *)
(* step.  The stores of Task::init are taken in program order.             *)
(*                                                                         *)
(* Slot 0 takes PHYSICAL_PMM, a memory::Mutex, for every frame it needs,   *)
(* and can be preempted with it.  An exit that has a page table to free,   *)
(* or a fault or munmap of a process, then waits for it with interrupts    *)
(* masked, that is, for ever.                                              *)
(*                                                                         *)
(* A slot that is dispatched before Task::init has stored its sp resumes   *)
(* from whatever sp held: nothing (a never used slot), or a frame of the   *)
(* previous occupant.  What it then does is undefined; the model lets it   *)
(* run until a tick, exit, or bring the kernel down.                       *)
(***************************************************************************)
EXTENDS RoundRobin

CONSTANTS
  Root,         \* frames that can become the page table root of a process
  KernelRoot,   \* the boot page table
  NoRoot        \* memory_root = 0

ASSUME RootAssumption ==
  KernelRoot \notin Root /\ NoRoot \notin Root /\ NoRoot # KernelRoot

VARIABLES
  state, memory_root, owns_memory_root, is_ring3,   \* the fields of TASKS
  sp,                \* "null", "stale" (a frame of an earlier occupant, or of a
                     \* moment before the slot blocked) or "live"
  CURRENT_TASK,
  TASK_INITIALIZED,
  cr3,               \* the active page table root (TTBR0_EL1 on aarch64)
  rsp0,              \* the slot whose kernel stack TSS.RSP0 points at
  allocated,         \* page table roots that are not free frames
  spawner,           \* the spawn call of slot 0 in progress
  threads,           \* kernel threads kmain has spawned
  torn,              \* history: a slot was dispatched in the middle of its init,
                     \* or from a frame older than its block
  pmm,               \* slot 0 holds PHYSICAL_PMM
  halted             \* the kernel has panicked, or spins with interrupts masked

vars == <<state, memory_root, owns_memory_root, is_ring3, sp, CURRENT_TASK, TASK_INITIALIZED,
          cr3, rsp0, allocated, spawner, threads, torn, pmm, halted>>

fields == <<memory_root, owns_memory_root, is_ring3>>
cpu == <<CURRENT_TASK, cr3, rsp0>>

Roots == Root \cup {KernelRoot}
SpawnCall == [pc : {"idle", "load", "scan", "root", "owns", "ring3", "frame", "publish"},
              slot : Slots, root : Roots \cup {NoRoot}, owns : BOOLEAN, ring3 : BOOLEAN]
Idle == [pc |-> "idle", slot |-> 0, root |-> NoRoot, owns |-> FALSE, ring3 |-> FALSE]

Init ==
  /\ state = [i \in Slots |-> "Terminated"]
  /\ memory_root = [i \in Slots |-> NoRoot]
  /\ owns_memory_root = [i \in Slots |-> FALSE]
  /\ is_ring3 = [i \in Slots |-> FALSE]
  /\ sp = [i \in Slots |-> "null"]
  /\ CURRENT_TASK = 0
  /\ TASK_INITIALIZED = FALSE
  /\ cr3 = KernelRoot
  /\ rsp0 = 0
  /\ allocated = {KernelRoot}
  /\ spawner = Idle
  /\ threads = 0
  /\ torn = FALSE
  /\ pmm = FALSE
  /\ halted = FALSE

--------------------------------------------------------------------------------
(* run_schedule *)

\* Mutant of Dispatch: only the switch to an owner of its root loads CR3.
DispatchSwitchOwned(st, n) ==
  LET cur == CURRENT_TASK
      reclaim == st[cur] = "Terminated" /\ owns_memory_root[cur]
  IN /\ state' = [st EXCEPT ![n] = "Running"]
     /\ CURRENT_TASK' = n
     /\ cr3' = IF owns_memory_root[n] THEN memory_root[n] ELSE cr3
     /\ owns_memory_root' = [owns_memory_root EXCEPT ![cur] = @ /\ ~reclaim]
     /\ memory_root' = [memory_root EXCEPT ![cur] = IF reclaim THEN NoRoot ELSE @]
     /\ allocated' = IF reclaim THEN allocated \ {memory_root[cur]} ELSE allocated
     /\ rsp0' = n
     /\ torn' = (torn \/ sp[n] # "live")
     /\ UNCHANGED halted

\* Mutant of Dispatch: the teardown does not ask who owns the root.
DispatchTeardownAny(st, n) ==
  LET cur == CURRENT_TASK
      reclaim == st[cur] = "Terminated"
  IN /\ state' = [st EXCEPT ![n] = "Running"]
     /\ CURRENT_TASK' = n
     /\ cr3' = IF memory_root[n] # memory_root[cur] /\ memory_root[n] # NoRoot
                 THEN memory_root[n] ELSE cr3
     /\ owns_memory_root' = [owns_memory_root EXCEPT ![cur] = @ /\ ~reclaim]
     /\ memory_root' = [memory_root EXCEPT ![cur] = IF reclaim THEN NoRoot ELSE @]
     /\ allocated' = IF reclaim THEN allocated \ {memory_root[cur]} ELSE allocated
     /\ rsp0' = n
     /\ torn' = (torn \/ sp[n] # "live")
     /\ UNCHANGED halted

\* The switch to slot n: address space, teardown of a slot that has exited,
\* kernel stack.  When slot 0 holds the frame bitmap the teardown never returns.
Dispatch(st, n) ==
  LET cur == CURRENT_TASK
      reclaim == st[cur] = "Terminated" /\ owns_memory_root[cur]
      spins == reclaim /\ pmm
  IN /\ state' = [st EXCEPT ![n] = "Running"]
     /\ CURRENT_TASK' = n
     /\ cr3' = IF memory_root[n] # memory_root[cur] /\ memory_root[n] # NoRoot
                 THEN memory_root[n] ELSE cr3
     /\ IF reclaim
          THEN /\ owns_memory_root' = [owns_memory_root EXCEPT ![cur] = FALSE]
               /\ memory_root' = [memory_root EXCEPT ![cur] = NoRoot]
          ELSE UNCHANGED <<owns_memory_root, memory_root>>
     /\ allocated' = IF reclaim /\ ~spins THEN allocated \ {memory_root[cur]} ELSE allocated
     /\ rsp0' = IF spins THEN rsp0 ELSE n
     /\ torn' = (torn \/ sp[n] # "live")
     /\ halted' = spins

\* run_schedule entered with the state table st.  The running slot goes back
\* to Ready and its frame is saved; a slot that has just exited does not, and
\* neither does one that has blocked, whose sp is now an old frame on a stack
\* that has been used since.
run_schedule(st) ==
  LET saved == IF st[CURRENT_TASK] = "Running"
                 THEN [st EXCEPT ![CURRENT_TASK] = "Ready"] ELSE st
  IN /\ IF \E n \in Slots : saved[n] = "Ready"
          THEN \E n \in Slots : IsNextReady(saved, CURRENT_TASK, n) /\ Dispatch(saved, n)
          ELSE /\ state' = saved
               /\ UNCHANGED <<cpu, memory_root, owns_memory_root, allocated, torn, halted>>
     /\ sp' = IF saved[CURRENT_TASK] = "Blocked"
                THEN [sp EXCEPT ![CURRENT_TASK] = "stale"] ELSE sp
     /\ UNCHANGED <<is_ring3, TASK_INITIALIZED, spawner, threads, pmm>>

\* The timer interrupt, or a yield.  Before TASK_INITIALIZED it returns at once.
Tick ==
  /\ TASK_INITIALIZED
  /\ ~halted
  /\ sp[CURRENT_TASK] # "null"
  /\ run_schedule(state)

\* Mutant of exit: a kernel thread can exit like a process.
exitAnyTask ==
  /\ TASK_INITIALIZED
  /\ ~halted
  /\ sp[CURRENT_TASK] # "null"
  /\ run_schedule([state EXCEPT ![CURRENT_TASK] = "Terminated"])

\* sys_exit, or a fault that is fatal to a user process.
exit ==
  /\ TASK_INITIALIZED
  /\ ~halted
  /\ is_ring3[CURRENT_TASK] /\ sp[CURRENT_TASK] # "null"
  /\ run_schedule([state EXCEPT ![CURRENT_TASK] = "Terminated"])

\* The undefined behaviour of a half-initialised slot ends in a fault the
\* kernel does not survive.
Crash ==
  /\ ~halted
  /\ TASK_INITIALIZED
  /\ sp[CURRENT_TASK] # "live"
  /\ halted' = TRUE
  /\ UNCHANGED <<state, fields, sp, cpu, TASK_INITIALIZED, allocated, spawner, threads, torn,
                 pmm>>

\* A page fault or a munmap of a process takes PHYSICAL_PMM.  What it does with
\* the bitmap is AddressSpace's; when slot 0 was preempted with the lock it never
\* gets it.
FaultSpins ==
  /\ TASK_INITIALIZED /\ ~halted
  /\ is_ring3[CURRENT_TASK] /\ sp[CURRENT_TASK] # "null"
  /\ pmm
  /\ halted' = TRUE
  /\ UNCHANGED <<state, fields, sp, cpu, TASK_INITIALIZED, allocated, spawner, threads,
                 torn, pmm>>

\* Nothing runs any more.
Halted == halted /\ UNCHANGED vars

--------------------------------------------------------------------------------
(* spawn, spawn_from_elf and Task::init, run by slot 0 *)

SpawnerRuns == CURRENT_TASK = 0 /\ ~halted

\* kmain spawns two kernel threads; the first one names the boot thread.
spawn ==
  /\ SpawnerRuns /\ spawner.pc = "idle" /\ threads < 2
  /\ spawner' = [Idle EXCEPT !.pc = "scan", !.root = cr3]
  /\ threads' = threads + 1
  /\ UNCHANGED <<state, fields, sp, cpu, TASK_INITIALIZED, allocated, torn, pmm, halted>>

\* vmm_alloc_frame takes the lock on the bitmap, for a page table root, for a
\* frame of a new process or for memstat.
LockPmm ==
  /\ SpawnerRuns /\ spawner.pc \in {"idle", "load"} /\ threads = 2
  /\ ~pmm /\ pmm' = TRUE
  /\ UNCHANGED <<state, fields, sp, cpu, TASK_INITIALIZED, allocated, spawner, threads,
                 torn, halted>>

\* It returns with a frame that becomes no root.
UnlockPmm ==
  /\ SpawnerRuns
  /\ pmm /\ pmm' = FALSE
  /\ UNCHANGED <<state, fields, sp, cpu, TASK_INITIALIZED, allocated, spawner, threads,
                 torn, halted>>

\* The shell's run command: allocate_isolated_page_table gives a fresh root
\* or, when no frame is left, the caller's own.
AllocateIsolatedPageTable ==
  /\ SpawnerRuns /\ spawner.pc = "idle" /\ threads = 2
  /\ pmm /\ pmm' = FALSE
  /\ \/ \E r \in Root \ allocated :
          /\ spawner' = [Idle EXCEPT !.pc = "load", !.root = r, !.owns = TRUE, !.ring3 = TRUE]
          /\ allocated' = allocated \cup {r}
     \/ /\ spawner' = [Idle EXCEPT !.pc = "load", !.root = cr3, !.ring3 = TRUE]
        /\ UNCHANGED allocated
  /\ UNCHANGED <<state, fields, sp, cpu, TASK_INITIALIZED, threads, torn, halted>>

\* load_elf_to_process and allocate_user_stack; a failure returns without
\* freeing the root.
LoadElf ==
  /\ SpawnerRuns /\ spawner.pc = "load" /\ ~pmm
  /\ \E next \in {[spawner EXCEPT !.pc = "scan"], Idle} : spawner' = next
  /\ UNCHANGED <<state, fields, sp, cpu, TASK_INITIALIZED, allocated, threads, torn, pmm,
                 halted>>

\* The search for a Terminated slot looks at one slot at a time.  Task::init
\* makes the slot it finds Ready first of all; sp keeps its value, which now
\* belongs to an earlier occupant.
Scan ==
  /\ SpawnerRuns /\ spawner.pc = "scan"
  /\ IF state[spawner.slot] = "Terminated"
       THEN /\ state' = [state EXCEPT ![spawner.slot] = "Ready"]
            /\ sp' = [sp EXCEPT ![spawner.slot] = IF @ = "null" THEN "null" ELSE "stale"]
            /\ spawner' = [spawner EXCEPT !.pc = "root"]
       ELSE /\ spawner' = IF spawner.slot + 1 \in Slots
                            THEN [spawner EXCEPT !.slot = @ + 1] ELSE Idle
            /\ UNCHANGED <<state, sp>>
  /\ UNCHANGED <<fields, cpu, TASK_INITIALIZED, allocated, threads, torn, pmm, halted>>

\* The slot's descriptor table is allocated on the heap; a heap that is used up
\* panics.
InitFdTable ==
  /\ SpawnerRuns /\ spawner.pc = "root"
  /\ halted' = TRUE
  /\ UNCHANGED <<state, fields, sp, cpu, TASK_INITIALIZED, allocated, spawner, threads,
                 torn, pmm>>

InitRoot ==
  /\ SpawnerRuns /\ spawner.pc = "root"
  /\ memory_root' = [memory_root EXCEPT ![spawner.slot] = spawner.root]
  /\ spawner' = [spawner EXCEPT !.pc = "owns"]
  /\ UNCHANGED <<state, owns_memory_root, is_ring3, sp, cpu, TASK_INITIALIZED,
                 allocated, threads, torn, pmm, halted>>

InitOwns ==
  /\ SpawnerRuns /\ spawner.pc = "owns"
  /\ owns_memory_root' = [owns_memory_root EXCEPT ![spawner.slot] = spawner.owns]
  /\ spawner' = [spawner EXCEPT !.pc = "ring3"]
  /\ UNCHANGED <<state, memory_root, is_ring3, sp, cpu, TASK_INITIALIZED, allocated,
                 threads, torn, pmm, halted>>

InitRing3 ==
  /\ SpawnerRuns /\ spawner.pc = "ring3"
  /\ is_ring3' = [is_ring3 EXCEPT ![spawner.slot] = spawner.ring3]
  /\ spawner' = [spawner EXCEPT !.pc = "frame"]
  /\ UNCHANGED <<state, memory_root, owns_memory_root, sp, cpu, TASK_INITIALIZED,
                 allocated, threads, torn, pmm, halted>>

\* The resume frame is written, then sp is stored.
InitFrame ==
  /\ SpawnerRuns /\ spawner.pc = "frame"
  /\ sp' = [sp EXCEPT ![spawner.slot] = "live"]
  /\ spawner' = [spawner EXCEPT !.pc = "publish"]
  /\ UNCHANGED <<state, fields, cpu, TASK_INITIALIZED, allocated, threads, torn, pmm, halted>>

\* The first spawn starts the scheduler with slot 0 as the running thread.
Publish ==
  /\ SpawnerRuns /\ spawner.pc = "publish"
  /\ state' = IF TASK_INITIALIZED THEN state ELSE [state EXCEPT ![0] = "Running"]
  /\ TASK_INITIALIZED' = TRUE
  /\ spawner' = Idle
  /\ UNCHANGED <<fields, sp, cpu, allocated, threads, torn, pmm, halted>>

Spawner ==
  \/ spawn \/ LockPmm \/ UnlockPmm \/ AllocateIsolatedPageTable \/ LoadElf \/ Scan
  \/ InitFdTable \/ InitRoot \/ InitOwns \/ InitRing3 \/ InitFrame \/ Publish

--------------------------------------------------------------------------------
Next == Tick \/ exit \/ FaultSpins \/ Crash \/ Halted \/ Spawner

Spec == Init /\ [][Next]_vars

\* The timer is periodic.  Interrupts stay masked for ever only after a panic and
\* in a wait for PHYSICAL_PMM, both of which set halted; every other masked
\* section ends, a wait for a Spinlock among them (NoDeadSpin of Locks).  A slot
\* resumed with a null sp faults at once.
FairSpec == Spec /\ WF_vars(Tick) /\ WF_vars(Crash)

--------------------------------------------------------------------------------
(* Properties *)

TypeOK ==
  /\ state \in [Slots -> TaskState]
  /\ memory_root \in [Slots -> Roots \cup {NoRoot}]
  /\ owns_memory_root \in [Slots -> BOOLEAN]
  /\ is_ring3 \in [Slots -> BOOLEAN]
  /\ sp \in [Slots -> {"null", "stale", "live"}]
  /\ CURRENT_TASK \in Slots
  /\ TASK_INITIALIZED \in BOOLEAN
  /\ cr3 \in Roots
  /\ rsp0 \in Slots
  /\ allocated \subseteq Roots
  /\ spawner \in SpawnCall
  /\ threads \in 0 .. 2
  /\ torn \in BOOLEAN
  /\ pmm \in BOOLEAN
  /\ halted \in BOOLEAN

\* Slot i is between the store that makes it Ready and the one of its sp.
InInit(i) == spawner.pc \in {"root", "owns", "ring3", "frame"} /\ spawner.slot = i

\* The CPU and the task table agree however ticks, exits and spawns
\* interleave: once the scheduler is up no slot but the current one is Running,
\* and the current one is, or has just blocked; its page table is the active one
\* unless its root is still 0; and TSS.RSP0 is its kernel stack, except in the
\* switch that hangs in its teardown.
CpuMatchesTable ==
  /\ TASK_INITIALIZED => /\ state[CURRENT_TASK] \in {"Running", "Blocked"}
                         /\ \A i \in Slots : state[i] = "Running" => i = CURRENT_TASK
  /\ memory_root[CURRENT_TASK] # NoRoot => cr3 = memory_root[CURRENT_TASK]
  /\ ~halted => rsp0 = CURRENT_TASK

\* The shell's slot survives everything, so an exit always finds a Ready slot
\* to switch to and never falls through to the spin loop behind it.
ShellSurvives ==
  TASK_INITIALIZED => state[0] \in {"Ready", "Running"}

\* As long as no slot has been dispatched without a frame of its own, every
\* live slot has an allocated page table, no root is owned twice or together
\* with the spawn in progress, the boot table is never freed and the active
\* table is never freed: owns_memory_root guards the teardown of
\* run_schedule as its comments say.
OwnershipSound ==
  ~torn =>
    /\ \A i \in Slots : state[i] # "Terminated" /\ ~InInit(i) => memory_root[i] \in allocated
    /\ \A i, j \in Slots :
         owns_memory_root[i] /\ owns_memory_root[j] /\ i # j => memory_root[i] # memory_root[j]
    /\ \A i \in Slots : spawner.owns /\ owns_memory_root[i] /\ i # spawner.slot
                          => memory_root[i] # spawner.root
    /\ KernelRoot \in allocated
    /\ cr3 \in allocated

\* Round robin starves nobody: a Ready slot is dispatched, or stops being
\* Ready, unless the kernel panics or a trap waits for ever for the frame bitmap
\* that the preempted shell has locked.
NoStarvation ==
  \A i \in Slots :
    (TASK_INITIALIZED /\ state[i] = "Ready") ~> (state[i] # "Ready" \/ halted)

\* Before the first spawn completes the boot thread is alone, spawning slot 0
\* on the boot page table.
BootAlone ==
  ~TASK_INITIALIZED =>
    /\ CURRENT_TASK = 0 /\ cr3 = KernelRoot /\ ~torn
    /\ spawner.slot = 0 /\ ~spawner.owns /\ ~spawner.ring3
    /\ spawner.pc # "load"
    /\ spawner.pc = "idle" <=> threads = 0
    /\ threads < 2
    /\ spawner.pc # "idle" => spawner.root = KernelRoot
    /\ spawner.pc \in {"owns", "ring3", "frame", "publish"} => memory_root[0] = KernelRoot
    /\ spawner.pc \in {"idle", "scan", "root"} => memory_root[0] = NoRoot
    /\ spawner.pc = "publish" => sp[0] = "live"
    /\ state[0] = IF spawner.pc \in {"idle", "scan"} THEN "Terminated" ELSE "Ready"
    /\ \A i \in Slots \ {0} : state[i] = "Terminated" /\ memory_root[i] = NoRoot
    /\ \A i \in Slots : ~owns_memory_root[i] /\ ~is_ring3[i]

\* Afterwards slot 0 is a kernel thread on the boot page table for good, and
\* no spawn touches it.
ShellSlot ==
  TASK_INITIALIZED =>
    /\ memory_root[0] = KernelRoot /\ ~owns_memory_root[0] /\ ~is_ring3[0] /\ sp[0] = "live"
    /\ spawner.pc \in {"root", "owns", "ring3", "frame", "publish"} => spawner.slot # 0

\* What makes OwnershipSound inductive: who can hold a root that is not the
\* boot table, and where the root of the spawn in progress is.
OwnersAccounted ==
  /\ \A i \in Slots : InInit(i) => sp[i] # "live"
  /\ spawner.owns => spawner.root \in Root
  /\ ~spawner.owns => spawner.root \in {KernelRoot, NoRoot}
  /\ spawner.pc # "idle" => spawner.root # NoRoot
  /\ ~torn =>
       /\ spawner.pc \in {"load", "scan", "root", "owns", "ring3", "frame"}
            => spawner.root \in allocated
       /\ spawner.pc \in {"load", "scan", "root"} /\ spawner.owns
            => \A i \in Slots : memory_root[i] # spawner.root
       /\ \A i \in Slots : owns_memory_root[i] => memory_root[i] \in Root \cap allocated
       /\ \A i \in Slots : InInit(i) => state[i] = "Ready"
       /\ \A i \in Slots : state[i] = "Terminated" => ~owns_memory_root[i]
       /\ \A i \in Slots : memory_root[i] \in Root /\ ~owns_memory_root[i]
            => InInit(i) /\ spawner.owns /\ spawner.pc = "owns"
       /\ \A i \in Slots : InInit(i) /\ spawner.pc # "root" => memory_root[i] = spawner.root
       /\ \A i \in Slots : InInit(i) /\ spawner.pc \in {"root", "owns"} => ~owns_memory_root[i]

\* The inductive invariant of the proofs.
IndInv ==
  /\ TypeOK /\ CpuMatchesTable /\ ShellSurvives /\ OwnershipSound
  /\ BootAlone /\ ShellSlot /\ OwnersAccounted

\* What the comment on the teardown in run_schedule says, and preemption inside
\* Task::init breaks: freeing the page table of an exited slot never pulls it
\* out from under a translation the CPU is still using.
ActiveRootNotFreed == cr3 \in allocated
================================================================================
