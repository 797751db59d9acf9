------------------------------ MODULE MailboxProofs ------------------------------
(***************************************************************************)
(* Proofs about Scheduler and Mailbox, for every MAX_TASKS and every set   *)
(* of page table roots.  Init establishes IndInv (InitIndInv), every       *)
(* action of the scheduler preserves it (one lemma for each store of a     *)
(* spawn, RunScheduleInv for ticks and exits), and the scheduler's safety  *)
(* properties are conjuncts of it.  The mailboxes keep it, and lose no     *)
(* message but in the races MessageKept and WokenUp name.                  *)
(***************************************************************************)
EXTENDS Mailbox, TLAPS

\* How long the provers may take for a step that names none of them.
USE ZenonT(5), SMTT(30)

--------------------------------------------------------------------------------
(* The scheduler *)

\* The task table of the boot image satisfies the inductive invariant.
LEMMA InitIndInv == Init => IndInv
<1> SUFFICES ASSUME Init PROVE IndInv
  OBVIOUS
<1>0. 0 \in Slots
  BY MaxTasksAssumption DEF Slots
<1>1. TypeOK
  <2>1. spawner \in SpawnCall
    BY <1>0 DEF Init, Idle, SpawnCall
  <2>2. cr3 \in Roots /\ allocated \subseteq Roots /\ threads \in 0 .. 2
    BY DEF Init, Roots
  <2> QED BY <1>0, <2>1, <2>2 DEF Init, TypeOK, TaskState
<1>2. CpuMatchesTable /\ ShellSurvives /\ OwnershipSound
  BY <1>0, RootAssumption DEF Init, CpuMatchesTable, ShellSurvives, OwnershipSound, Idle, InInit
<1>3. BootAlone /\ ShellSlot /\ OwnersAccounted
  BY <1>0, RootAssumption DEF Init, BootAlone, ShellSlot, OwnersAccounted, Idle, InInit
<1> QED BY <1>1, <1>2, <1>3 DEF IndInv

\* kmain's call of spawn reads the boot page table root: the caller is slot 0.
LEMMA spawnInv == IndInv /\ spawn => IndInv'
<1> SUFFICES ASSUME IndInv, spawn PROVE IndInv'
  OBVIOUS
<1> USE RootAssumption DEF Roots, TaskState, fields, cpu, SpawnerRuns, Idle
<1>0. 0 \in Slots
  BY MaxTasksAssumption DEF Slots
<1>a. /\ TypeOK /\ CpuMatchesTable /\ ShellSurvives /\ OwnershipSound
      /\ BootAlone /\ ShellSlot /\ OwnersAccounted
  BY DEF IndInv
<1>s. spawner' \in SpawnCall
  BY <1>0, <1>a DEF spawn, TypeOK, SpawnCall
<1>t. threads' \in 0 .. 2
  BY <1>a DEF spawn, TypeOK
<1>1. TypeOK'
  BY <1>0, <1>a, <1>s, <1>t DEF spawn, TypeOK
<1>2. CpuMatchesTable'
  BY <1>0, <1>a
  DEF spawn, TypeOK, CpuMatchesTable, BootAlone, ShellSlot, ShellSurvives, SpawnCall
<1>3. ShellSurvives'
  BY <1>0, <1>a DEF spawn, TypeOK, ShellSurvives, BootAlone, ShellSlot, SpawnCall
<1>4. OwnershipSound'
  BY <1>0, <1>a
  DEF spawn, TypeOK, OwnershipSound, OwnersAccounted, InInit, CpuMatchesTable, ShellSlot,
      BootAlone, SpawnCall
<1>5. BootAlone'
  BY <1>0, <1>a DEF spawn, TypeOK, BootAlone, SpawnCall
<1>6. ShellSlot'
  BY <1>0, <1>a
  DEF spawn, TypeOK, ShellSlot, BootAlone, ShellSurvives, OwnersAccounted, InInit, SpawnCall
<1>7. OwnersAccounted'
  BY <1>0, <1>a
  DEF spawn, TypeOK, OwnersAccounted, OwnershipSound, InInit, CpuMatchesTable, BootAlone,
      ShellSlot, SpawnCall
<1> QED BY <1>1, <1>2, <1>3, <1>4, <1>5, <1>6, <1>7 DEF IndInv

\* The root of a new process is a free frame, hence nobody's memory_root, or the
\* shell's own, which is the boot table.
LEMMA AllocateIsolatedPageTableInv == IndInv /\ AllocateIsolatedPageTable => IndInv'
<1> SUFFICES ASSUME IndInv, AllocateIsolatedPageTable PROVE IndInv'
  OBVIOUS
<1> USE RootAssumption DEF Roots, TaskState
<1>0. 0 \in Slots
  BY MaxTasksAssumption DEF Slots
<1>a. /\ TypeOK /\ CpuMatchesTable /\ ShellSurvives /\ OwnershipSound
      /\ BootAlone /\ ShellSlot /\ OwnersAccounted
  BY DEF IndInv
<1>b. /\ TASK_INITIALIZED /\ CURRENT_TASK = 0 /\ cr3 = KernelRoot
      /\ UNCHANGED <<state, fields, sp, cpu, TASK_INITIALIZED, threads, torn, halted>>
      /\ pmm' \in BOOLEAN
  <2>1. /\ CURRENT_TASK = 0 /\ threads = 2
        /\ UNCHANGED <<state, fields, sp, cpu, TASK_INITIALIZED, threads, torn, halted>>
        /\ pmm' \in BOOLEAN
    BY DEF AllocateIsolatedPageTable, SpawnerRuns
  <2>2. TASK_INITIALIZED
    BY <1>a, <2>1 DEF BootAlone
  <2>3. cr3 = KernelRoot
    BY <1>a, <2>1, <2>2 DEF ShellSlot, CpuMatchesTable
  <2> QED BY <2>1, <2>2, <2>3
<1>c. /\ spawner' \in SpawnCall /\ spawner'.pc = "load" /\ spawner'.slot = 0
      /\ \/ /\ spawner'.owns /\ spawner'.root \in Root \ allocated
            /\ allocated' = allocated \cup {spawner'.root}
         \/ ~spawner'.owns /\ spawner'.root = KernelRoot /\ allocated' = allocated
  <2>1. CASE \E r \in Root \ allocated :
          /\ spawner' = [Idle EXCEPT !.pc = "load", !.root = r, !.owns = TRUE, !.ring3 = TRUE]
          /\ allocated' = allocated \cup {r}
    BY <1>0, <2>1 DEF Idle, SpawnCall
  <2>2. CASE /\ spawner' = [Idle EXCEPT !.pc = "load", !.root = cr3, !.ring3 = TRUE]
             /\ UNCHANGED allocated
    BY <1>0, <1>b, <2>2 DEF Idle, SpawnCall
  <2> QED BY <2>1, <2>2 DEF AllocateIsolatedPageTable
<1>1. TypeOK'
  BY <1>a, <1>b, <1>c DEF TypeOK, fields, cpu
<1>2. CpuMatchesTable' /\ ShellSurvives'
  BY <1>a, <1>b DEF CpuMatchesTable, ShellSurvives, fields, cpu
<1>d. \A i \in Slots : ~InInit(i)' /\ ~InInit(i)
  BY <1>c DEF InInit, AllocateIsolatedPageTable
<1>e. UNCHANGED <<state, memory_root, owns_memory_root, sp, cr3, torn>>
  BY <1>b DEF fields, cpu
<1>3. OwnershipSound'
  <2>1. SUFFICES ASSUME ~torn PROVE OwnershipSound'
    BY <1>e DEF OwnershipSound
  <2>2. allocated \subseteq allocated' /\ KernelRoot \in allocated
    BY <1>a, <1>c, <2>1 DEF OwnershipSound
  <2>3. spawner'.owns => spawner'.root \notin allocated
    BY <1>c
  <2>4. \A i \in Slots : owns_memory_root[i] => memory_root[i] \in allocated
    BY <1>a, <2>1 DEF OwnersAccounted
  <2> QED BY <1>a, <1>b, <1>d, <1>e, <2>1, <2>2, <2>3, <2>4 DEF OwnershipSound
<1>4. BootAlone' /\ ShellSlot'
  BY <1>a, <1>b, <1>c DEF BootAlone, ShellSlot, fields, cpu
<1>5. OwnersAccounted'
  <2>1. /\ spawner'.owns => spawner'.root \in Root
        /\ ~spawner'.owns => spawner'.root \in {KernelRoot, NoRoot}
        /\ spawner'.root # NoRoot
    BY <1>c
  <2>2. ASSUME ~torn
        PROVE  /\ spawner'.root \in allocated'
               /\ spawner'.owns => \A i \in Slots : memory_root[i] # spawner'.root
               /\ allocated \subseteq allocated'
    <3>1. KernelRoot \in allocated
      BY <1>a, <2>2 DEF OwnershipSound
    <3>2. \A i \in Slots : memory_root[i] \in Root => memory_root[i] \in allocated
      BY <1>a, <1>d, <2>2 DEF OwnersAccounted
    <3> QED BY <1>c, <3>1, <3>2
  <2>3. ~torn => \A i \in Slots : ~(memory_root[i] \in Root /\ ~owns_memory_root[i])
    BY <1>a, <1>d DEF OwnersAccounted
  <2> QED BY <1>a, <1>c, <1>d, <1>e, <2>1, <2>2, <2>3 DEF OwnersAccounted
<1> QED BY <1>1, <1>2, <1>3, <1>4, <1>5 DEF IndInv

\* Loading the image touches no slot; on failure the root is abandoned.
LEMMA LoadElfInv == IndInv /\ LoadElf => IndInv'
<1> SUFFICES ASSUME IndInv, LoadElf PROVE IndInv'
  OBVIOUS
<1> USE RootAssumption DEF Roots, TaskState, fields, cpu, SpawnerRuns, Idle
<1>0. 0 \in Slots
  BY MaxTasksAssumption DEF Slots
<1>a. /\ TypeOK /\ CpuMatchesTable /\ ShellSurvives /\ OwnershipSound
      /\ BootAlone /\ ShellSlot /\ OwnersAccounted
  BY DEF IndInv
<1>s. spawner' \in SpawnCall
  <2>1. CASE spawner' = Idle
    BY <1>0, <2>1 DEF SpawnCall
  <2>2. CASE spawner' = [spawner EXCEPT !.pc = "scan"]
    BY <1>a, <2>2 DEF TypeOK, SpawnCall
  <2> QED BY <2>1, <2>2 DEF LoadElf
<1>1. TypeOK'
  BY <1>0, <1>a, <1>s DEF LoadElf, TypeOK
<1>2. CpuMatchesTable'
  BY <1>0, <1>a
  DEF LoadElf, TypeOK, CpuMatchesTable, BootAlone, ShellSlot, ShellSurvives, SpawnCall
<1>3. ShellSurvives'
  BY <1>0, <1>a DEF LoadElf, TypeOK, ShellSurvives, BootAlone, ShellSlot, SpawnCall
<1>4. OwnershipSound'
  BY <1>0, <1>a
  DEF LoadElf, TypeOK, OwnershipSound, OwnersAccounted, InInit, CpuMatchesTable, ShellSlot,
      BootAlone, SpawnCall
<1>5. BootAlone'
  BY <1>0, <1>a DEF LoadElf, TypeOK, BootAlone, SpawnCall
<1>6. ShellSlot'
  BY <1>0, <1>a
  DEF LoadElf, TypeOK, ShellSlot, BootAlone, ShellSurvives, OwnersAccounted, InInit, SpawnCall
<1>7. OwnersAccounted'
  BY <1>0, <1>a
  DEF LoadElf, TypeOK, OwnersAccounted, OwnershipSound, InInit, CpuMatchesTable, BootAlone,
      ShellSlot, SpawnCall
<1> QED BY <1>1, <1>2, <1>3, <1>4, <1>5, <1>6, <1>7 DEF IndInv

\* The search of spawn takes only a Terminated slot, which owns no root, and
\* never slot 0 once the scheduler is up.
LEMMA ScanInv == IndInv /\ Scan => IndInv'
<1> SUFFICES ASSUME IndInv, Scan PROVE IndInv'
  OBVIOUS
<1> USE RootAssumption DEF Roots, TaskState, fields, cpu, SpawnerRuns, Idle
<1>0. 0 \in Slots
  BY MaxTasksAssumption DEF Slots
<1>a. /\ TypeOK /\ CpuMatchesTable /\ ShellSurvives /\ OwnershipSound
      /\ BootAlone /\ ShellSlot /\ OwnersAccounted
  BY DEF IndInv
<1>s. spawner' \in SpawnCall
  <2>1. CASE spawner' = Idle
    BY <1>0, <2>1 DEF SpawnCall
  <2>2. CASE spawner' = [spawner EXCEPT !.pc = "root"]
    BY <1>a, <2>2 DEF TypeOK, SpawnCall
  <2>3. CASE spawner.slot + 1 \in Slots /\ spawner' = [spawner EXCEPT !.slot = @ + 1]
    BY <1>a, <2>3 DEF TypeOK, SpawnCall
  <2> QED BY <2>1, <2>2, <2>3 DEF Scan
<1>1. TypeOK'
  BY <1>0, <1>a, <1>s DEF Scan, TypeOK
<1>2. CpuMatchesTable'
  BY <1>0, <1>a
  DEF Scan, TypeOK, CpuMatchesTable, BootAlone, ShellSlot, ShellSurvives, SpawnCall
<1>3. ShellSurvives'
  BY <1>0, <1>a DEF Scan, TypeOK, ShellSurvives, BootAlone, ShellSlot, SpawnCall
<1>4. OwnershipSound'
  BY <1>0, <1>a
  DEF Scan, TypeOK, OwnershipSound, OwnersAccounted, InInit, CpuMatchesTable, ShellSlot,
      BootAlone, SpawnCall
<1>5. BootAlone'
  BY <1>0, <1>a, ZenonT(40) DEF Scan, TypeOK, BootAlone, SpawnCall
<1>6. ShellSlot'
  BY <1>0, <1>a
  DEF Scan, TypeOK, ShellSlot, BootAlone, ShellSurvives, OwnersAccounted, InInit, SpawnCall
<1>7. OwnersAccounted'
  BY <1>0, <1>a
  DEF Scan, TypeOK, OwnersAccounted, OwnershipSound, InInit, CpuMatchesTable, BootAlone,
      ShellSlot, SpawnCall
<1> QED BY <1>1, <1>2, <1>3, <1>4, <1>5, <1>6, <1>7 DEF IndInv

\* Task::init stores memory_root; from here the slot holds a root it does not
\* own yet.
LEMMA InitRootInv == IndInv /\ InitRoot => IndInv'
<1> SUFFICES ASSUME IndInv, InitRoot PROVE IndInv'
  OBVIOUS
<1> USE RootAssumption DEF Roots, TaskState, fields, cpu, SpawnerRuns, Idle
<1>0. 0 \in Slots
  BY MaxTasksAssumption DEF Slots
<1>a. /\ TypeOK /\ CpuMatchesTable /\ ShellSurvives /\ OwnershipSound
      /\ BootAlone /\ ShellSlot /\ OwnersAccounted
  BY DEF IndInv
<1>1. TypeOK'
  BY <1>0, <1>a DEF InitRoot, TypeOK, SpawnCall, BootAlone, ShellSlot
<1>2. CpuMatchesTable'
  BY <1>0, <1>a
  DEF InitRoot, TypeOK, CpuMatchesTable, BootAlone, ShellSlot, ShellSurvives, SpawnCall
<1>3. ShellSurvives'
  BY <1>0, <1>a DEF InitRoot, TypeOK, ShellSurvives, BootAlone, ShellSlot, SpawnCall
<1>4. OwnershipSound'
  BY <1>0, <1>a
  DEF InitRoot, TypeOK, OwnershipSound, OwnersAccounted, InInit, CpuMatchesTable,
      ShellSlot, BootAlone, SpawnCall
<1>5. BootAlone'
  BY <1>0, <1>a DEF InitRoot, TypeOK, BootAlone, SpawnCall
<1>6. ShellSlot'
  BY <1>0, <1>a
  DEF InitRoot, TypeOK, ShellSlot, BootAlone, ShellSurvives, OwnersAccounted, InInit, SpawnCall
<1>7. OwnersAccounted'
  BY <1>0, <1>a
  DEF InitRoot, TypeOK, OwnersAccounted, OwnershipSound, InInit, CpuMatchesTable,
      BootAlone, ShellSlot, SpawnCall
<1> QED BY <1>1, <1>2, <1>3, <1>4, <1>5, <1>6, <1>7 DEF IndInv

\* Task::init stores owns_memory_root: the slot becomes the one owner.
LEMMA InitOwnsInv == IndInv /\ InitOwns => IndInv'
<1> SUFFICES ASSUME IndInv, InitOwns PROVE IndInv'
  OBVIOUS
<1> USE RootAssumption DEF Roots, TaskState, fields, cpu, SpawnerRuns, Idle
<1>0. 0 \in Slots
  BY MaxTasksAssumption DEF Slots
<1>a. /\ TypeOK /\ CpuMatchesTable /\ ShellSurvives /\ OwnershipSound
      /\ BootAlone /\ ShellSlot /\ OwnersAccounted
  BY DEF IndInv
<1>1. TypeOK'
  BY <1>0, <1>a DEF InitOwns, TypeOK, SpawnCall
<1>2. CpuMatchesTable'
  BY <1>0, <1>a
  DEF InitOwns, TypeOK, CpuMatchesTable, BootAlone, ShellSlot, ShellSurvives, SpawnCall
<1>3. ShellSurvives'
  BY <1>0, <1>a DEF InitOwns, TypeOK, ShellSurvives, BootAlone, ShellSlot, SpawnCall
<1>4. OwnershipSound'
  BY <1>0, <1>a
  DEF InitOwns, TypeOK, OwnershipSound, OwnersAccounted, InInit, CpuMatchesTable,
      ShellSlot, BootAlone, SpawnCall
<1>5. BootAlone'
  BY <1>0, <1>a DEF InitOwns, TypeOK, BootAlone, SpawnCall
<1>6. ShellSlot'
  BY <1>0, <1>a
  DEF InitOwns, TypeOK, ShellSlot, BootAlone, ShellSurvives, OwnersAccounted, InInit, SpawnCall
<1>7. OwnersAccounted'
  BY <1>0, <1>a
  DEF InitOwns, TypeOK, OwnersAccounted, OwnershipSound, InInit, CpuMatchesTable,
      BootAlone, ShellSlot, SpawnCall
<1> QED BY <1>1, <1>2, <1>3, <1>4, <1>5, <1>6, <1>7 DEF IndInv

\* Task::init stores is_ring3.
LEMMA InitRing3Inv == IndInv /\ InitRing3 => IndInv'
<1> SUFFICES ASSUME IndInv, InitRing3 PROVE IndInv'
  OBVIOUS
<1> USE RootAssumption DEF Roots, TaskState, fields, cpu, SpawnerRuns, Idle
<1>0. 0 \in Slots
  BY MaxTasksAssumption DEF Slots
<1>a. /\ TypeOK /\ CpuMatchesTable /\ ShellSurvives /\ OwnershipSound
      /\ BootAlone /\ ShellSlot /\ OwnersAccounted
  BY DEF IndInv
<1>1. TypeOK'
  BY <1>0, <1>a DEF InitRing3, TypeOK, SpawnCall
<1>2. CpuMatchesTable'
  BY <1>0, <1>a
  DEF InitRing3, TypeOK, CpuMatchesTable, BootAlone, ShellSlot, ShellSurvives, SpawnCall
<1>3. ShellSurvives'
  BY <1>0, <1>a DEF InitRing3, TypeOK, ShellSurvives, BootAlone, ShellSlot, SpawnCall
<1>4. OwnershipSound'
  BY <1>0, <1>a
  DEF InitRing3, TypeOK, OwnershipSound, OwnersAccounted, InInit, CpuMatchesTable,
      ShellSlot, BootAlone, SpawnCall
<1>5. BootAlone'
  BY <1>0, <1>a DEF InitRing3, TypeOK, BootAlone, SpawnCall
<1>6. ShellSlot'
  BY <1>0, <1>a
  DEF InitRing3, TypeOK, ShellSlot, BootAlone, ShellSurvives, OwnersAccounted, InInit, SpawnCall
<1>7. OwnersAccounted'
  BY <1>0, <1>a
  DEF InitRing3, TypeOK, OwnersAccounted, OwnershipSound, InInit, CpuMatchesTable,
      BootAlone, ShellSlot, SpawnCall
<1> QED BY <1>1, <1>2, <1>3, <1>4, <1>5, <1>6, <1>7 DEF IndInv

\* Task::init stores sp: the slot can be dispatched safely from here on.
LEMMA InitFrameInv == IndInv /\ InitFrame => IndInv'
<1> SUFFICES ASSUME IndInv, InitFrame PROVE IndInv'
  OBVIOUS
<1> USE RootAssumption DEF Roots, TaskState, fields, cpu, SpawnerRuns, Idle
<1>0. 0 \in Slots
  BY MaxTasksAssumption DEF Slots
<1>a. /\ TypeOK /\ CpuMatchesTable /\ ShellSurvives /\ OwnershipSound
      /\ BootAlone /\ ShellSlot /\ OwnersAccounted
  BY DEF IndInv
<1>1. TypeOK'
  BY <1>0, <1>a DEF InitFrame, TypeOK, SpawnCall
<1>2. CpuMatchesTable'
  BY <1>0, <1>a
  DEF InitFrame, TypeOK, CpuMatchesTable, BootAlone, ShellSlot, ShellSurvives, SpawnCall
<1>3. ShellSurvives'
  BY <1>0, <1>a DEF InitFrame, TypeOK, ShellSurvives, BootAlone, ShellSlot, SpawnCall
<1>4. OwnershipSound'
  BY <1>0, <1>a
  DEF InitFrame, TypeOK, OwnershipSound, OwnersAccounted, InInit, CpuMatchesTable,
      ShellSlot, BootAlone, SpawnCall
<1>5. BootAlone'
  BY <1>0, <1>a DEF InitFrame, TypeOK, BootAlone, SpawnCall
<1>6. ShellSlot'
  BY <1>0, <1>a
  DEF InitFrame, TypeOK, ShellSlot, BootAlone, ShellSurvives, OwnersAccounted, InInit, SpawnCall
<1>7. OwnersAccounted'
  BY <1>0, <1>a
  DEF InitFrame, TypeOK, OwnersAccounted, OwnershipSound, InInit, CpuMatchesTable,
      BootAlone, ShellSlot, SpawnCall
<1> QED BY <1>1, <1>2, <1>3, <1>4, <1>5, <1>6, <1>7 DEF IndInv

\* The end of a spawn; the first one makes slot 0 the running thread.
LEMMA PublishInv == IndInv /\ Publish => IndInv'
<1> SUFFICES ASSUME IndInv, Publish PROVE IndInv'
  OBVIOUS
<1> USE RootAssumption DEF Roots, TaskState, fields, cpu, SpawnerRuns, Idle
<1>0. 0 \in Slots
  BY MaxTasksAssumption DEF Slots
<1>a. /\ TypeOK /\ CpuMatchesTable /\ ShellSurvives /\ OwnershipSound
      /\ BootAlone /\ ShellSlot /\ OwnersAccounted
  BY DEF IndInv
<1>1. TypeOK'
  BY <1>0, <1>a DEF Publish, TypeOK, SpawnCall
<1>2. CpuMatchesTable'
  BY <1>0, <1>a
  DEF Publish, TypeOK, CpuMatchesTable, BootAlone, ShellSlot, ShellSurvives, SpawnCall
<1>3. ShellSurvives'
  BY <1>0, <1>a DEF Publish, TypeOK, ShellSurvives, BootAlone, ShellSlot, SpawnCall
<1>4. OwnershipSound'
  BY <1>0, <1>a
  DEF Publish, TypeOK, OwnershipSound, OwnersAccounted, InInit, CpuMatchesTable, ShellSlot,
      BootAlone, SpawnCall
<1>5. BootAlone'
  BY <1>0, <1>a DEF Publish, TypeOK, BootAlone, SpawnCall
<1>6. ShellSlot'
  BY <1>0, <1>a
  DEF Publish, TypeOK, ShellSlot, BootAlone, ShellSurvives, OwnersAccounted, InInit, SpawnCall
<1>7. OwnersAccounted'
  BY <1>0, <1>a
  DEF Publish, TypeOK, OwnersAccounted, OwnershipSound, InInit, CpuMatchesTable, BootAlone,
      ShellSlot, SpawnCall
<1> QED BY <1>1, <1>2, <1>3, <1>4, <1>5, <1>6, <1>7 DEF IndInv

\* The frame bitmap's lock, a panic and a trap that spins change nothing in the
\* task table.
LEMMA TableKept ==
  ASSUME IndInv, LockPmm \/ UnlockPmm \/ InitFdTable \/ FaultSpins \/ Crash
  PROVE  IndInv'
<1>a. /\ pmm' \in BOOLEAN /\ halted' \in BOOLEAN /\ (halted => halted')
      /\ UNCHANGED <<state, memory_root, owns_memory_root, is_ring3, sp, CURRENT_TASK, cr3,
                     rsp0, TASK_INITIALIZED, allocated, spawner, threads, torn>>
  BY DEF LockPmm, UnlockPmm, InitFdTable, FaultSpins, Crash, IndInv, TypeOK, fields, cpu
<1>1. TypeOK'
  BY <1>a DEF IndInv, TypeOK
<1>2. CpuMatchesTable' /\ ShellSurvives'
  BY <1>a DEF IndInv, CpuMatchesTable, ShellSurvives
<1>3. OwnershipSound'
  BY <1>a DEF IndInv, OwnershipSound, InInit
<1>4. BootAlone' /\ ShellSlot'
  BY <1>a DEF IndInv, BootAlone, ShellSlot
<1>5. OwnersAccounted'
  BY <1>a DEF IndInv, OwnersAccounted, InInit
<1> QED BY <1>1, <1>2, <1>3, <1>4, <1>5 DEF IndInv

\* A scheduler step from a tick or from an exit.  st is the state table at
\* entry, saved the one the search runs on.
LEMMA RunScheduleInv ==
  ASSUME IndInv, TASK_INITIALIZED, ~halted, NEW st, run_schedule(st),
         \/ st = state
         \/ is_ring3[CURRENT_TASK] /\ st = [state EXCEPT ![CURRENT_TASK] = "Terminated"]
  PROVE  IndInv'
<1> DEFINE cur == CURRENT_TASK
           saved == IF st[cur] = "Running" THEN [st EXCEPT ![cur] = "Ready"] ELSE st
<1> USE RootAssumption DEF Roots, TaskState
<1>0. 0 \in Slots
  BY MaxTasksAssumption DEF Slots
<1>a. /\ TypeOK /\ CpuMatchesTable /\ ShellSurvives /\ OwnershipSound
      /\ BootAlone /\ ShellSlot /\ OwnersAccounted
  BY DEF IndInv
<1>b. /\ saved \in [Slots -> {"Ready", "Blocked", "Terminated"}]
      /\ \A i \in Slots \ {cur} : saved[i] = state[i]
      /\ saved[cur] = "Terminated" => cur # 0
      /\ saved[0] = "Ready"
      /\ state[cur] \in {"Running", "Blocked"}
  BY <1>0, <1>a DEF TypeOK, CpuMatchesTable, ShellSurvives, ShellSlot
<1>c. PICK n \in Slots : saved[n] = "Ready" /\ Dispatch(saved, n)
  BY <1>0, <1>b DEF run_schedule, IsNextReady
<1>d. UNCHANGED <<is_ring3, TASK_INITIALIZED, spawner, threads, pmm>>
  BY DEF run_schedule
<1>h. sp' = IF saved[cur] = "Blocked" THEN [sp EXCEPT ![cur] = "stale"] ELSE sp
  BY DEF run_schedule
<1> HIDE DEF saved
<1>e. /\ state' = [saved EXCEPT ![n] = "Running"]
      /\ CURRENT_TASK' = n /\ (~halted' => rsp0' = n) /\ rsp0' \in {n, rsp0}
      /\ halted' \in BOOLEAN
      /\ cr3' = IF memory_root[n] # memory_root[cur] /\ memory_root[n] # NoRoot
                  THEN memory_root[n] ELSE cr3
      /\ torn' = (torn \/ sp[n] # "live")
  BY <1>c DEF Dispatch
<1>f. CASE saved[cur] = "Terminated" /\ owns_memory_root[cur]
  <2>1. /\ owns_memory_root' = [owns_memory_root EXCEPT ![cur] = FALSE]
        /\ memory_root' = [memory_root EXCEPT ![cur] = NoRoot]
        /\ allocated \ {memory_root[cur]} \subseteq allocated' /\ allocated' \subseteq allocated
    BY <1>c, <1>f DEF Dispatch
  <2>2. n # cur /\ cur # 0 /\ cur \in Slots /\ state[cur] # "Terminated"
    BY <1>a, <1>b, <1>c, <1>f DEF TypeOK
  <2>3. TypeOK'
    BY <1>a, <1>b, <1>c, <1>d, <1>h, <1>e, <2>1, <2>2 DEF TypeOK
  <2>4. CpuMatchesTable' /\ ShellSurvives'
    BY <1>0, <1>a, <1>b, <1>c, <1>d, <1>h, <1>e, <2>1, <2>2
    DEF TypeOK, CpuMatchesTable, ShellSurvives
  <2>5. BootAlone' /\ ShellSlot'
    BY <1>0, <1>a, <1>d, <1>h, <2>1, <2>2 DEF TypeOK, BootAlone, ShellSlot
  <2>6. OwnershipSound'
    BY <1>a, <1>b, <1>c, <1>d, <1>h, <1>e, <1>f, <2>1, <2>2, SMTT(60)
    DEF TypeOK, OwnershipSound, OwnersAccounted, InInit, CpuMatchesTable
  <2>7. OwnersAccounted'
    BY <1>a, <1>b, <1>c, <1>d, <1>h, <1>e, <1>f, <2>1, <2>2, SMTT(60)
    DEF TypeOK, OwnershipSound, OwnersAccounted, InInit
  <2> QED BY <2>3, <2>4, <2>5, <2>6, <2>7 DEF IndInv
<1>g. CASE ~(saved[cur] = "Terminated" /\ owns_memory_root[cur])
  <2>1. UNCHANGED <<owns_memory_root, memory_root, allocated>>
    BY <1>c, <1>g DEF Dispatch
  <2>2. TypeOK'
    BY <1>a, <1>b, <1>c, <1>d, <1>h, <1>e, <2>1 DEF TypeOK
  <2>3. CpuMatchesTable' /\ ShellSurvives'
    BY <1>0, <1>a, <1>b, <1>c, <1>d, <1>h, <1>e, <2>1 DEF TypeOK, CpuMatchesTable, ShellSurvives
  <2>4. OwnershipSound'
    BY <1>a, <1>b, <1>c, <1>d, <1>h, <1>e, <2>1
    DEF TypeOK, OwnershipSound, OwnersAccounted, InInit, CpuMatchesTable
  <2>5. BootAlone' /\ ShellSlot'
    <3>1. sp'[0] = sp[0]
      BY <1>0, <1>a, <1>b, <1>h DEF TypeOK
    <3> QED BY <1>a, <1>d, <2>1, <3>1 DEF BootAlone, ShellSlot
  <2>6. OwnersAccounted'
    <3>1. \A i \in Slots : InInit(i)' <=> InInit(i)
      BY <1>d DEF InInit
    <3>2. ~torn' => ~torn /\ ~InInit(n)
      BY <1>a, <1>c, <1>e DEF OwnersAccounted
    <3>3. ~torn => \A i \in Slots : state'[i] = "Terminated" => ~owns_memory_root[i]
      BY <1>a, <1>b, <1>c, <1>e, <1>g DEF OwnersAccounted
    <3>4. ~torn' => \A i \in Slots : InInit(i) => state'[i] = "Ready"
      BY <1>a, <1>b, <1>c, <1>e, <3>2 DEF OwnersAccounted
    <3> QED BY <1>a, <1>d, <1>h, <2>1, <3>1, <3>2, <3>3, <3>4 DEF OwnersAccounted
  <2> QED BY <2>2, <2>3, <2>4, <2>5, <2>6 DEF IndInv
<1> QED BY <1>f, <1>g

\* Every step of the scheduler preserves the inductive invariant.
LEMMA NextIndInv == IndInv /\ [Next]_vars => IndInv'
<1> SUFFICES ASSUME IndInv, [Next]_vars PROVE IndInv'
  OBVIOUS
<1>1. CASE Tick
  BY <1>1, RunScheduleInv DEF Tick
<1>2. CASE exit
  BY <1>2, RunScheduleInv DEF exit
<1>5. CASE LockPmm \/ UnlockPmm \/ InitFdTable \/ FaultSpins \/ Crash
  BY <1>5, TableKept
<1>3. CASE Spawner
  BY <1>3, spawnInv, AllocateIsolatedPageTableInv, LoadElfInv, ScanInv, InitRootInv,
     InitOwnsInv, InitRing3Inv, InitFrameInv, PublishInv, <1>5 DEF Spawner
<1>4. CASE Halted \/ UNCHANGED vars
  BY <1>4, SMTT(60)
  DEF Halted, vars, IndInv, TypeOK, CpuMatchesTable, ShellSurvives, OwnershipSound,
     BootAlone, ShellSlot, OwnersAccounted, InInit
<1> QED BY <1>1, <1>2, <1>3, <1>4, <1>5 DEF Next

\* For every number of slots and every supply of page table roots, the
\* inductive invariant holds in every reachable state of the scheduler.
THEOREM IndInvHolds == Spec => []IndInv
<1> QED BY InitIndInv, NextIndInv, PTL DEF Spec

\* Once the scheduler is up, exactly the current slot is Running, its page
\* table is the active one and TSS.RSP0 is its kernel stack, however timer
\* ticks, exits and the stores of Task::init interleave.
THEOREM CpuMatchesTableHolds == Spec => []CpuMatchesTable
<1>1. IndInv => CpuMatchesTable
  BY DEF IndInv
<1> QED BY <1>1, IndInvHolds, PTL

\* run_schedule always has the shell's slot to fall back on.
THEOREM ShellSurvivesHolds == Spec => []ShellSurvives
<1>1. IndInv => ShellSurvives
  BY DEF IndInv
<1> QED BY <1>1, IndInvHolds, PTL

\* Unless a slot has been dispatched in the middle of its init, the teardown
\* in run_schedule frees no table that a live slot, the spawn in progress or
\* the CPU still uses.
THEOREM OwnershipSoundHolds == Spec => []OwnershipSound
<1>1. IndInv => OwnershipSound
  BY DEF IndInv
<1> QED BY <1>1, IndInvHolds, PTL

--------------------------------------------------------------------------------
(* The mailboxes *)

\* What MessageKept and WokenUp rest on: only the worker is ever in
\* receive_message; a sender past its tests has found the mailbox empty and,
\* unless it is in a race, nobody has filled it since; a message that comes
\* after the receiver has looked is one whose sender has yet to wake it.
MailInv ==
  /\ MailTypeOK
  /\ \A i \in Slots : ipc[i].pc \in {"block", "yield"} => i = 1
  /\ \A i \in Slots : ipc[i].pc = "store" /\ ipc[i].dest \notin raced
       => /\ mailbox[ipc[i].dest] = NoMessage
          /\ \A j \in Slots : j # i => ipc[j] # [pc |-> "store", dest |-> ipc[i].dest]
  /\ \A d \in Slots \ missed :
       (state[d] = "Blocked" \/ ipc[d].pc = "block") /\ mailbox[d] # NoMessage
         => \E i \in Slots : ipc[i] = [pc |-> "wake", dest |-> d]
  /\ MessageKept

\* An empty table of mailboxes satisfies the invariant.
LEMMA MailInitInv == MInit => IndInv /\ MailInv
<1> SUFFICES ASSUME MInit PROVE IndInv /\ MailInv
  OBVIOUS
<1>1. IndInv
  BY InitIndInv DEF MInit
<1>2. 0 \in Slots
  BY MaxTasksAssumption DEF Slots
<1>3. NoCall \in Call /\ NoCall.pc = "none"
  BY <1>2 DEF NoCall, Call
<1>4. MailTypeOK
  BY <1>3 DEF MInit, MailTypeOK
<1>5. MessageKept
  BY DEF MInit, MessageKept
<1>6. \A i \in Slots : ipc[i].pc = "none" /\ mailbox[i] = NoMessage
  BY <1>3 DEF MInit
<1> QED BY <1>1, <1>4, <1>5, <1>6 DEF MailInv

\* Waking a blocked slot, and the block of the current thread, change the task
\* table in ways the scheduler's invariant allows.
LEMMA MailKeepsIndInv ==
  ASSUME IndInv, MailInv, NEW i \in Slots, Wake(i) \/ Block(i)
  PROVE  IndInv'
<1> USE DEF TaskState
<1>0. 0 \in Slots /\ CURRENT_TASK = i /\ state[i] = "Running" /\ TASK_INITIALIZED
  BY MaxTasksAssumption DEF Slots, Wake, Block, Runs
<1>a. /\ TypeOK /\ CpuMatchesTable /\ ShellSurvives /\ OwnershipSound
      /\ BootAlone /\ ShellSlot /\ OwnersAccounted
  BY DEF IndInv
<1>b. UNCHANGED <<memory_root, owns_memory_root, is_ring3, sp, CURRENT_TASK, cr3, rsp0,
                  TASK_INITIALIZED, allocated, spawner, threads, torn, pmm, halted>>
  BY DEF Wake, Block, fields, cpu
<1>c. /\ state' \in [Slots -> TaskState]
      /\ state'[0] \in {"Ready", "Running"}
      /\ state'[i] \in {"Running", "Blocked"}
      /\ \A j \in Slots : /\ state'[j] = "Terminated" <=> state[j] = "Terminated"
                          /\ j # i => (state'[j] = "Running" <=> state[j] = "Running")
                          /\ state[j] = "Ready" => state'[j] = "Ready"
  <2>1. CASE Wake(i)
    <3>1. ipc[i].dest \in Slots
      BY DEF MailInv, MailTypeOK, Call
    <3> QED BY <1>0, <1>a, <2>1, <3>1 DEF Wake, TypeOK, ShellSurvives
  <2>2. CASE Block(i)
    <3>1. i # 0
      BY <2>2 DEF Block, MailInv
    <3> QED BY <1>0, <1>a, <2>2, <3>1 DEF Block, TypeOK, ShellSurvives
  <2> QED BY <2>1, <2>2
<1>1. TypeOK'
  BY <1>a, <1>b, <1>c DEF TypeOK
<1>2. CpuMatchesTable' /\ ShellSurvives'
  BY <1>0, <1>a, <1>b, <1>c DEF CpuMatchesTable, ShellSurvives
<1>d. \A j \in Slots : InInit(j)' <=> InInit(j)
  BY <1>b DEF InInit
<1>3. OwnershipSound'
  BY <1>a, <1>b, <1>c, <1>d DEF OwnershipSound
<1>4. BootAlone' /\ ShellSlot'
  BY <1>0, <1>a, <1>b DEF BootAlone, ShellSlot
<1>5. OwnersAccounted'
  BY <1>a, <1>b, <1>c, <1>d DEF OwnersAccounted
<1> QED BY <1>1, <1>2, <1>3, <1>4, <1>5 DEF IndInv

\* A sender that passes its tests enters the race with every other sender that
\* has passed them.
LEMMA SendMailInv ==
  ASSUME MailInv, NEW i \in Slots, NEW d \in Dest, send_message(i, d)
  PROVE  MailInv'
<1>0. d \in Slots /\ ipc[i].pc = "none" /\ mailbox[d] = NoMessage
  BY DestAssumption DEF send_message
<1>1. /\ ipc' = [ipc EXCEPT ![i] = [pc |-> "store", dest |-> d]]
      /\ raced' = IF \E j \in Slots : ipc[j] = [pc |-> "store", dest |-> d]
                    THEN raced \cup {d} ELSE raced
      /\ UNCHANGED <<state, mailbox, owed, missed>>
  BY DEF send_message, vars
<1>2. /\ ipc \in [Slots -> Call] /\ ipc'[i] = [pc |-> "store", dest |-> d]
      /\ \A j \in Slots \ {i} : ipc'[j] = ipc[j]
  BY <1>1 DEF MailInv, MailTypeOK
<1>3. MailTypeOK'
  BY <1>0, <1>1, <1>2, ZenonT(40) DEF MailInv, MailTypeOK, Call
<1>4. \A k \in Slots : ipc'[k].pc \in {"block", "yield"} => k = 1
  BY <1>2 DEF MailInv
<1>5. ASSUME NEW k \in Slots, ipc'[k].pc = "store", ipc'[k].dest \notin raced'
      PROVE  /\ mailbox'[ipc'[k].dest] = NoMessage
             /\ \A j \in Slots : j # k => ipc'[j] # [pc |-> "store", dest |-> ipc'[k].dest]
  <2>1. CASE k = i
    BY <1>0, <1>1, <1>2, <1>5, <2>1
  <2>2. CASE k # i
    <3>1. ipc'[k] = ipc[k] /\ ipc[k].dest \notin raced
      BY <1>1, <1>2, <1>5, <2>2
    <3>2. ipc[k] = [pc |-> "store", dest |-> ipc[k].dest]
      BY <1>2, <1>5, <3>1 DEF Call
    <3>3. ipc[k].dest # d
      BY <1>1, <1>5, <3>1, <3>2
    <3> QED BY <1>1, <1>2, <1>5, <3>1, <3>3, ZenonT(40) DEF MailInv
  <2> QED BY <2>1, <2>2
<1>6. \A k \in Slots \ missed' :
        (state'[k] = "Blocked" \/ ipc'[k].pc = "block") /\ mailbox'[k] # NoMessage
          => \E j \in Slots : ipc'[j] = [pc |-> "wake", dest |-> k]
  <2>1. \A j, k \in Slots : ipc[j] = [pc |-> "wake", dest |-> k] => ipc'[j] = ipc[j]
    BY <1>0, <1>2
  <2> QED BY <1>1, <1>2, <2>1 DEF MailInv
<1>7. MessageKept'
  BY <1>1 DEF MailInv, MessageKept
<1> QED BY <1>3, <1>4, <1>5, <1>6, <1>7 DEF MailInv

\* The store fills a mailbox that is empty, unless there was a race.
LEMMA StoreMailInv ==
  ASSUME MailInv, NEW i \in Slots, StoreMessage(i)
  PROVE  MailInv'
<1> DEFINE d == ipc[i].dest
<1>1. /\ ipc[i].pc = "store"
      /\ mailbox' = [mailbox EXCEPT ![d] = i]
      /\ owed' = [owed EXCEPT ![d] = @ \cup {i}]
      /\ ipc' = [ipc EXCEPT ![i].pc = "wake"]
      /\ UNCHANGED <<state, raced, missed>>
  BY DEF StoreMessage, vars
<1>2. /\ ipc \in [Slots -> Call] /\ d \in Slots /\ ipc'[i] = [pc |-> "wake", dest |-> d]
      /\ \A j \in Slots \ {i} : ipc'[j] = ipc[j]
  BY <1>1 DEF MailInv, MailTypeOK, Call
<1>3. MailTypeOK'
  BY <1>1, <1>2 DEF MailInv, MailTypeOK, Call
<1>4. \A k \in Slots : ipc'[k].pc \in {"block", "yield"} => k = 1
  BY <1>2 DEF MailInv
<1>5. ASSUME NEW k \in Slots, ipc'[k].pc = "store", ipc'[k].dest \notin raced'
      PROVE  /\ mailbox'[ipc'[k].dest] = NoMessage
             /\ \A j \in Slots : j # k => ipc'[j] # [pc |-> "store", dest |-> ipc'[k].dest]
  <2>1. k # i /\ ipc'[k] = ipc[k] /\ ipc[k].dest \in Slots
    BY <1>2, <1>5 DEF Call
  <2>2. ipc[i] = [pc |-> "store", dest |-> d]
    BY <1>1, <1>2 DEF Call
  <2>3. ipc[k].dest # d
    BY <1>1, <1>5, <2>1, <2>2 DEF MailInv
  <2> QED BY <1>1, <1>2, <1>5, <2>1, <2>3 DEF MailInv, MailTypeOK
<1>6. \A k \in Slots \ missed' :
        (state'[k] = "Blocked" \/ ipc'[k].pc = "block") /\ mailbox'[k] # NoMessage
          => \E j \in Slots : ipc'[j] = [pc |-> "wake", dest |-> k]
  <2>1. \A j, k \in Slots : ipc[j] = [pc |-> "wake", dest |-> k] => ipc'[j] = ipc[j]
    BY <1>1, <1>2
  <2>2. \A k \in Slots : k # d => mailbox'[k] = mailbox[k]
    BY <1>1, <1>2 DEF MailInv, MailTypeOK
  <2>3. \A k \in Slots : ipc'[k].pc = "block" => ipc[k].pc = "block"
    BY <1>2
  <2> QED BY <1>1, <1>2, <2>1, <2>2, <2>3 DEF MailInv
<1>7. MessageKept'
  <2> SUFFICES ASSUME NEW k \in Slots \ raced
               PROVE  owed'[k] = {mailbox'[k]} \ {NoMessage}
    BY <1>1 DEF MessageKept
  <2>0. owed[k] = {mailbox[k]} \ {NoMessage}
    BY DEF MailInv, MessageKept
  <2>1. CASE k = d
    <3>1. mailbox[d] = NoMessage
      BY <1>1, <2>1 DEF MailInv
    <3>2. owed'[d] = {i} /\ mailbox'[d] = i /\ i # NoMessage
      BY <1>1, <1>2, <2>0, <2>1, <3>1, DestAssumption DEF MailInv, MailTypeOK
    <3> QED BY <2>1, <3>2
  <2>2. CASE k # d
    BY <1>1, <1>2, <2>0, <2>2 DEF MailInv, MailTypeOK
  <2> QED BY <2>1, <2>2
<1> QED BY <1>3, <1>4, <1>5, <1>6, <1>7 DEF MailInv

\* A wake-up makes the destination Ready, or is recorded as missed.
LEMMA WakeMailInv ==
  ASSUME MailInv, NEW i \in Slots, Wake(i), state \in [Slots -> TaskState]
  PROVE  MailInv'
<1> DEFINE d == ipc[i].dest
<1>1. /\ ipc[i].pc = "wake"
      /\ state' = [state EXCEPT ![d] = IF @ = "Blocked" THEN "Ready" ELSE @]
      /\ missed' = IF ipc[d].pc = "block" THEN missed \cup {d} ELSE missed
      /\ ipc' = [ipc EXCEPT ![i] = NoCall]
      /\ UNCHANGED <<mailbox, owed, raced>>
  BY DEF Wake
<1>2. /\ ipc \in [Slots -> Call] /\ d \in Slots /\ ipc'[i] = NoCall
      /\ \A j \in Slots \ {i} : ipc'[j] = ipc[j]
  BY <1>1 DEF MailInv, MailTypeOK, Call
<1>3. NoCall \in Call /\ NoCall.pc = "none"
  BY MaxTasksAssumption DEF NoCall, Call, Slots
<1>4. MailTypeOK'
  BY <1>1, <1>2, <1>3 DEF MailInv, MailTypeOK
<1>5. \A k \in Slots : ipc'[k].pc # "none" => ipc'[k] = ipc[k]
  BY <1>2, <1>3
<1>6. \A k \in Slots : ipc'[k].pc \in {"block", "yield"} => k = 1
  BY <1>5 DEF MailInv
<1>7. \A k \in Slots : ipc'[k].pc = "store" /\ ipc'[k].dest \notin raced'
        => /\ mailbox'[ipc'[k].dest] = NoMessage
           /\ \A j \in Slots : j # k => ipc'[j] # [pc |-> "store", dest |-> ipc'[k].dest]
  BY <1>1, <1>5 DEF MailInv
<1>8. ASSUME NEW k \in Slots \ missed', mailbox'[k] # NoMessage,
             state'[k] = "Blocked" \/ ipc'[k].pc = "block"
      PROVE  \E j \in Slots : ipc'[j] = [pc |-> "wake", dest |-> k]
  <2>1. k \notin missed /\ mailbox[k] # NoMessage
    BY <1>1, <1>8
  <2>2. k # d /\ (state[k] = "Blocked" \/ ipc[k].pc = "block")
    BY <1>1, <1>2, <1>5, <1>8
  <2>3. PICK j \in Slots : ipc[j] = [pc |-> "wake", dest |-> k]
    BY <2>1, <2>2 DEF MailInv
  <2>4. j # i
    BY <2>2, <2>3
  <2> QED BY <1>2, <2>3, <2>4
<1>9. MessageKept'
  BY <1>1 DEF MailInv, MessageKept
<1> QED BY <1>4, <1>6, <1>7, <1>8, <1>9 DEF MailInv

\* receive_message takes the one message that is owed, or goes on to block with
\* its mailbox empty.
LEMMA ReceiveMailInv ==
  ASSUME MailInv, NEW i \in Slots, receive_message(i)
  PROVE  MailInv'
<1>0. /\ i = 1 /\ ipc[i].pc = "none" /\ UNCHANGED <<state, raced, missed>>
      /\ ipc \in [Slots -> Call] /\ mailbox \in [Slots -> Slots \cup {NoMessage}]
      /\ owed \in [Slots -> SUBSET Slots]
  BY DEF receive_message, vars, MailInv, MailTypeOK
<1>1. CASE mailbox[i] # NoMessage
  <2>1. /\ mailbox' = [mailbox EXCEPT ![i] = NoMessage]
        /\ owed' = [owed EXCEPT ![i] = @ \ {mailbox[i]}]
        /\ UNCHANGED ipc
    BY <1>1 DEF receive_message
  <2>2. MailTypeOK'
    BY <1>0, <2>1 DEF MailInv, MailTypeOK
  <2>3. \A k \in Slots : mailbox'[k] # NoMessage => mailbox'[k] = mailbox[k]
    BY <1>0, <2>1
  <2>4. \A k \in Slots : ipc[k].dest \in Slots
    BY <1>0 DEF Call
  <2>5. \A k \in Slots : ipc'[k].pc = "store" /\ ipc'[k].dest \notin raced'
          => /\ mailbox'[ipc'[k].dest] = NoMessage
             /\ \A j \in Slots : j # k => ipc'[j] # [pc |-> "store", dest |-> ipc'[k].dest]
    BY <1>0, <2>1, <2>3, <2>4 DEF MailInv
  <2>6. MessageKept'
    BY <1>0, <2>1 DEF MailInv, MessageKept
  <2> QED BY <1>0, <2>1, <2>2, <2>3, <2>5, <2>6 DEF MailInv
<1>2. CASE mailbox[i] = NoMessage
  <2>1. ipc' = [ipc EXCEPT ![i].pc = "block"] /\ UNCHANGED <<mailbox, owed>>
    BY <1>2 DEF receive_message
  <2>2. /\ ipc'[i] = [pc |-> "block", dest |-> ipc[i].dest]
        /\ \A j \in Slots \ {i} : ipc'[j] = ipc[j]
    BY <1>0, <2>1 DEF Call
  <2>3. MailTypeOK'
    BY <1>0, <2>1, <2>2 DEF MailInv, MailTypeOK, Call
  <2>4. \A k \in Slots : ipc'[k].pc = "store" => ipc'[k] = ipc[k]
    BY <2>2
  <2>5. \A k \in Slots : ipc'[k].pc = "store" /\ ipc'[k].dest \notin raced'
          => /\ mailbox'[ipc'[k].dest] = NoMessage
             /\ \A j \in Slots : j # k => ipc'[j] # [pc |-> "store", dest |-> ipc'[k].dest]
    BY <1>0, <2>1, <2>2, <2>4 DEF MailInv
  <2>6. ASSUME NEW k \in Slots \ missed', mailbox'[k] # NoMessage,
               state'[k] = "Blocked" \/ ipc'[k].pc = "block"
        PROVE  \E j \in Slots : ipc'[j] = [pc |-> "wake", dest |-> k]
    <3>1. k # i
      BY <1>2, <2>1, <2>6
    <3>2. PICK j \in Slots : ipc[j] = [pc |-> "wake", dest |-> k]
      BY <1>0, <2>1, <2>2, <2>6, <3>1 DEF MailInv
    <3> QED BY <1>0, <2>2, <3>2
  <2>7. \A k \in Slots : ipc'[k].pc \in {"block", "yield"} => k = 1
    BY <1>0, <2>2 DEF MailInv
  <2>8. MessageKept'
    BY <1>0, <2>1 DEF MailInv, MessageKept
  <2> QED BY <2>3, <2>5, <2>6, <2>7, <2>8 DEF MailInv
<1> QED BY <1>1, <1>2

\* A thread that blocks has looked into its mailbox before.
LEMMA BlockMailInv ==
  ASSUME MailInv, NEW i \in Slots, Block(i), state \in [Slots -> TaskState]
  PROVE  MailInv'
<1>1. /\ ipc[i].pc = "block"
      /\ state' = [state EXCEPT ![i] = "Blocked"]
      /\ ipc' = [ipc EXCEPT ![i].pc = "yield"]
      /\ UNCHANGED <<mailbox, owed, raced, missed>>
  BY DEF Block
<1>2. /\ ipc \in [Slots -> Call] /\ ipc'[i] = [pc |-> "yield", dest |-> ipc[i].dest]
      /\ \A j \in Slots \ {i} : ipc'[j] = ipc[j]
  BY <1>1 DEF MailInv, MailTypeOK, Call
<1>3. MailTypeOK'
  BY <1>1, <1>2 DEF MailInv, MailTypeOK, Call
<1>4. \A k \in Slots : ipc'[k].pc \in {"block", "yield"} => k = 1
  BY <1>1, <1>2 DEF MailInv
<1>5. \A k \in Slots : ipc'[k].pc = "store" /\ ipc'[k].dest \notin raced'
        => /\ mailbox'[ipc'[k].dest] = NoMessage
           /\ \A j \in Slots : j # k => ipc'[j] # [pc |-> "store", dest |-> ipc'[k].dest]
  BY <1>1, <1>2 DEF MailInv
<1>6. ASSUME NEW k \in Slots \ missed', mailbox'[k] # NoMessage,
             state'[k] = "Blocked" \/ ipc'[k].pc = "block"
      PROVE  \E j \in Slots : ipc'[j] = [pc |-> "wake", dest |-> k]
  <2>1. state[k] = "Blocked" \/ ipc[k].pc = "block"
    BY <1>1, <1>2, <1>6
  <2>2. PICK j \in Slots : ipc[j] = [pc |-> "wake", dest |-> k]
    BY <1>1, <1>6, <2>1 DEF MailInv
  <2> QED BY <1>1, <1>2, <2>2
<1>7. MessageKept'
  BY <1>1 DEF MailInv, MessageKept
<1> QED BY <1>3, <1>4, <1>5, <1>6, <1>7 DEF MailInv

\* No step of the scheduler itself blocks a slot.
LEMMA NextBlocksNobody ==
  ASSUME IndInv, Next, NEW d \in Slots, state'[d] = "Blocked"
  PROVE  state[d] = "Blocked"
<1>0. state \in [Slots -> TaskState]
  BY DEF IndInv, TypeOK
<1>1. ASSUME NEW st, st \in [Slots -> TaskState], run_schedule(st)
      PROVE  st[d] = "Blocked"
  <2> DEFINE saved == IF st[CURRENT_TASK] = "Running"
                        THEN [st EXCEPT ![CURRENT_TASK] = "Ready"] ELSE st
  <2>1. saved \in [Slots -> TaskState] /\ (saved[d] = "Blocked" => st[d] = "Blocked")
    BY <1>1 DEF TaskState
  <2>2. state' = saved \/ \E n \in Slots : state' = [saved EXCEPT ![n] = "Running"]
    BY <1>1 DEF run_schedule, Dispatch
  <2> HIDE DEF saved
  <2>3. saved[d] = "Blocked"
    BY <2>1, <2>2
  <2> QED BY <2>1, <2>3
<1>2. CASE Tick
  BY <1>0, <1>1, <1>2 DEF Tick
<1>3. CASE exit
  <2> DEFINE st == [state EXCEPT ![CURRENT_TASK] = "Terminated"]
  <2>1. st \in [Slots -> TaskState] /\ (st[d] = "Blocked" => state[d] = "Blocked")
    BY <1>0 DEF TaskState
  <2>2. run_schedule(st)
    BY <1>3 DEF exit
  <2> HIDE DEF st
  <2> QED BY <1>1, <2>1, <2>2
<1>4. CASE FaultSpins \/ Crash \/ Halted
  BY <1>4 DEF FaultSpins, Crash, Halted, vars
<1>5. CASE Spawner
  BY <1>0, <1>5 DEF Spawner, spawn, LockPmm, UnlockPmm, AllocateIsolatedPageTable, LoadElf,
     Scan, InitFdTable, InitRoot, InitOwns, InitRing3, InitFrame, Publish
<1> QED BY <1>2, <1>3, <1>4, <1>5 DEF Next

\* Every step preserves the scheduler's invariant and the one of the mailboxes.
LEMMA MailNextInv ==
  IndInv /\ MailInv /\ [MNext]_allvars => (IndInv /\ MailInv)'
<1> SUFFICES ASSUME IndInv, MailInv, [MNext]_allvars PROVE IndInv' /\ MailInv'
  OBVIOUS
<1>0. state \in [Slots -> TaskState]
  BY DEF IndInv, TypeOK
<1>1. CASE SchedulerStep
  <2>1. IndInv'
    BY <1>1, NextIndInv DEF SchedulerStep
  <2>2. \A d \in Slots : state'[d] = "Blocked" => state[d] = "Blocked"
    BY <1>1, NextBlocksNobody DEF SchedulerStep
  <2>3. UNCHANGED <<mailbox, ipc, owed, raced, missed>>
    BY <1>1 DEF SchedulerStep, mail
  <2> QED BY <2>1, <2>2, <2>3 DEF MailInv, MailTypeOK, MessageKept
<1>2. ASSUME NEW i \in {0, 1},
             (\E d \in Dest : send_message(i, d)) \/ StoreMessage(i) \/ receive_message(i)
      PROVE  IndInv' /\ MailInv'
  <2>1. i \in Slots
    <3>1. i = CURRENT_TASK
      BY <1>2 DEF send_message, StoreMessage, receive_message, Runs
    <3> QED BY <3>1 DEF IndInv, TypeOK
  <2>2. UNCHANGED vars
    BY <1>2 DEF send_message, StoreMessage, receive_message
  <2>3. IndInv'
    BY <2>2, NextIndInv
  <2> QED BY <1>2, <2>1, <2>3, SendMailInv, StoreMailInv, ReceiveMailInv
<1>3. ASSUME NEW i \in {0, 1}, Wake(i) \/ Block(i)
      PROVE  IndInv' /\ MailInv'
  <2>1. i \in Slots
    <3>1. i = CURRENT_TASK
      BY <1>3 DEF Wake, Block, Runs
    <3> QED BY <3>1 DEF IndInv, TypeOK
  <2> QED BY <1>0, <1>3, <2>1, MailKeepsIndInv, WakeMailInv, BlockMailInv
<1>4. CASE UNCHANGED allvars
  <2>1. IndInv'
    BY <1>4, NextIndInv DEF allvars
  <2> QED BY <1>4, <2>1 DEF allvars, vars, mail, MailInv, MailTypeOK, MessageKept
<1> QED BY <1>1, <1>2, <1>3, <1>4 DEF MNext

\* With the mailboxes in use the scheduler's inductive invariant still holds:
\* the current slot is the Running one or has just blocked, the shell survives,
\* no page table in use is freed unless a slot ran without a frame of its own.
THEOREM IndInvWithMail == MSpec => []IndInv
<1> QED BY MailInitInv, MailNextInv, PTL DEF MSpec

\* What is proved of the scheduler alone stays true when tasks also block in
\* receive_message and are woken by send_message.
THEOREM SchedulerWithMail ==
  MSpec => [](CpuMatchesTable /\ ShellSurvives /\ OwnershipSound)
<1>1. IndInv => CpuMatchesTable /\ ShellSurvives /\ OwnershipSound
  BY DEF IndInv
<1> QED BY <1>1, IndInvWithMail, PTL

\* No stored message is overwritten or received twice, for every number of slots
\* and every choice of destinations, but when two senders race for one mailbox.
THEOREM MessageKeptHolds == MSpec => []MessageKept
<1>1. MailInv => MessageKept
  BY DEF MailInv
<1> QED BY <1>1, MailInitInv, MailNextInv, PTL DEF MSpec

\* A task sleeps over a message only between the store and the wake-up of its
\* sender, or because that wake-up came before it was Blocked.
THEOREM WokenUpHolds == MSpec => []WokenUp
<1>1. MailInv => WokenUp
  BY DEF MailInv, WokenUp
<1> QED BY <1>1, MailInitInv, MailNextInv, PTL DEF MSpec
================================================================================
