----------------------------- MODULE AddressSpace ------------------------------
(***************************************************************************)
(* Physical frames and page tables: the bitmap allocator of                *)
(* src/src/memory.rs, map_page, unmap_page, handle_page_fault and          *)
(* free_process_page_table of src/src/vmm.rs, and the calls that build and *)
(* change an address space: spawn_from_elf with load_elf_to_process and    *)
(* allocate_user_stack, sys_munmap, and the teardown of an exited process. *)
(*                                                                         *)
(* The levels between the root and the leaf are folded into one table: a   *)
(* root entry (Top) names a table, a table entry (Page) names a data       *)
(* frame.  The shell builds one address space at a time and can be         *)
(* preempted between any two frames it takes; traps of processes run with  *)
(* interrupts masked and are one step each.                                *)
(***************************************************************************)
EXTENDS Naturals, FiniteSets

CONSTANTS
  Frame,        \* frames the bitmap tracks, frame 0 excepted
  Arch,         \* the targets: "x86_64", "aarch64"
  Top,          \* indices of a root
  UserTop,      \* the index of USER_SPACE_BASE
  HighTop,      \* an index of the high half
  Page,         \* indices of a table
  SegmentPage,  \* the page of the kernel's table that the kernel uses
  StackPage,    \* the page of the user stack
  Slot          \* task slots for processes

\* Boot occupies three frames: the kernel root, the table under its entry
\* KernelTop, and a page of the kernel mapped by that table.
KernelRoot == 1
KernelTable == 2
KernelPage == 3
KernelFrames == {KernelRoot, KernelTable, KernelPage}

ASSUME FrameAssumption == Frame \subseteq Nat \ {0} /\ KernelFrames \subseteq Frame
ASSUME TopAssumption ==
  /\ Arch \subseteq {"x86_64", "aarch64"}
  /\ Top \subseteq Nat /\ {0, UserTop, HighTop} \subseteq Top
  /\ 0 \notin {UserTop, HighTop} /\ UserTop # HighTop
  /\ Page \subseteq Nat /\ {SegmentPage, StackPage} \subseteq Page
  /\ \A lo, hi \in Page : lo .. hi \subseteq Page

VARIABLES
  arch,        \* the target the kernel is built for
  bitmap,      \* the frames that are reserved
  entries,     \* every frame read as a page table; 0 is a non-present entry
  task,        \* per slot: alive, memory_root, owns_memory_root
  spawner,     \* the spawn_from_elf in progress
  failed,      \* history: some allocation or mapping has failed
  kernelLost   \* history: a frame of the kernel has been freed, or a page has been
               \* unmapped from its table

vars == <<arch, bitmap, entries, task, spawner, failed, kernelLost>>

\* The index at which the kernel root is populated once boot is over: the high
\* half on x86_64, where the identity map at index 0 has been torn down, and
\* the identity map at index 0 on aarch64.
KernelTop == IF arch = "x86_64" THEN HighTop ELSE 0

Blank == [i \in Top \cup Page |-> 0]
Idle == [pc |-> "idle", root |-> 0, owns |-> FALSE, stack |-> FALSE, frame |-> 0]
Dead == [alive |-> FALSE, root |-> 0, owns |-> FALSE]

Init ==
  /\ arch \in Arch
  /\ bitmap = KernelFrames
  /\ entries = [f \in Frame |->
       IF f = KernelRoot THEN [Blank EXCEPT ![KernelTop] = KernelTable]
       ELSE IF f = KernelTable THEN [Blank EXCEPT ![SegmentPage] = KernelPage]
       ELSE Blank]
  /\ task = [s \in Slot |-> Dead]
  /\ spawner = Idle
  /\ failed = FALSE
  /\ kernelLost = FALSE

--------------------------------------------------------------------------------
(* The frame allocator *)

OutOfFrames == bitmap = Frame

\* Mutant of allocate_next_frame: off by one, the bit below the lowest clear one.
allocate_next_frameOffByOne(b) == (CHOOSE f \in Frame \ b : \A g \in Frame \ b : f <= g) - 1

\* allocate_next_frame takes the lowest clear bit.
allocate_next_frame(b) == CHOOSE f \in Frame \ b : \A g \in Frame \ b : f <= g

\* A frame is zeroed before it is used as a root, a table or a page.
Zeroed(e, f) == [e EXCEPT ![f] = Blank]

\* Frames go back to the allocator; the contents stay.
Free(fs) ==
  /\ bitmap' = bitmap \ fs
  /\ kernelLost' = (kernelLost \/ fs \cap KernelFrames # {})

--------------------------------------------------------------------------------
(* map_page *)

\* next_table: a root entry that is not present gets a zeroed table of its own.
next_table(b, e, root, top) ==
  LET t == allocate_next_frame(b) IN
  IF e[root][top] # 0 THEN [ok |-> TRUE, bitmap |-> b, entries |-> e]
  ELSE IF b = Frame THEN [ok |-> FALSE, bitmap |-> b, entries |-> e]
  ELSE [ok |-> TRUE, bitmap |-> b \cup {t}, entries |-> [Zeroed(e, t) EXCEPT ![root][top] = t]]

\* map_page on root for the page at (top, page): the reserved frames, the
\* tables and the verdict it leaves.  A table that next_table has linked stays
\* when the leaf turns out to be present.
map_page(b, e, root, top, page, frame) ==
  LET n == next_table(b, e, root, top)
      t == n.entries[root][top]
  IN CASE ~n.ok -> n
       [] n.ok /\ n.entries[t][page] # 0 -> [n EXCEPT !.ok = FALSE]
       [] OTHER -> [n EXCEPT !.entries[t][page] = frame]

\* translate_addr, for a page whose table is present; 0 is None.
translate_addr(root, top, page) == entries[entries[root][top]][page]

Present(root, top, page) == entries[root][top] # 0 /\ translate_addr(root, top, page) # 0

\* unmap_page for every page of a range: the leaf goes, its table stays.
unmap_page(root, top, pages) ==
  [entries EXCEPT ![entries[root][top]] =
     [i \in DOMAIN @ |-> IF i \in pages THEN 0 ELSE @[i]]]

\* A range is refused if it has a hole or holds a page of the kernel, the only
\* one that is not user accessible.  The test against USER_SPACE_BASE excludes no
\* index: an address above 2^48 passes it and may have any.
validate_user_range(root, top, pages) ==
  /\ \A p \in pages : Present(root, top, p) /\ translate_addr(root, top, p) # KernelPage

--------------------------------------------------------------------------------
(* spawn_from_elf, run by the shell on the kernel root *)

\* create_process_page_table copies the kernel's root entry by entry; without
\* a frame the process shares the kernel root itself.
AllocateIsolatedPageTable ==
  /\ spawner.pc = "idle"
  /\ IF OutOfFrames
       THEN /\ spawner' = [Idle EXCEPT !.pc = "alloc", !.root = KernelRoot]
            /\ failed' = TRUE
            /\ UNCHANGED <<bitmap, entries>>
       ELSE LET r == allocate_next_frame(bitmap) IN
            /\ spawner' = [Idle EXCEPT !.pc = "alloc", !.root = r, !.owns = TRUE]
            /\ bitmap' = bitmap \cup {r}
            /\ entries' = [entries EXCEPT ![r] = entries[KernelRoot]]
            /\ UNCHANGED failed
  /\ UNCHANGED <<arch, task, kernelLost>>

\* The frame of the next page, of a segment or of the stack.
AllocPage ==
  /\ spawner.pc = "alloc"
  /\ IF OutOfFrames
       THEN /\ spawner' = Idle
            /\ failed' = TRUE
            /\ UNCHANGED <<bitmap, entries>>
       ELSE LET f == allocate_next_frame(bitmap) IN
            /\ spawner' = [spawner EXCEPT !.pc = "map", !.frame = f]
            /\ bitmap' = bitmap \cup {f}
            /\ entries' = Zeroed(entries, f)
            /\ UNCHANGED failed
  /\ UNCHANGED <<arch, task, kernelLost>>

\* After any number of segment pages comes the stack.
LoadedElf ==
  /\ spawner.pc = "alloc" /\ ~spawner.stack
  /\ spawner' = [spawner EXCEPT !.stack = TRUE]
  /\ UNCHANGED <<arch, bitmap, entries, task, failed, kernelLost>>

\* A malformed image is refused, whatever has been built so far.
RefuseElf ==
  /\ spawner.pc = "alloc" /\ ~spawner.stack
  /\ spawner' = Idle
  /\ failed' = TRUE
  /\ UNCHANGED <<arch, bitmap, entries, task, kernelLost>>

\* A segment is refused below USER_SPACE_BASE and has no upper bound, so its
\* page can have any index, that of the kernel included.
MapPage(top, page) ==
  /\ spawner.pc = "map"
  /\ spawner.stack => top = UserTop /\ page = StackPage
  /\ LET m == map_page(bitmap, entries, spawner.root, top, page, spawner.frame) IN
     /\ bitmap' = m.bitmap
     /\ entries' = m.entries
     /\ spawner' = IF m.ok THEN [spawner EXCEPT !.pc = IF spawner.stack THEN "register" ELSE "alloc",
                                                 !.frame = 0]
                   ELSE Idle
     /\ failed' = (failed \/ ~m.ok)
  /\ UNCHANGED <<arch, task, kernelLost>>

\* spawn_isolated_at; without a free slot the address space is dropped.
Register ==
  /\ spawner.pc = "register"
  /\ IF \E s \in Slot : ~task[s].alive
       THEN /\ \E s \in Slot :
                 /\ ~task[s].alive
                 /\ task' = [task EXCEPT ![s] = [alive |-> TRUE, root |-> spawner.root,
                                                 owns |-> spawner.owns]]
            /\ UNCHANGED failed
       ELSE /\ failed' = TRUE
            /\ UNCHANGED task
  /\ spawner' = Idle
  /\ UNCHANGED <<arch, bitmap, entries, kernelLost>>

--------------------------------------------------------------------------------
(* Traps of a process *)

\* Mutant of Teardown: the table frames are forgotten.
TeardownLeavesOnly(root) ==
  LET tables == {entries[root][i] : i \in Top \ {0}} \ {0}
      pages == (UNION {{entries[t][p] : p \in Page} : t \in tables}) \ {0}
  IN pages \cup {root}

\* free_process_page_table: everything below the root except index 0, then
\* the root.
Teardown(root) ==
  LET tables == {entries[root][i] : i \in Top \ {0}} \ {0}
      pages == (UNION {{entries[t][p] : p \in Page} : t \in tables}) \ {0}
  IN pages \cup tables \cup {root}

\* exit and the run_schedule behind it.
exit(s) ==
  /\ task[s].alive
  /\ task' = [task EXCEPT ![s] = Dead]
  /\ Free(IF task[s].owns THEN Teardown(task[s].root) ELSE {})
  /\ UNCHANGED <<arch, entries, spawner, failed>>

\* A fault on a page that is not present maps a fresh frame, wherever it is;
\* when that fails the process is terminated, and a frame taken for it is not
\* returned.
PageFault(s, top, page) ==
  /\ arch = "x86_64" /\ task[s].alive
  /\ UNCHANGED arch
  /\ ~Present(task[s].root, top, page)
  /\ IF OutOfFrames
       THEN /\ failed' = TRUE
            /\ task' = [task EXCEPT ![s] = Dead]
            /\ Free(IF task[s].owns THEN Teardown(task[s].root) ELSE {})
            /\ UNCHANGED <<entries, spawner>>
       ELSE LET f == allocate_next_frame(bitmap)
                m == map_page(bitmap \cup {f}, Zeroed(entries, f), task[s].root, top, page, f)
                dead == IF ~m.ok /\ task[s].owns THEN Teardown(task[s].root) ELSE {}
            IN /\ bitmap' = m.bitmap \ dead
               /\ entries' = m.entries
               /\ task' = IF m.ok THEN task ELSE [task EXCEPT ![s] = Dead]
               /\ failed' = (failed \/ ~m.ok)
               /\ kernelLost' = (kernelLost \/ dead \cap KernelFrames # {})
               /\ UNCHANGED spawner

\* On aarch64 a fault of a process always ends it.
handle_el0_sync_trap(s, top, page) ==
  /\ arch = "aarch64" /\ task[s].alive
  /\ ~Present(task[s].root, top, page)
  /\ exit(s)

\* Mutant of sys_munmap: frees the frames but leaves them mapped.
sys_munmapKeepsEntry(s, top, pages) ==
  /\ arch = "aarch64" /\ task[s].alive
  /\ validate_user_range(task[s].root, top, pages)
  /\ Free({translate_addr(task[s].root, top, p) : p \in pages})
  /\ UNCHANGED <<arch, entries, task, spawner, failed>>

\* A system call of a process.  On x86_64 the gate of int 0x80 has privilege
\* level 0, so that ring 3 gets a general protection fault, and exit, instead.
sys_munmap(s, top, pages) ==
  /\ arch = "aarch64" /\ task[s].alive
  /\ validate_user_range(task[s].root, top, pages)
  /\ LET fs == {translate_addr(task[s].root, top, p) : p \in pages} IN
     /\ bitmap' = bitmap \ fs
     /\ kernelLost' = (kernelLost \/ fs \cap KernelFrames # {} \/ top = KernelTop)
  /\ entries' = unmap_page(task[s].root, top, pages)
  /\ UNCHANGED <<arch, task, spawner, failed>>

--------------------------------------------------------------------------------
Next ==
  \/ AllocateIsolatedPageTable \/ AllocPage \/ LoadedElf \/ RefuseElf \/ Register
  \/ \E top \in Top, page \in Page : MapPage(top, page)
  \/ \E s \in Slot :
       \/ exit(s)
       \/ \E top \in Top, page \in Page :
            PageFault(s, top, page) \/ handle_el0_sync_trap(s, top, page)
       \/ \E top \in Top, lo, hi \in Page : lo <= hi /\ sys_munmap(s, top, lo .. hi)

Spec == Init /\ [][Next]_vars

\* What tells two states apart: a frame that is free is zeroed or overwritten
\* before it is read again, as long as NoUseAfterFree holds.
InUse == <<arch, bitmap, [f \in bitmap |-> entries[f]], task, spawner, failed, kernelLost>>

--------------------------------------------------------------------------------
(* Properties *)

\* What a root reaches through the indices in tops.
Reach(root, tops) ==
  LET tables == {entries[root][i] : i \in tops} \ {0}
  IN tables \cup ((UNION {{entries[t][p] : p \in Page} : t \in tables}) \ {0})

\* An address space that belongs to one process: the owner is a slot, or the
\* spawn in progress.
Owned ==
  {task[s].root : s \in {s \in Slot : task[s].alive /\ task[s].owns}}
    \cup (IF spawner.owns THEN {spawner.root} ELSE {})
Private(root) == {root} \cup Reach(root, Top \ {KernelTop})
InHand == IF spawner.frame # 0 THEN {spawner.frame} ELSE {}

\* The kernel still has its frames, and nothing but the kernel has been mapped
\* through its root or its table.  A spawn that falls back to the kernel root
\* ends this, a segment or a demand-paged page at the kernel's index ends it,
\* and so does every teardown on x86_64 (KernelReachReserved).
Undamaged ==
  /\ ~kernelLost
  /\ \A i \in Top \ {KernelTop} : entries[KernelRoot][i] = 0
  /\ \A p \in Page \ {SegmentPage} : entries[KernelTable][p] = 0

\* No frame in use is free: whatever the kernel root, a process or the spawn
\* in progress can reach is reserved in the bitmap, so no other allocation
\* can be given it.
NoUseAfterFree ==
  Undamaged =>
    /\ \A r \in Owned : Private(r) \subseteq bitmap
    /\ InHand \subseteq bitmap
    /\ KernelFrames \subseteq bitmap

\* Address spaces are disjoint, from each other and from the kernel, until
\* something is mapped through the kernel's own tables.
Isolated ==
  Undamaged =>
    /\ \A s, u \in Slot : task[s].alive /\ task[u].alive /\ s # u /\ task[s].owns /\ task[u].owns
                             => task[s].root # task[u].root
    /\ \A q, r \in Owned : q # r => Private(q) \cap Private(r) = {}
    /\ \A r \in Owned : Private(r) \cap (KernelFrames \cup InHand) = {}

\* No frame leaks as long as nothing fails: a reserved frame is the kernel's
\* or belongs to a process or to the spawn in progress.
NothingLost ==
  ~failed /\ Undamaged =>
    bitmap \subseteq KernelFrames \cup InHand \cup UNION {Private(r) : r \in Owned}

\* What the doc comment of free_process_page_table guarantees: the teardown
\* never frees what is reachable from the kernel root, because every index it
\* walks is empty or private to the one process.
KernelReachReserved ==
  {KernelRoot} \cup Reach(KernelRoot, Top) \subseteq bitmap
================================================================================
