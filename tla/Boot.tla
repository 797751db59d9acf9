---------------------------------- MODULE Boot ----------------------------------
(***************************************************************************)
(* The x86_64 boot path of kmain_common (src/src/main.rs) up to the point  *)
(* where the low identity map is gone: the frame bitmap is filled from the *)
(* bootloader's memory map, the MADT is parsed, hal::smp starts the        *)
(* application processors one by one, boot memory is reclaimed and the     *)
(* identity map is torn down.  The boot processor (BSP) runs this in       *)
(* program order; every application processor (AP) runs the trampoline and *)
(* rust_ap_entry at its own pace, and can lag behind the time the BSP      *)
(* allows it.                                                              *)
(*                                                                         *)
(* Physical memory is a set of regions, one for each purpose that boot     *)
(* tells apart.                                                            *)
(***************************************************************************)
EXTENDS Acpi, Functions

CONSTANTS
  Firmwares,  \* what firmware and bootloader may have left (see Acpi)
  ApicId,     \* local APIC ids
  Bsp,        \* the id of the boot processor
  X2APIC,     \* USE_X2APIC: the processors have 32-bit ids, else 8-bit ones
  HeapStacks, \* AP stacks the heap has room for
  None        \* no value

ASSUME BootAssumption ==
  /\ MAX_CPUS \in Nat \ {0} /\ HeapStacks \in Nat /\ X2APIC \in BOOLEAN
  /\ Bsp \in ApicId /\ ApicId \subseteq (IF X2APIC THEN Nat ELSE 0 .. 255)

\* What is in memory is read as what the code takes it for: whatever lies at an
\* address, a descriptor, a list of table addresses or a list of MADT entries
\* can be read there.
RsdpDescriptor ==
  [signature : BOOLEAN, checksum : BOOLEAN, full_length : BOOLEAN,
   extended_checksum : BOOLEAN, revision : Nat, rsdt : Nat, xsdt : Nat]
MadtEntry ==
  [type : {"lapic", "x2apic", "other"}, length : {"full", "short", "invalid"},
   apic_id : ApicId, enabled : BOOLEAN, online_capable : BOOLEAN]
Readable(fw) ==
  /\ fw.limine.direct \in RsdpDescriptor /\ fw.limine.mapped \in RsdpDescriptor
  /\ fw.ebda \in Seq(RsdpDescriptor) /\ fw.rom \in Seq(RsdpDescriptor)
  /\ \A t \in Range(fw.tables) :
       /\ t.signature \in {"XSDT", "RSDT"} => t.entries \in Seq(DOMAIN fw.tables)
       /\ t.signature = "APIC" => t.entries \in Seq(MadtEntry)
  /\ \A d \in {fw.limine.direct, fw.limine.mapped} \cup Range(fw.ebda) \cup Range(fw.rom) :
       {d.rsdt, d.xsdt} \ {0} \subseteq DOMAIN fw.tables

ASSUME FirmwareAssumption == \A fw \in Firmwares : Readable(fw)

VARIABLES
  pc,            \* where the BSP is
  memmap,        \* the type of every region in the memory map, or none
  bitmap,        \* the regions that are reserved in PHYSICAL_PMM
  given,         \* history: the regions vmm_alloc_frame has handed out
  firmware,      \* what firmware and bootloader left in memory
  todo,          \* the CPUs start_aps has still to start
  cpu_index,     \* the index of the next one
  params,        \* stack_top and cpu_index in the parameter block of the trampoline
  AP_ONLINE,
  started,
  CPUS_ONLINE,
  identity,      \* PML4[0], the low identity map, is present
  ap,            \* per AP: where it is, its stack and its cpu_index
  abandoned      \* history: the APs start_one_ap has given up on

bsp == <<pc, todo, cpu_index, params, started, CPUS_ONLINE, abandoned>>
memory == <<memmap, bitmap, given>>
vars == <<bsp, memory, firmware, AP_ONLINE, identity, ap>>

Ap == ApicId \ {Bsp}
Index == 0 .. MAX_CPUS - 1

--------------------------------------------------------------------------------
(* Physical memory: a region stands for a frame of its kind. *)

Region == {"low", "kernel", "ramdisk", "heap", "acpi", "loader", "free"}
Fixed == [kernel |-> "executable", ramdisk |-> "executable", acpi |-> "acpi",
          loader |-> "loader", free |-> "usable"]

\* The loader places the image and the module; low memory and the range the
\* kernel uses as its heap are wherever they are, whatever the map says.
MemoryMaps ==
  {[r \in Region |-> IF r = "low" THEN l ELSE IF r = "heap" THEN h ELSE Fixed[r]] :
     l \in {"usable", "loader", "reserved"},
     h \in {"usable", "loader", "acpi", "reserved"}}
NoMap == [r \in Region |-> None]

OfType(types) == {r \in Region : memmap[r] \in types}

--------------------------------------------------------------------------------
(* Which processors to start *)

Startable(c) == c.apic_id # Bsp /\ c.enabled

\* The CPUs that the loop of start_aps starts, in order.
Starts(cpus) == Keep(cpus, FirstCpus({i \in DOMAIN cpus : Startable(cpus[i])}))

--------------------------------------------------------------------------------
Off == [pc |-> "off", stack |-> None, index |-> None]

Init ==
  /\ pc = "init_pmm"
  /\ memmap \in MemoryMaps \cup {NoMap}
  /\ bitmap = Region
  /\ given = {}
  /\ firmware \in Firmwares
  /\ todo = << >>
  /\ cpu_index = 0
  /\ params = [stack |-> None, index |-> None]
  /\ AP_ONLINE = [i \in Index |-> FALSE]
  /\ started = 0
  /\ CPUS_ONLINE = 1
  /\ identity = TRUE
  /\ ap = [a \in Ap |-> Off]
  /\ abandoned = {}

--------------------------------------------------------------------------------
(* The BSP: memory *)

\* Without a memory map the call fails, boot goes on and no frame is ever free.
init_pmm_from_limine ==
  /\ pc = "init_pmm"
  /\ bitmap' = IF memmap = NoMap THEN bitmap ELSE (bitmap \ OfType({"usable"})) \cup {"low"}
  /\ pc' = "protect"
  /\ UNCHANGED <<memmap, given, firmware, todo, cpu_index, params, AP_ONLINE, started,
                 CPUS_ONLINE, identity, ap, abandoned>>

\* Mutant of protect_boot_memory: the heap is left out.
protect_boot_memoryNoHeap ==
  /\ pc = "protect"
  /\ bitmap' = bitmap \cup {"low", "kernel", "ramdisk"}
  /\ pc' = "hal"
  /\ UNCHANGED <<memmap, given, firmware, todo, cpu_index, params, AP_ONLINE, started,
                 CPUS_ONLINE, identity, ap, abandoned>>

protect_boot_memory ==
  /\ pc = "protect"
  /\ bitmap' = bitmap \cup {"low", "kernel", "heap", "ramdisk"}
  /\ pc' = "hal"
  /\ UNCHANGED <<memmap, given, firmware, todo, cpu_index, params, AP_ONLINE, started,
                 CPUS_ONLINE, identity, ap, abandoned>>

hal_init ==
  /\ pc = "hal"
  /\ \/ rsdp_faults(firmware) /\ pc' = "fault" /\ UNCHANGED todo
     \/ /\ ~rsdp_faults(firmware) /\ pc' = "next"
        /\ \E entries \in {acpi_init(firmware)} : \E cpus \in {parse(entries)} :
             todo' = Starts(cpus)
  /\ UNCHANGED <<memory, firmware, cpu_index, params, AP_ONLINE, started, CPUS_ONLINE,
                 identity, ap, abandoned>>

reclaim_boot_memory ==
  /\ pc = "reclaim"
  /\ bitmap' = IF memmap = NoMap THEN bitmap
               ELSE (bitmap \ OfType({"acpi", "loader"})) \cup {"low"}
  /\ pc' = "unmap"
  /\ UNCHANGED <<memmap, given, firmware, todo, cpu_index, params, AP_ONLINE, started,
                 CPUS_ONLINE, identity, ap, abandoned>>

unmap_low_half_identity_map ==
  /\ pc = "unmap"
  /\ identity' = FALSE
  /\ pc' = "up"
  /\ UNCHANGED <<memory, firmware, todo, cpu_index, params, AP_ONLINE, started, CPUS_ONLINE,
                 ap, abandoned>>

\* The kernel runs, and takes frames.
vmm_alloc_frame ==
  /\ pc = "up"
  /\ \E r \in Region \ bitmap :
       /\ bitmap' = bitmap \cup {r}
       /\ given' = given \cup {r}
  /\ UNCHANGED <<bsp, memmap, firmware, AP_ONLINE, identity, ap>>

\* Boot is over, in one way or another.
Up == pc \in {"up", "fault", "panic", "stuck"} /\ UNCHANGED vars

--------------------------------------------------------------------------------
(* The BSP: start_aps *)

\* start_one_ap for the next CPU of the list begins with a fresh stack, named
\* here by the index it is for and never given back; when the heap has no room
\* for it the kernel panics.  The loop ends with the count of those started.
NextCpu ==
  /\ pc = "next"
  /\ \/ /\ todo = << >> /\ pc' = "reclaim"
        /\ CPUS_ONLINE' = CPUS_ONLINE + started
        /\ UNCHANGED params
     \/ /\ todo # << >> /\ cpu_index < HeapStacks /\ pc' = "params"
        /\ params' = [params EXCEPT !.stack = cpu_index]
        /\ UNCHANGED CPUS_ONLINE
     \/ /\ todo # << >> /\ cpu_index >= HeapStacks /\ pc' = "panic"
        /\ UNCHANGED <<params, CPUS_ONLINE>>
  /\ UNCHANGED <<memory, firmware, todo, cpu_index, AP_ONLINE, started, identity, ap,
                 abandoned>>

WriteIndex ==
  /\ pc = "params"
  /\ params' = [params EXCEPT !.index = cpu_index]
  /\ AP_ONLINE' = [AP_ONLINE EXCEPT ![cpu_index] = FALSE]
  /\ pc' = "init"
  /\ UNCHANGED <<memory, firmware, todo, cpu_index, started, CPUS_ONLINE, identity, ap,
                 abandoned>>

\* The processor send_icr addresses: the xAPIC's ICR has 8 bits for it.
icr_dest(apic_id) == IF X2APIC THEN apic_id ELSE apic_id % 256

send_init ==
  /\ pc = "init"
  /\ ap' = [ap EXCEPT ![icr_dest(Head(todo).apic_id)] = [Off EXCEPT !.pc = "wait"]]
  /\ pc' = "startup1"
  /\ UNCHANGED <<memory, firmware, todo, cpu_index, params, AP_ONLINE, started, CPUS_ONLINE,
                 identity, abandoned>>

\* A core that waits for it starts at the trampoline page, at once or later; a
\* Startup IPI can go unnoticed, and one to a running core is ignored.
send_startup ==
  /\ pc \in {"startup1", "startup2"}
  /\ LET a == icr_dest(Head(todo).apic_id) IN
     \/ ap[a].pc = "wait" /\ ap' = [ap EXCEPT ![a].pc = "real"]
     \/ UNCHANGED ap
  /\ pc' = IF pc = "startup1" THEN "wait1" ELSE "wait2"
  /\ UNCHANGED <<memory, firmware, todo, cpu_index, params, AP_ONLINE, started, CPUS_ONLINE,
                 identity, abandoned>>

\* wait_icr_idle after an IPI and pit_delay_us after it have no limit: if the
\* local APIC never reports the delivery, or the PIT never counts down, the BSP
\* stays in there.
wait_icr_idle ==
  /\ pc \in {"startup1", "wait1", "wait2"}
  /\ pc' = "stuck"
  /\ UNCHANGED <<memory, firmware, todo, cpu_index, params, AP_ONLINE, started, CPUS_ONLINE,
                 identity, ap, abandoned>>

\* Mutant of Answered: the next CPU gets the same index.
AnsweredKeepsIndex ==
  /\ pc \in {"wait1", "wait2"}
  /\ AP_ONLINE[cpu_index]
  /\ started' = started + 1
  /\ todo' = Tail(todo)
  /\ pc' = "next"
  /\ UNCHANGED <<memory, firmware, cpu_index, params, AP_ONLINE, CPUS_ONLINE, identity, ap,
                 abandoned>>

\* wait_online sees the flag.
Answered ==
  /\ pc \in {"wait1", "wait2"}
  /\ AP_ONLINE[cpu_index]
  /\ started' = started + 1
  /\ todo' = Tail(todo)
  /\ cpu_index' = cpu_index + 1
  /\ pc' = "next"
  /\ UNCHANGED <<memory, firmware, params, AP_ONLINE, CPUS_ONLINE, identity, ap, abandoned>>

\* Mutant of TimedOut: an AP that stays silent is tried again, for ever.
TimedOutRetries ==
  /\ pc \in {"wait1", "wait2"}
  /\ ~AP_ONLINE[cpu_index]
  /\ pc' = "startup2"
  /\ UNCHANGED <<memory, firmware, todo, cpu_index, params, AP_ONLINE, started, CPUS_ONLINE,
                 identity, ap, abandoned>>

\* wait_online runs out of time: the first time the Startup IPI is repeated,
\* the second time the AP is given up and its index stays unused.
TimedOut ==
  /\ pc \in {"wait1", "wait2"}
  /\ ~AP_ONLINE[cpu_index]
  /\ IF pc = "wait1"
       THEN /\ pc' = "startup2"
            /\ UNCHANGED <<todo, cpu_index, abandoned>>
       ELSE /\ pc' = "next"
            /\ abandoned' = abandoned \cup {Head(todo).apic_id}
            /\ todo' = Tail(todo)
            /\ cpu_index' = cpu_index + 1
  /\ UNCHANGED <<memory, firmware, params, AP_ONLINE, started, CPUS_ONLINE, identity, ap>>

StartAps ==
  NextCpu \/ WriteIndex \/ send_init \/ send_startup \/ wait_icr_idle \/ Answered \/ TimedOut

--------------------------------------------------------------------------------
(* An AP: the trampoline and rust_ap_entry *)

ApUnchanged == UNCHANGED <<bsp, memory, firmware, identity>>

\* Paging is enabled while executing at the trampoline's physical address.
EnablePaging(a) ==
  /\ ap[a].pc = "real"
  /\ ap' = [ap EXCEPT ![a].pc = IF identity THEN "long" ELSE "dead"]
  /\ UNCHANGED AP_ONLINE /\ ApUnchanged

\* The rest of the trampoline still runs at that address: without the identity
\* map it lives on what the TLB holds.
LoadStack(a) ==
  /\ ap[a].pc = "long"
  /\ \/ ap' = [ap EXCEPT ![a].pc = "index", ![a].stack = params.stack]
     \/ ~identity /\ ap' = [ap EXCEPT ![a].pc = "dead"]
  /\ UNCHANGED AP_ONLINE /\ ApUnchanged

\* Mutant of LoadIndex: the core is reported online before init_ap has run.
LoadIndexAnswers(a) ==
  /\ ap[a].pc = "index"
  /\ ap' = [ap EXCEPT ![a].pc = "entry", ![a].index = params.index]
  /\ AP_ONLINE' = [AP_ONLINE EXCEPT ![params.index] = TRUE]
  /\ ApUnchanged

LoadIndex(a) ==
  /\ ap[a].pc = "index"
  /\ \/ ap' = [ap EXCEPT ![a].pc = "entry", ![a].index = params.index]
     \/ ~identity /\ ap' = [ap EXCEPT ![a].pc = "dead"]
  /\ UNCHANGED AP_ONLINE /\ ApUnchanged

\* The GDT, the TSS and the double-fault stack of the index become the core's.
init_ap(a) ==
  /\ ap[a].pc = "entry"
  /\ ap' = [ap EXCEPT ![a].pc = "ready"]
  /\ UNCHANGED AP_ONLINE /\ ApUnchanged

\* The rest of rust_ap_entry: the flag is set and the core halts.
rust_ap_entry(a) ==
  /\ ap[a].pc = "ready"
  /\ AP_ONLINE' = [AP_ONLINE EXCEPT ![ap[a].index] = TRUE]
  /\ ap' = [ap EXCEPT ![a].pc = "online"]
  /\ ApUnchanged

ApStep(a) ==
  EnablePaging(a) \/ LoadStack(a) \/ LoadIndex(a) \/ init_ap(a) \/ rust_ap_entry(a)

--------------------------------------------------------------------------------
Boot ==
  \/ init_pmm_from_limine \/ protect_boot_memory \/ hal_init \/ StartAps
  \/ reclaim_boot_memory \/ unmap_low_half_identity_map

Next == Boot \/ vmm_alloc_frame \/ Up \/ \E a \in Ap : ApStep(a)

Spec == Init /\ [][Next]_vars

\* The BSP keeps running; nothing is assumed of the APs.
FairSpec == Spec /\ WF_vars(Boot)

--------------------------------------------------------------------------------
(* Properties *)

\* The MADT that acpi::init finds names every processor once.
ListedOnce ==
  \A fw \in Firmwares : LET madt == acpi_init(fw) IN
    \A i, j \in DOMAIN madt :
      IsCpu(madt[i]) /\ IsCpu(madt[j]) /\ madt[i].apic_id = madt[j].apic_id => i = j

Started(a) == ap[a].pc \in {"entry", "ready", "online"}

\* As long as every AP answers in time, the single parameter block serves them
\* all: two cores never run with the same cpu_index (so never share a GDT, a
\* TSS or a double-fault stack) nor on the same stack, and a core's stack is
\* the one that was made for its index.
OwnCpuSlot ==
  abandoned = {} =>
    /\ \A a \in Ap : Started(a) => ap[a].stack = ap[a].index
    /\ \A a, b \in Ap : Started(a) /\ Started(b) /\ a # b => ap[a].index # ap[b].index

\* As long as every AP answers in time, none is still in the trampoline when
\* the identity map under it goes away, and CPUS_ONLINE counts the running
\* cores.
BringUpDone ==
  abandoned = {} =>
    /\ \A a \in Ap : ap[a].pc # "dead"
    /\ ~identity => \A a \in Ap : ap[a].pc \in {"off", "online"}
    /\ pc \in {"reclaim", "unmap", "up"}
         => CPUS_ONLINE = 1 + Cardinality({a \in Ap : ap[a].pc = "online"})

\* What is in memory, whatever the order of the search: the descriptors that
\* pass their checks and name a root table, that table, whether it passes its
\* own, and the MADTs it lists.
Descriptors ==
  (IF rsdp_given(firmware) THEN {firmware.limine.direct, firmware.limine.mapped} ELSE {})
    \cup Range(firmware.rom) \cup (IF firmware.ebda_base THEN Range(firmware.ebda) ELSE {})
HasXsdt(d) == d.revision >= 2 /\ d.xsdt # 0
Genuine ==
  {d \in Descriptors : /\ d.signature /\ d.checksum
                       /\ d.revision >= 2 => d.full_length /\ d.extended_checksum
                       /\ HasXsdt(d) \/ d.rsdt # 0}
RootOf(d) == firmware.tables[IF HasXsdt(d) THEN d.xsdt ELSE d.rsdt]
SoundRoot(d) ==
  RootOf(d).checksum /\ RootOf(d).signature = IF HasXsdt(d) THEN "XSDT" ELSE "RSDT"
MadtsOf(d) ==
  {t \in {firmware.tables[a] : a \in Range(RootOf(d).entries)} :
     t.signature = "APIC" /\ t.checksum /\ t.full_length}

\* Every AP that firmware lists as enabled is dealt with, wherever the MADT is
\* and whatever else looks like a descriptor: at the end of start_aps it runs
\* or has been given up.  An entry behind an impossible length or behind
\* MAX_CPUS others is left out; and nothing is said of a firmware with several
\* MADTs, of which only the last one counts, or with a broken root table, for
\* which no other is looked at.
NoCpuForgotten ==
  pc \in {"reclaim", "unmap", "up"} /\ (\A g \in Genuine : SoundRoot(g)) =>
    \A t \in UNION {MadtsOf(g) : g \in Genuine} :
      (\A g \in Genuine : MadtsOf(g) = {t}) =>
        \A i \in DOMAIN t.entries :
          /\ IsCpu(t.entries[i]) /\ Startable(t.entries[i])
          /\ \A j \in 1 .. i : t.entries[j].length # "invalid"
          /\ Cardinality({j \in 1 .. i : IsCpu(t.entries[j])}) <= MAX_CPUS
          => LET a == t.entries[i].apic_id IN a \in abandoned \/ ap[a].pc # "off"

\* A core is only ever sent an INIT because a chain of checksummed structures
\* lists it as enabled: no stray signature in low memory starts a processor.
StartedAreListed ==
  \A a \in Ap : ap[a].pc # "off" =>
    \E d \in Genuine : SoundRoot(d) /\ \E t \in MadtsOf(d) :
      \E e \in Range(t.entries) : IsCpu(e) /\ e.apic_id = a /\ e.enabled

\* Freeing the reclaimable regions never undoes a reservation that matters:
\* the first MiB (which holds the trampoline), the kernel image, the ramdisk,
\* and the heap wherever the memory map does not call it reclaimable, are
\* never handed out.
BootMemoryKept ==
  /\ given \cap {"low", "kernel", "ramdisk"} = {}
  /\ memmap["heap"] \notin {"loader", "acpi"} => "heap" \notin given

\* Boot gets past SMP bring-up whatever the APs do, unless the bootloader's
\* descriptor does not check out and its other reading is no address, there are
\* more APs than the heap has stacks for, or the APIC or the PIT never answers.
BootCompletes ==
  /\ ~rsdp_faults(firmware)
  /\ Len(Starts(parse(acpi_init(firmware)))) <= HeapStacks
  => <>(pc \in {"up", "stuck"})

\* What the safety comment of gdt::init_ap says that hal::smp guarantees: the
\* cpu_index is unique per core.  An AP that is slower than the two waits
\* reads the parameters of the next one.
UniqueCpuIndex ==
  \A a, b \in Ap : Started(a) /\ Started(b) /\ a # b => ap[a].index # ap[b].index
================================================================================
