---------------------------------- MODULE Ahci ----------------------------------
(***************************************************************************)
(* The AHCI driver (src/src/drivers/ahci.rs) against an AHCI controller.   *)
(* AhciController::new brings up the ports one after the other: it stops   *)
(* the command engine that firmware left running, programs the command     *)
(* list, restarts the engine and identifies the drive.  Then the clients'  *)
(* reads, writes and flushes go through issue_command, which waits for the *)
(* controller by polling, with timeouts, while ahci_irq_handler may        *)
(* complete the same slots from interrupt context.                         *)
(*                                                                         *)
(* The controller is external: it runs the commands whose bit is set in    *)
(* PxCI in any order, at any pace or not at all.  No build of the kernel   *)
(* installs ahci_irq_handler yet; "routed" says whether it is installed.   *)
(*                                                                         *)
(* alloc_dma (src/src/pci.rs) marks one frame as used and zeroes as many   *)
(* as it is asked for, so only the first TablesPerFrame command tables of  *)
(* a port lie in memory of its own: the others lie in the frames behind,   *)
(* which are somebody else's or hold the command list of the next port.    *)
(***************************************************************************)
EXTENDS Naturals, FiniteSets, FiniteSetsExt

CONSTANTS
  NumPorts,      \* ports the controller implements (PI)
  NumSlots,      \* command slots per port (CAP.NCS)
  TablesPerFrame,  \* command tables that fit into a frame: 4096 / 384 in the code
  MaxCommands    \* bound: commands issued in a behaviour

ASSUME AhciAssumption ==
  /\ NumPorts \in Nat \ {0} /\ NumSlots \in Nat \ {0} /\ MaxCommands \in Nat
  /\ TablesPerFrame \in Nat \ {0}

VARIABLES
  routed,          \* ahci_irq_handler is installed
  overrun,         \* history: alloc_dma has zeroed more than it has reserved
  hw,              \* per port: the registers the driver uses
  table,           \* per port and slot: the command in its command table, 0 for none
  ports,           \* per port: the device kind once the port is published
  PENDING_SLOTS,
  SLOT_COMPLETION,
  pc,              \* where the driver is
  port, slot,      \* its current port and slot
  chunks,          \* commands left of the current request
  serial,          \* commands issued so far; also the name of the last one
  finished,        \* history: commands the controller has carried out
  succeeded,       \* history: commands issue_command has returned Ok for
  abandoned        \* history: commands issue_command has stopped waiting for

driver == <<ports, pc, port, slot, chunks, serial, succeeded, abandoned>>
vars == <<routed, overrun, hw, table, PENDING_SLOTS, SLOT_COMPLETION, driver, finished>>

Port == 0 .. NumPorts - 1
Slot == 0 .. NumSlots - 1
Command == 1 .. MaxCommands

--------------------------------------------------------------------------------
(* Firmware leaves a port without a device, stopped, or with its engines on. *)
FirmwarePort ==
  {[present |-> p, st |-> e, cr |-> e, fre |-> f, fr |-> f, bsy |-> FALSE, err |-> FALSE,
    ci |-> {}, is |-> FALSE, ie |-> FALSE] :
     p \in BOOLEAN, e \in BOOLEAN, f \in BOOLEAN}

Init ==
  /\ routed \in BOOLEAN
  /\ hw \in [Port -> {r \in FirmwarePort : r.st => r.present /\ r.fre}]
  /\ overrun = FALSE
  /\ table = [p \in Port |-> [s \in Slot |-> 0]]
  /\ ports = [p \in Port |-> "None"]
  /\ PENDING_SLOTS = {}
  /\ SLOT_COMPLETION = [s \in Slot |-> FALSE]
  /\ pc = "init_port"
  /\ port = 0
  /\ slot = 0
  /\ chunks = 0
  /\ serial = 0
  /\ finished = {}
  /\ succeeded = {}
  /\ abandoned = {}

--------------------------------------------------------------------------------
(* AhciController::new *)

\* The loop over the ports goes on; afterwards clients may call.
ToNextPort ==
  IF port + 1 \in Port THEN pc' = "init_port" /\ port' = port + 1
                       ELSE pc' = "idle" /\ UNCHANGED port

\* init_port up to the request to stop: PortNotPresent, or ST is cleared.
init_port ==
  /\ pc = "init_port"
  /\ IF hw[port].present
       THEN /\ hw' = [hw EXCEPT ![port].st = FALSE, ![port].ci = {}]
            /\ pc' = "stop_cr"
            /\ UNCHANGED port
       ELSE UNCHANGED hw /\ ToNextPort
  /\ UNCHANGED <<routed, overrun, table, PENDING_SLOTS, SLOT_COMPLETION, ports, slot, chunks, serial,
                 succeeded, abandoned, finished>>

\* Mutant of stop_cmd_engine: FR is not waited for.
stop_cmd_engineNoFrWait ==
  /\ \/ pc = "stop_cr" /\ ~hw[port].cr
          /\ hw' = [hw EXCEPT ![port].fre = FALSE] /\ pc' = "stop_fr" /\ UNCHANGED port
     \/ pc = "stop_fr" /\ pc' = "program" /\ UNCHANGED <<hw, port>>
     \/ /\ pc = "stop_cr" /\ hw[port].cr
        /\ UNCHANGED hw /\ ToNextPort
  /\ UNCHANGED <<routed, overrun, table, PENDING_SLOTS, SLOT_COMPLETION, ports, slot, chunks, serial,
                 succeeded, abandoned, finished>>

\* The command engine stops, then FIS reception; the port is given up when
\* either takes too long.
stop_cmd_engine ==
  /\ \/ pc = "stop_cr" /\ ~hw[port].cr
          /\ hw' = [hw EXCEPT ![port].fre = FALSE] /\ pc' = "stop_fr" /\ UNCHANGED port
     \/ pc = "stop_fr" /\ ~hw[port].fr /\ pc' = "program" /\ UNCHANGED <<hw, port>>
     \/ /\ (pc = "stop_cr" /\ hw[port].cr) \/ (pc = "stop_fr" /\ hw[port].fr)
        /\ UNCHANGED hw /\ ToNextPort
  /\ UNCHANGED <<routed, overrun, table, PENDING_SLOTS, SLOT_COMPLETION, ports, slot, chunks, serial,
                 succeeded, abandoned, finished>>

\* The memory of the command tables of a port, NumSlots of them.
alloc_dma == overrun' = (overrun \/ NumSlots > TablesPerFrame)

\* The command list, the FIS area and the command tables: without DMA memory the
\* port is given up, and so it is when the controller cannot address the memory.
Program ==
  /\ pc = "program"
  /\ \/ /\ alloc_dma
        /\ table' = [table EXCEPT ![port] = [s \in Slot |-> 0]]
        /\ hw' = [hw EXCEPT ![port].is = FALSE, ![port].fre = TRUE]
        /\ pc' = "start" /\ UNCHANGED port
     \/ UNCHANGED <<table, hw>> /\ (alloc_dma \/ UNCHANGED overrun) /\ ToNextPort
  /\ UNCHANGED <<routed, PENDING_SLOTS, SLOT_COMPLETION, ports, slot, chunks, serial,
                 succeeded, abandoned, finished>>

\* The engine starts (it is stopped, so EngineStartTimeout does not occur) and
\* the signature decides: a SATA drive is identified, anything else is
\* published as it is, with interrupts on.
start_cmd_engine ==
  /\ pc = "start"
  /\ IF hw[port].cr
       THEN UNCHANGED <<hw, ports, chunks, serial>> /\ ToNextPort
       ELSE \/ /\ serial < MaxCommands
               /\ hw' = [hw EXCEPT ![port].fre = TRUE, ![port].st = TRUE]
               /\ pc' = "ready" /\ chunks' = 1 /\ serial' = serial + 1
               /\ UNCHANGED <<ports, port>>
            \/ /\ hw' = [hw EXCEPT ![port].fre = TRUE, ![port].st = TRUE, ![port].ie = TRUE]
               /\ ports' = [ports EXCEPT ![port] = "Satapi"]
               /\ ToNextPort
               /\ UNCHANGED <<chunks, serial>>
  /\ UNCHANGED <<routed, overrun, table, PENDING_SLOTS, SLOT_COMPLETION, slot, succeeded, abandoned,
                 finished>>

--------------------------------------------------------------------------------
(* issue_command *)

\* A client's call on a published port: flush is one command, read_sectors and
\* write_sectors are one for each chunk of the buffer.  rw_sectors refuses
\* what is not a SATA drive without touching the controller.
Request(p, n) ==
  /\ pc = "idle" /\ serial + n <= MaxCommands
  /\ ports[p] = "Sata" \/ (ports[p] = "Satapi" /\ n = 1)
  /\ pc' = "ready" /\ port' = p /\ chunks' = n /\ serial' = serial + 1
  /\ UNCHANGED <<routed, overrun, hw, table, PENDING_SLOTS, SLOT_COMPLETION, ports, slot,
                 succeeded, abandoned, finished>>

\* What follows the end of issue_command.  Inside init_port the port is
\* published with interrupts on, identified or not; a request ends, or goes on
\* with its next chunk if this one succeeded.
Return(ok) ==
  IF ports[port] = "None"
    THEN /\ ports' = [ports EXCEPT ![port] = "Sata"]
         /\ hw' = [hw EXCEPT ![port].ie = TRUE]
         /\ chunks' = 0
         /\ ToNextPort
         /\ UNCHANGED serial
    ELSE /\ chunks' = IF ok THEN chunks - 1 ELSE 0
         /\ IF chunks' > 0 THEN pc' = "ready" /\ serial' = serial + 1
                           ELSE pc' = "idle" /\ UNCHANGED serial
         /\ UNCHANGED <<ports, hw, port>>

\* Mutant of find_free_slot: the software mask is asked, not the controller.
find_free_slotPending(p) == Slot \ PENDING_SLOTS

find_free_slot(p) == Slot \ hw[p].ci

\* Mutant of TakeSlot: the slot with the highest number comes first.
TakeSlotHighest ==
  /\ pc = "ready" /\ ~hw[port].bsy
  /\ find_free_slot(port) # {}
  /\ slot' = Max(find_free_slot(port))
  /\ SLOT_COMPLETION' = [SLOT_COMPLETION EXCEPT ![slot'] = FALSE]
  /\ PENDING_SLOTS' = PENDING_SLOTS \cup {slot'}
  /\ pc' = "build"
  /\ UNCHANGED <<routed, overrun, hw, table, ports, port, chunks, serial, succeeded, abandoned, finished>>

\* Mutant of TakeSlot: the completion flag of the slot is not reset.
TakeSlotNoReset ==
  /\ pc = "ready" /\ ~hw[port].bsy
  /\ find_free_slot(port) # {}
  /\ slot' = Min(find_free_slot(port))
  /\ PENDING_SLOTS' = PENDING_SLOTS \cup {slot'}
  /\ pc' = "build"
  /\ UNCHANGED <<routed, overrun, hw, table, SLOT_COMPLETION, ports, port, chunks, serial,
                 succeeded, abandoned, finished>>

TakeSlot ==
  /\ pc = "ready" /\ ~hw[port].bsy
  /\ find_free_slot(port) # {}
  /\ slot' = Min(find_free_slot(port))
  /\ SLOT_COMPLETION' = [SLOT_COMPLETION EXCEPT ![slot'] = FALSE]
  /\ PENDING_SLOTS' = PENDING_SLOTS \cup {slot'}
  /\ pc' = "build"
  /\ UNCHANGED <<routed, overrun, hw, table, ports, port, chunks, serial, succeeded,
                 abandoned, finished>>

\* The drive stays busy for too long, or every slot is taken.
NoSlot ==
  /\ pc = "ready"
  /\ hw[port].bsy \/ find_free_slot(port) = {}
  /\ Return(FALSE)
  /\ UNCHANGED <<routed, overrun, table, PENDING_SLOTS, SLOT_COMPLETION, slot, succeeded, abandoned,
                 finished>>

\* build_prdt (its errors do not occur: rw_sectors hands it chunks that fit)
\* and the command FIS.
Build ==
  /\ pc = "build"
  /\ table' = [table EXCEPT ![port][slot] = serial]
  /\ pc' = "issue"
  /\ UNCHANGED <<routed, overrun, hw, PENDING_SLOTS, SLOT_COMPLETION, ports, port, slot, chunks, serial,
                 succeeded, abandoned, finished>>

WriteCi ==
  /\ pc = "issue"
  /\ hw' = [hw EXCEPT ![port].ci = @ \cup {slot}]
  /\ pc' = "poll"
  /\ UNCHANGED <<routed, overrun, table, PENDING_SLOTS, SLOT_COMPLETION, ports, port, slot, chunks,
                 serial, succeeded, abandoned, finished>>

\* Mutant of Polled: a drive that is not busy counts as an answer.
PolledNotBusy ==
  /\ pc = "poll"
  /\ \/ SLOT_COMPLETION[slot] /\ UNCHANGED <<PENDING_SLOTS, SLOT_COMPLETION>>
     \/ /\ ~SLOT_COMPLETION[slot] /\ ~hw[port].bsy
        /\ SLOT_COMPLETION' = [SLOT_COMPLETION EXCEPT ![slot] = TRUE]
        /\ PENDING_SLOTS' = PENDING_SLOTS \ {slot}
  /\ pc' = "check"
  /\ UNCHANGED <<routed, overrun, hw, table, ports, port, slot, chunks, serial, succeeded, abandoned,
                 finished>>

\* The polling loop ends: the flag is set, or the bit in PxCI has dropped.
Polled ==
  /\ pc = "poll"
  /\ \/ SLOT_COMPLETION[slot] /\ UNCHANGED <<PENDING_SLOTS, SLOT_COMPLETION>>
     \/ /\ ~SLOT_COMPLETION[slot] /\ slot \notin hw[port].ci
        /\ SLOT_COMPLETION' = [SLOT_COMPLETION EXCEPT ![slot] = TRUE]
        /\ PENDING_SLOTS' = PENDING_SLOTS \ {slot}
  /\ pc' = "check"
  /\ UNCHANGED <<routed, overrun, hw, table, ports, port, slot, chunks, serial, succeeded, abandoned,
                 finished>>

\* Mutant of PollTimeout: the loop has no time limit.
PollTimeoutNever ==
  /\ pc = "poll"
  /\ ~SLOT_COMPLETION[slot] /\ slot \in hw[port].ci
  /\ UNCHANGED vars

\* Two seconds without an answer: the slot is forgotten, the controller keeps it.
PollTimeout ==
  /\ pc = "poll"
  /\ ~SLOT_COMPLETION[slot] /\ slot \in hw[port].ci
  /\ PENDING_SLOTS' = PENDING_SLOTS \ {slot}
  /\ abandoned' = abandoned \cup {serial}
  /\ Return(FALSE)
  /\ UNCHANGED <<routed, overrun, table, SLOT_COMPLETION, slot, succeeded, finished>>

\* The task file decides between Ok and TaskFileError.
Check ==
  /\ pc = "check"
  /\ succeeded' = IF hw[port].err THEN succeeded ELSE succeeded \cup {serial}
  /\ Return(~hw[port].err)
  /\ UNCHANGED <<routed, overrun, table, PENDING_SLOTS, SLOT_COMPLETION, slot, abandoned, finished>>

--------------------------------------------------------------------------------
(* ahci_irq_handler, over all ports with an interrupt; PENDING_SLOTS is one *)
(* mask for all of them.                                                    *)
Interrupting == {p \in Port : hw[p].is /\ hw[p].ie}

ahci_irq_handler ==
  /\ routed /\ Interrupting # {}
  /\ LET completed == UNION {PENDING_SLOTS \ hw[p].ci : p \in Interrupting} IN
       /\ PENDING_SLOTS' = PENDING_SLOTS \ completed
       /\ SLOT_COMPLETION' = [s \in Slot |-> s \in completed \/ SLOT_COMPLETION[s]]
  /\ hw' = [p \in Port |-> IF p \in Interrupting THEN [hw[p] EXCEPT !.is = FALSE] ELSE hw[p]]
  /\ UNCHANGED <<routed, overrun, table, driver, finished>>

--------------------------------------------------------------------------------
(* The controller *)

\* CR and FR follow ST and FRE; PxCI is only kept while ST is set.
HwEngine(p) ==
  /\ \/ hw[p].cr # hw[p].st /\ ~hw[p].bsy /\ hw' = [hw EXCEPT ![p].cr = hw[p].st]
     \/ hw[p].fr # hw[p].fre /\ hw' = [hw EXCEPT ![p].fr = hw[p].fre]
  /\ UNCHANGED <<routed, overrun, table, PENDING_SLOTS, SLOT_COMPLETION, driver, finished>>

HwBegin(p) ==
  /\ hw[p].cr /\ ~hw[p].bsy /\ ~hw[p].err /\ hw[p].ci # {}
  /\ hw' = [hw EXCEPT ![p].bsy = TRUE]
  /\ UNCHANGED <<routed, overrun, table, PENDING_SLOTS, SLOT_COMPLETION, driver, finished>>

\* A command table beyond the frame of its port has been written: it, the
\* command list of the next port or another owner's memory is overwritten.
Spilled == \E p \in Port, s \in Slot : s >= TablesPerFrame /\ table[p][s] # 0

\* A command is carried out (or, after a spill, maybe something else); whether
\* it ends with the FIS that DHRS reports depends on the command.
HwFinish(p) ==
  /\ hw[p].bsy
  /\ \E s \in hw[p].ci, reported \in BOOLEAN :
       /\ hw' = [hw EXCEPT ![p].bsy = FALSE, ![p].ci = @ \ {s}, ![p].is = @ \/ reported]
       /\ \/ finished' = finished \cup {table[p][s]}
          \/ Spilled /\ UNCHANGED finished
  /\ UNCHANGED <<routed, overrun, table, PENDING_SLOTS, SLOT_COMPLETION, driver>>

\* A command fails: the port runs no further command, and controllers differ
\* in whether the bit of the failed one drops.
HwFail(p) ==
  /\ hw[p].bsy
  /\ \E s \in hw[p].ci, dropped \in BOOLEAN :
       hw' = [hw EXCEPT ![p].bsy = FALSE, ![p].err = TRUE, ![p].is = TRUE,
                        ![p].ci = IF dropped THEN @ \ {s} ELSE @]
  /\ UNCHANGED <<routed, overrun, table, PENDING_SLOTS, SLOT_COMPLETION, driver, finished>>

--------------------------------------------------------------------------------
Driver ==
  \/ init_port \/ stop_cmd_engine \/ Program \/ start_cmd_engine
  \/ TakeSlot \/ NoSlot \/ Build \/ WriteCi \/ Polled \/ PollTimeout \/ Check

Controller == \E p \in Port : HwEngine(p) \/ HwBegin(p) \/ HwFinish(p) \/ HwFail(p)

\* The driver waits for a client.
Idle == pc = "idle" /\ UNCHANGED vars

Next ==
  \/ Driver
  \/ \E p \in Port, n \in 1 .. 2 : Request(p, n)
  \/ ahci_irq_handler
  \/ Controller
  \/ Idle

Spec == Init /\ [][Next]_vars

\* The driver's code keeps running; the controller may hang.
FairSpec == Spec /\ WF_vars(Driver)

--------------------------------------------------------------------------------
(* Properties *)

\* issue_command never rewrites the header and table of a command the
\* controller still holds, however many earlier calls have timed out: the slot
\* it builds in has no bit in PxCI.
SlotNotInUse == pc \in {"build", "issue"} => slot \notin hw[port].ci

\* init_port programs the command list and FIS addresses only while the
\* command engine and FIS reception of the port are both at rest.
ProgrammedAtRest == pc = "program" => ~hw[port].cr /\ ~hw[port].fr

\* As the kernel stands, with completion by polling, Ok is the truth: every
\* command issue_command returned Ok for has been carried out, in spite of
\* late completions of commands that timed out before (while the command
\* tables stay in their frame).
PolledOkMeansDone == ~routed /\ ~Spilled => succeeded \subseteq finished

\* The driver writes to memory that alloc_dma has not reserved for it only with
\* more slots than a frame holds tables.  Then bringing a port up zeroes such
\* memory, and a command is built there once as many have timed out as the frame
\* holds tables.
TablesStayInFrame ==
  /\ overrun \/ Spilled => NumSlots > TablesPerFrame
  /\ Spilled => overrun
  /\ ~routed /\ Spilled => Cardinality(abandoned) >= TablesPerFrame

\* The controller transfers into or out of a caller's buffer after issue_command
\* has returned only for a command that has timed out: those are left in PxCI,
\* whatever becomes of the buffer.  No other return leaves a transfer running.
NoStrayTransfer ==
  ~routed => \A p \in Port : \A s \in hw[p].ci :
    table[p][s] \in abandoned \/ (pc = "poll" /\ port = p /\ slot = s)

\* Every wait ends: bring-up reaches its last port and every request returns,
\* even if the controller hangs.
DriverReturns == []<>(pc = "idle")
================================================================================
