------------------------------- MODULE AhciProofs -------------------------------
(***************************************************************************)
(* Proofs about Ahci, for every number of ports, slots and commands: the   *)
(* driver and the controller never disagree on who owns a command slot,    *)
(* and what issue_command reports by polling is true.                      *)
(***************************************************************************)
EXTENDS Ahci, FiniteSetTheorems, TLAPS

\* How long the provers may take for a step that names none of them.
USE ZenonT(5), SMTT(30)

\* Where the driver is: bringing up a port, or inside issue_command.
BringingUp == {"init_port", "stop_cr", "stop_fr", "program", "start"}
Issuing == {"ready", "build", "issue", "poll", "check"}

Registers ==
  [present : BOOLEAN, st : BOOLEAN, cr : BOOLEAN, fre : BOOLEAN, fr : BOOLEAN,
   bsy : BOOLEAN, err : BOOLEAN, ci : SUBSET Slot, is : BOOLEAN, ie : BOOLEAN]

\* Types; a request never asks for more commands than there are names.
TypeOK ==
  /\ routed \in BOOLEAN
  /\ hw \in [Port -> Registers]
  /\ table \in [Port -> [Slot -> 0 .. MaxCommands]]
  /\ ports \in [Port -> {"None", "Sata", "Satapi"}]
  /\ PENDING_SLOTS \subseteq Slot
  /\ SLOT_COMPLETION \in [Slot -> BOOLEAN]
  /\ pc \in BringingUp \cup Issuing \cup {"idle"}
  /\ port \in Port /\ slot \in Slot
  /\ chunks \in 0 .. 2 /\ serial \in 0 .. MaxCommands
  /\ pc \in Issuing => chunks > 0 /\ serial > 0 /\ serial + chunks <= MaxCommands + 1
  /\ abandoned \subseteq Command

\* A port that init_port has not got to yet has no command, old or new.
Untouched(p) == ports[p] = "None" /\ hw[p].ci = {} /\ \A s \in Slot : table[p][s] = 0

PortsAhead ==
  /\ pc \in BringingUp => Untouched(port)
  /\ pc \in BringingUp \/ (pc \in Issuing /\ ports[port] = "None")
       => \A p \in Port : p > port => Untouched(p)

\* What stop_cmd_engine has turned off stays off until the engine is started.
Stopped ==
  /\ pc \in {"stop_cr", "stop_fr", "program", "start"} => ~hw[port].st
  /\ pc \in {"stop_fr", "program", "start"} => ~hw[port].cr
  /\ pc \in {"stop_fr", "program"} => ~hw[port].fre
  /\ pc = "program" => ~hw[port].fr

\* A command has a name of its own, and is in one table of its port at most.
Names ==
  /\ \A p \in Port, s \in Slot : table[p][s] <= serial
  /\ pc \in {"ready", "build"} => \A p \in Port, s \in Slot : table[p][s] < serial
  /\ \A p \in Port : \A s, u \in Slot : table[p][s] = table[p][u] /\ table[p][s] # 0 => s = u
  /\ pc \in {"issue", "poll"} => table[port][slot] = serial

\* With completion by polling: the flag of the slot in work is the driver's
\* alone, and a bit that has dropped out of PxCI means done, or an error.
Answers ==
  ~routed =>
    /\ pc \in {"build", "issue", "poll"} => ~SLOT_COMPLETION[slot]
    /\ pc = "poll" /\ slot \notin hw[port].ci /\ ~Spilled
         => serial \in finished \/ hw[port].err
    /\ pc = "check" /\ ~Spilled => serial \in finished \/ hw[port].err

\* A slot beyond the frame is taken only when every slot within it is held by a
\* command that has timed out.
FrameFull == ~routed /\ pc = "build" /\ slot >= TablesPerFrame
               => Cardinality(abandoned) >= TablesPerFrame

\* A command table lies beyond the frame only after as many time-outs as the frame
\* holds tables.
SpillsLate == ~routed /\ Spilled => Cardinality(abandoned) >= TablesPerFrame

AhciInv ==
  /\ TypeOK /\ PortsAhead /\ Stopped /\ SlotNotInUse
  /\ Names /\ NoStrayTransfer /\ Answers /\ PolledOkMeansDone
  /\ FrameFull /\ SpillsLate

--------------------------------------------------------------------------------
(* The controller and the interrupt handler, as the driver sees them: bits     *)
(* drop out of PxCI, each for a command carried out, an error or a spill, and  *)
(* nothing else the driver relies on changes.                                  *)
Calm ==
  /\ hw' \in [Port -> Registers]
  /\ \A p \in Port :
       /\ hw'[p].ci \subseteq hw[p].ci
       /\ hw'[p].st = hw[p].st /\ hw'[p].fre = hw[p].fre
       /\ hw'[p].cr \in {hw[p].cr, hw[p].st} /\ hw'[p].fr \in {hw[p].fr, hw[p].fre}
       /\ hw[p].err => hw'[p].err
       /\ \A s \in hw[p].ci \ hw'[p].ci : table[p][s] \in finished' \/ hw'[p].err \/ Spilled
  /\ finished \subseteq finished'
  /\ routed \/ UNCHANGED SLOT_COMPLETION
  /\ PENDING_SLOTS' \subseteq Slot /\ SLOT_COMPLETION' \in [Slot -> BOOLEAN]
  /\ UNCHANGED <<routed, table, driver>>

\* A calm step keeps the invariant, whatever the driver is doing.
LEMMA CalmStep ==
  ASSUME AhciInv, Calm
  PROVE  AhciInv'
<1>0. UNCHANGED <<routed, table, ports, pc, port, slot, chunks, serial, succeeded, abandoned>>
  BY DEF Calm, driver
<1>1. TypeOK'
  BY <1>0 DEF AhciInv, Calm, TypeOK
<1>2. PortsAhead'
  BY <1>0 DEF AhciInv, Calm, TypeOK, PortsAhead, Untouched
<1>3. Stopped'
  BY <1>0 DEF AhciInv, Calm, TypeOK, Stopped, Registers
<1>4. SlotNotInUse'
  BY <1>0 DEF AhciInv, Calm, TypeOK, SlotNotInUse
<1>5. Names'
  BY <1>0 DEF AhciInv, Names
<1>6. NoStrayTransfer'
  BY <1>0 DEF AhciInv, Calm, TypeOK, NoStrayTransfer
<1>7. Answers'
  BY <1>0 DEF AhciInv, Calm, TypeOK, Answers, Names, Spilled
<1>8. PolledOkMeansDone'
  BY <1>0 DEF AhciInv, Calm, PolledOkMeansDone, Spilled
<1>9. FrameFull' /\ SpillsLate'
  BY <1>0 DEF AhciInv, FrameFull, SpillsLate, Spilled
<1> QED
  BY <1>1, <1>2, <1>3, <1>4, <1>5, <1>6, <1>7, <1>8, <1>9 DEF AhciInv

\* The controller changes the registers of one port.
LEMMA CalmUpdate ==
  ASSUME AhciInv, NEW p \in Port, NEW r \in Registers,
         hw' = [hw EXCEPT ![p] = r],
         r.ci \subseteq hw[p].ci, r.st = hw[p].st, r.fre = hw[p].fre,
         r.cr \in {hw[p].cr, hw[p].st}, r.fr \in {hw[p].fr, hw[p].fre},
         hw[p].err => r.err, finished \subseteq finished',
         \A s \in hw[p].ci \ r.ci : table[p][s] \in finished' \/ r.err \/ Spilled,
         UNCHANGED <<routed, table, PENDING_SLOTS, SLOT_COMPLETION, driver>>
  PROVE  Calm
<1>1. /\ hw \in [Port -> Registers] /\ PENDING_SLOTS \subseteq Slot
      /\ SLOT_COMPLETION \in [Slot -> BOOLEAN]
  BY DEF AhciInv, TypeOK
<1>2. hw' \in [Port -> Registers] /\ hw'[p] = r /\ \A q \in Port \ {p} : hw'[q] = hw[q]
  BY <1>1
<1>3. ASSUME NEW q \in Port
      PROVE  /\ hw'[q].ci \subseteq hw[q].ci
             /\ hw'[q].st = hw[q].st /\ hw'[q].fre = hw[q].fre
             /\ hw'[q].cr \in {hw[q].cr, hw[q].st} /\ hw'[q].fr \in {hw[q].fr, hw[q].fre}
             /\ hw[q].err => hw'[q].err
             /\ \A s \in hw[q].ci \ hw'[q].ci :
                  table[q][s] \in finished' \/ hw'[q].err \/ Spilled
  <2>1. CASE q = p
    BY <1>2, <2>1
  <2>2. CASE q # p
    BY <1>2, <2>2
  <2> QED BY <2>1, <2>2
<1> QED BY <1>1, <1>2, <1>3 DEF Calm

\* An engine that follows its enable bit, PxCMD.CR or PxCMD.FR.
LEMMA HwEngineCalm ==
  ASSUME AhciInv, NEW p \in Port, HwEngine(p)
  PROVE  Calm
<1>1. hw \in [Port -> Registers] /\ hw[p] \in Registers
  BY DEF AhciInv, TypeOK
<1>2. \E r \in Registers :
       /\ hw' = [hw EXCEPT ![p] = r]
       /\ r.ci = hw[p].ci /\ r.st = hw[p].st /\ r.fre = hw[p].fre /\ r.err = hw[p].err
       /\ r.cr \in {hw[p].cr, hw[p].st} /\ r.fr \in {hw[p].fr, hw[p].fre}
  <2>1. CASE hw' = [hw EXCEPT ![p].cr = hw[p].st]
    <3>1. [hw[p] EXCEPT !.cr = hw[p].st] \in Registers
      BY <1>1 DEF Registers
    <3> QED BY <1>1, <2>1, <3>1 DEF Registers
  <2>2. CASE hw' = [hw EXCEPT ![p].fr = hw[p].fre]
    <3>1. [hw[p] EXCEPT !.fr = hw[p].fre] \in Registers
      BY <1>1 DEF Registers
    <3> QED BY <1>1, <2>2, <3>1 DEF Registers
  <2> QED BY <2>1, <2>2 DEF HwEngine
<1> QED BY <1>1, <1>2 DEF AhciInv, TypeOK, HwEngine, Calm

\* The controller takes up a command.
LEMMA HwBeginCalm ==
  ASSUME AhciInv, NEW p \in Port, HwBegin(p)
  PROVE  Calm
<1>1. hw \in [Port -> Registers] /\ hw[p] \in Registers
  BY DEF AhciInv, TypeOK
<1>2. [hw[p] EXCEPT !.bsy = TRUE] \in Registers
  BY <1>1 DEF Registers
<1> QED BY <1>1, <1>2 DEF AhciInv, TypeOK, HwBegin, Calm, Registers

\* The controller is done with a command: its bit leaves PxCI.
LEMMA HwFinishCalm ==
  ASSUME AhciInv, NEW p \in Port, HwFinish(p)
  PROVE  Calm
<1>1. hw \in [Port -> Registers] /\ hw[p] \in Registers
  BY DEF AhciInv, TypeOK
<1>2. PICK s \in hw[p].ci, reported \in BOOLEAN :
       /\ hw' = [hw EXCEPT ![p].bsy = FALSE, ![p].ci = @ \ {s}, ![p].is = @ \/ reported]
       /\ \/ finished' = finished \cup {table[p][s]}
          \/ Spilled /\ UNCHANGED finished
  BY DEF HwFinish
<1> DEFINE r == [hw[p] EXCEPT !.bsy = FALSE, !.ci = @ \ {s}, !.is = @ \/ reported]
<1>3. /\ r \in Registers /\ hw' = [hw EXCEPT ![p] = r]
      /\ r.ci = hw[p].ci \ {s} /\ r.st = hw[p].st /\ r.fre = hw[p].fre
      /\ r.cr = hw[p].cr /\ r.fr = hw[p].fr /\ r.err = hw[p].err
  BY <1>1, <1>2 DEF Registers
<1> HIDE DEF r
<1>4. \A t \in hw[p].ci \ r.ci : table[p][t] \in finished' \/ r.err \/ Spilled
  BY <1>2, <1>3
<1>5. finished \subseteq finished'
  BY <1>2
<1>6. UNCHANGED <<routed, table, PENDING_SLOTS, SLOT_COMPLETION, driver>>
  BY DEF HwFinish
<1> QED BY <1>3, <1>4, <1>5, <1>6, CalmUpdate

\* A task file error, with or without the bit dropped from PxCI.
LEMMA HwFailCalm ==
  ASSUME AhciInv, NEW p \in Port, HwFail(p)
  PROVE  Calm
<1>1. hw \in [Port -> Registers] /\ hw[p] \in Registers
  BY DEF AhciInv, TypeOK
<1>2. PICK s \in hw[p].ci, dropped \in BOOLEAN :
       hw' = [hw EXCEPT ![p].bsy = FALSE, ![p].err = TRUE, ![p].is = TRUE,
                        ![p].ci = IF dropped THEN @ \ {s} ELSE @]
  BY DEF HwFail
<1> DEFINE r == [hw[p] EXCEPT !.bsy = FALSE, !.err = TRUE, !.is = TRUE,
                              !.ci = IF dropped THEN @ \ {s} ELSE @]
<1>3. /\ r \in Registers /\ hw' = [hw EXCEPT ![p] = r]
      /\ r.ci \subseteq hw[p].ci /\ r.st = hw[p].st /\ r.fre = hw[p].fre
      /\ r.cr = hw[p].cr /\ r.fr = hw[p].fr /\ r.err
  BY <1>1, <1>2 DEF Registers
<1> HIDE DEF r
<1>4. UNCHANGED <<routed, table, PENDING_SLOTS, SLOT_COMPLETION, driver, finished>>
  BY DEF HwFail
<1> QED BY <1>3, <1>4, CalmUpdate

\* ahci_irq_handler acknowledges and reports completions; it leaves PxCI alone.
LEMMA ahci_irq_handlerCalm ==
  ASSUME AhciInv, ahci_irq_handler
  PROVE  Calm
<1>1. hw \in [Port -> Registers] /\ SLOT_COMPLETION \in [Slot -> BOOLEAN]
      /\ PENDING_SLOTS \subseteq Slot
  BY DEF AhciInv, TypeOK
<1>2. \A p \in Port : hw'[p] \in Registers /\ hw'[p].ci = hw[p].ci /\ hw'[p].st = hw[p].st
        /\ hw'[p].fre = hw[p].fre /\ hw'[p].cr = hw[p].cr /\ hw'[p].fr = hw[p].fr
        /\ hw'[p].err = hw[p].err
  <2> TAKE p \in Port
  <2>1. hw[p] \in Registers /\ hw'[p] \in {hw[p], [hw[p] EXCEPT !.is = FALSE]}
    BY <1>1 DEF ahci_irq_handler
  <2> QED BY <2>1 DEF Registers
<1>3. hw' \in [Port -> Registers]
  BY <1>2 DEF ahci_irq_handler
<1>4. SLOT_COMPLETION' \in [Slot -> BOOLEAN] /\ PENDING_SLOTS' \subseteq Slot
  BY <1>1 DEF ahci_irq_handler
<1> QED BY <1>2, <1>3, <1>4 DEF ahci_irq_handler, Calm

--------------------------------------------------------------------------------
(* The driver brings up the ports. *)

\* A port is given up: nothing but the loop over the ports moves on.
LEMMA GiveUpStep ==
  ASSUME AhciInv, pc \in BringingUp, ToNextPort,
         UNCHANGED <<routed, hw, table, PENDING_SLOTS, SLOT_COMPLETION, ports, slot, chunks,
                     serial, succeeded, abandoned, finished>>
  PROVE  AhciInv'
<1>0. port \in Port /\ port' \in Port /\ ((pc' = "init_port" /\ port' = port + 1) \/ pc' = "idle")
  BY DEF AhciInv, TypeOK, ToNextPort
<1>1. TypeOK'
  BY <1>0 DEF AhciInv, TypeOK, BringingUp, Issuing
<1>2. PortsAhead'
  <2>1. CASE pc' = "init_port" /\ port' = port + 1
    <3>1. \A p \in Port : p > port => Untouched(p)
      BY DEF AhciInv, PortsAhead
    <3>2. \A p \in Port : Untouched(p) => Untouched(p)'
      BY DEF Untouched
    <3>3. port' > port /\ \A p \in Port : p > port' => p > port
      BY <1>0, <2>1 DEF Port
    <3> QED BY <1>0, <2>1, <3>1, <3>2, <3>3 DEF PortsAhead, Issuing, BringingUp
  <2>2. CASE pc' = "idle"
    BY <2>2 DEF PortsAhead, Issuing, BringingUp
  <2> QED BY <1>0, <2>1, <2>2
<1>3. Stopped' /\ SlotNotInUse'
  BY <1>0 DEF Stopped, SlotNotInUse
<1>4. Names'
  BY <1>0 DEF AhciInv, Names
<1>5. NoStrayTransfer'
  BY DEF AhciInv, NoStrayTransfer, BringingUp
<1>6. Answers' /\ PolledOkMeansDone' /\ FrameFull' /\ SpillsLate'
  BY <1>0 DEF AhciInv, Answers, PolledOkMeansDone, FrameFull, SpillsLate, Spilled
<1> QED BY <1>1, <1>2, <1>3, <1>4, <1>5, <1>6 DEF AhciInv

\* A step of init_port within one port, which holds no command.
LEMMA PortStep ==
  ASSUME AhciInv, pc \in BringingUp, pc' \in BringingUp, NEW r \in Registers,
         hw' = [hw EXCEPT ![port] = r], r.ci = {}, Stopped',
         \A p \in Port, s \in Slot : table'[p][s] = table[p][s],
         table' \in [Port -> [Slot -> 0 .. MaxCommands]],
         UNCHANGED <<routed, PENDING_SLOTS, SLOT_COMPLETION, ports, port, slot, chunks,
                     serial, succeeded, abandoned, finished>>
  PROVE  AhciInv'
<1>0. /\ hw' \in [Port -> Registers] /\ port \in Port
      /\ \A p \in Port : hw'[p].ci = hw[p].ci
  BY DEF AhciInv, TypeOK, PortsAhead, Untouched
<1>1. TypeOK'
  BY <1>0 DEF AhciInv, TypeOK, BringingUp, Issuing
<1>2. PortsAhead'
  <2>1. \A p \in Port : Untouched(p) => Untouched(p)'
    BY <1>0 DEF Untouched
  <2> QED BY <1>0, <2>1 DEF AhciInv, PortsAhead
<1>3. SlotNotInUse'
  BY DEF SlotNotInUse, BringingUp
<1>4. Names'
  BY DEF AhciInv, Names, BringingUp
<1>5. NoStrayTransfer'
  <2> SUFFICES ASSUME ~routed, NEW p \in Port, NEW s \in hw'[p].ci
               PROVE  table'[p][s] \in abandoned
    BY DEF NoStrayTransfer
  <2>1. s \in hw[p].ci /\ s \in Slot
    BY <1>0 DEF Registers
  <2> QED BY <2>1 DEF AhciInv, NoStrayTransfer, BringingUp
<1>6. Spilled' <=> Spilled
  BY DEF Spilled
<1>7. Answers' /\ PolledOkMeansDone' /\ FrameFull' /\ SpillsLate'
  BY <1>6 DEF AhciInv, Answers, PolledOkMeansDone, FrameFull, SpillsLate, BringingUp
<1> QED BY <1>1, <1>2, <1>3, <1>4, <1>5, <1>7 DEF AhciInv

\* init_port skips a port without a device and begins to stop the engine.
LEMMA init_portStep ==
  ASSUME AhciInv, init_port
  PROVE  AhciInv'
<1>0. hw \in [Port -> Registers] /\ port \in Port /\ hw[port] \in Registers
  BY DEF AhciInv, TypeOK
<1>1. CASE hw[port].present
  <2> DEFINE r == [hw[port] EXCEPT !.st = FALSE, !.ci = {}]
  <2>1. r \in Registers /\ r.ci = {} /\ r.st = FALSE /\ hw' = [hw EXCEPT ![port] = r]
    BY <1>0, <1>1 DEF Registers, init_port
  <2> HIDE DEF r
  <2>2. Stopped'
    BY <1>0, <1>1, <2>1 DEF Stopped, init_port
  <2>3. table' \in [Port -> [Slot -> 0 .. MaxCommands]]
    BY DEF AhciInv, TypeOK, init_port
  <2> QED BY <1>1, <2>1, <2>2, <2>3, PortStep DEF init_port, BringingUp
<1>2. CASE ~hw[port].present
  BY <1>2, GiveUpStep DEF init_port, BringingUp
<1> QED BY <1>1, <1>2

\* stop_cmd_engine turns FRE off only after CR has dropped, and waits for FR.
LEMMA stop_cmd_engineStep ==
  ASSUME AhciInv, stop_cmd_engine
  PROVE  AhciInv'
<1>0. /\ hw \in [Port -> Registers] /\ port \in Port /\ hw[port] \in Registers
      /\ table \in [Port -> [Slot -> 0 .. MaxCommands]]
  BY DEF AhciInv, TypeOK
<1>1. CASE pc = "stop_cr" /\ ~hw[port].cr
  <2> DEFINE r == [hw[port] EXCEPT !.fre = FALSE]
  <2>1. /\ r \in Registers /\ r.ci = hw[port].ci /\ r.fre = FALSE
        /\ r.st = hw[port].st /\ r.cr = hw[port].cr /\ hw' = [hw EXCEPT ![port] = r]
        /\ pc' = "stop_fr"
    BY <1>0, <1>1 DEF Registers, stop_cmd_engine
  <2> HIDE DEF r
  <2>2. Stopped'
    BY <1>0, <1>1, <2>1 DEF AhciInv, Stopped, stop_cmd_engine
  <2>3. r.ci = {}
    BY <1>1, <2>1 DEF AhciInv, PortsAhead, Untouched, BringingUp
  <2> QED BY <1>0, <1>1, <2>1, <2>2, <2>3, PortStep DEF stop_cmd_engine, BringingUp
<1>2. CASE pc = "stop_fr" /\ ~hw[port].fr
  <2>1. pc' = "program" /\ hw' = [hw EXCEPT ![port] = hw[port]]
    BY <1>0, <1>2 DEF stop_cmd_engine
  <2>2. Stopped'
    BY <1>0, <1>2, <2>1 DEF AhciInv, Stopped, stop_cmd_engine
  <2>3. hw[port].ci = {}
    BY <1>2 DEF AhciInv, PortsAhead, Untouched, BringingUp
  <2> QED BY <1>0, <1>2, <2>1, <2>2, <2>3, PortStep DEF stop_cmd_engine, BringingUp
<1>3. CASE (pc = "stop_cr" /\ hw[port].cr) \/ (pc = "stop_fr" /\ hw[port].fr)
  BY <1>3, GiveUpStep DEF stop_cmd_engine, BringingUp
<1> QED BY <1>1, <1>2, <1>3 DEF stop_cmd_engine

\* init_port programs the addresses, clears the tables and turns FRE on, or
\* gives up.
LEMMA ProgramStep ==
  ASSUME AhciInv, Program
  PROVE  AhciInv'
<1>0. /\ hw \in [Port -> Registers] /\ port \in Port /\ hw[port] \in Registers
      /\ table \in [Port -> [Slot -> 0 .. MaxCommands]] /\ MaxCommands \in Nat
  BY AhciAssumption DEF AhciInv, TypeOK
<1>1. CASE pc' = "start"
  <2> DEFINE r == [hw[port] EXCEPT !.is = FALSE, !.fre = TRUE]
  <2>1. /\ r \in Registers /\ r.ci = hw[port].ci /\ r.st = hw[port].st /\ r.cr = hw[port].cr
        /\ hw' = [hw EXCEPT ![port] = r] /\ table' = [table EXCEPT ![port] = [s \in Slot |-> 0]]
        /\ UNCHANGED port
    BY <1>0, <1>1 DEF Registers, Program, ToNextPort
  <2> HIDE DEF r
  <2>2. Stopped'
    BY <1>0, <1>1, <2>1 DEF AhciInv, Stopped, Program
  <2>3. r.ci = {} /\ \A s \in Slot : table[port][s] = 0
    BY <1>1, <2>1 DEF AhciInv, PortsAhead, Untouched, BringingUp, Program
  <2>4. \A p \in Port, s \in Slot : table'[p][s] = table[p][s]
    BY <1>0, <2>1, <2>3
  <2>5. table' \in [Port -> [Slot -> 0 .. MaxCommands]]
    BY <1>0, <2>1
  <2> QED BY <1>1, <2>1, <2>2, <2>3, <2>4, <2>5, PortStep DEF Program, BringingUp
<1>2. CASE UNCHANGED <<table, hw>> /\ ToNextPort
  BY <1>2, GiveUpStep DEF Program, BringingUp
<1> QED BY <1>1, <1>2 DEF Program

--------------------------------------------------------------------------------
(* The driver moves on to a command, to the next port, or to the next client: *)
(* no slot is in work any more, and what is still in PxCI has timed out.      *)
MovesOn ==
  /\ TypeOK' /\ PortsAhead'
  /\ \A p \in Port : hw'[p].ci = hw[p].ci
  /\ pc' \in {"init_port", "ready", "idle"}
  /\ serial' = IF pc' = "ready" THEN serial + 1 ELSE serial
  /\ abandoned \subseteq abandoned'
  /\ pc = "poll" /\ slot \in hw[port].ci => serial \in abandoned'
  /\ ~routed /\ ~Spilled => succeeded' \subseteq finished
  /\ UNCHANGED <<routed, table, finished>>

\* There are finitely many commands, so those that timed out can be counted.
LEMMA CommandsFinite ==
  ASSUME NEW S \in SUBSET Command
  PROVE  IsFiniteSet(S) /\ Cardinality(S) \in Nat
<1>1. IsFiniteSet(Command)
  BY AhciAssumption, FS_Interval DEF Command
<1> QED BY <1>1, FS_Subset, FS_CardinalityType

\* Going on to the next port, the next command or none keeps the invariant.
LEMMA MovesOnStep ==
  ASSUME AhciInv, MovesOn
  PROVE  AhciInv'
<1>1. TypeOK' /\ PortsAhead'
  BY DEF MovesOn
<1>2. Stopped' /\ SlotNotInUse'
  BY DEF MovesOn, Stopped, SlotNotInUse
<1>3. Names'
  <2>1. serial \in Nat /\ \A p \in Port, s \in Slot : table[p][s] \in Nat
    BY AhciAssumption DEF AhciInv, TypeOK
  <2> QED BY <2>1 DEF AhciInv, MovesOn, Names
<1>4. NoStrayTransfer'
  <2> SUFFICES ASSUME ~routed, NEW p \in Port, NEW s \in hw[p].ci
               PROVE  table[p][s] \in abandoned'
    BY DEF MovesOn, NoStrayTransfer
  <2> QED BY DEF AhciInv, MovesOn, NoStrayTransfer, Names
<1>5. Spilled' <=> Spilled
  BY DEF MovesOn, Spilled
<1>6. Answers' /\ PolledOkMeansDone' /\ FrameFull'
  BY <1>5 DEF AhciInv, MovesOn, Answers, PolledOkMeansDone, FrameFull
<1>7. SpillsLate'
  <2>1. /\ Cardinality(abandoned) \in Nat /\ Cardinality(abandoned') \in Nat
        /\ Cardinality(abandoned) <= Cardinality(abandoned')
    <3>1. abandoned \in SUBSET Command /\ abandoned' \in SUBSET Command
      BY <1>1 DEF AhciInv, TypeOK
    <3> QED BY <3>1, CommandsFinite, FS_Subset DEF MovesOn
  <2> QED BY AhciAssumption, <1>5, <2>1 DEF AhciInv, MovesOn, SpillsLate
<1> QED BY <1>1, <1>2, <1>3, <1>4, <1>6, <1>7 DEF AhciInv

\* A port is published and the loop goes on with the ports behind it.
LEMMA PublishedAhead ==
  ASSUME AhciInv, NEW k \in {"Sata", "Satapi"}, ToNextPort, port \in Port,
         \A p \in Port : p > port => Untouched(p),
         \A p \in Port : hw'[p].ci = hw[p].ci,
         ports' = [ports EXCEPT ![port] = k], UNCHANGED table
  PROVE  PortsAhead'
<1>1. port \in Nat /\ ports \in [Port -> {"None", "Sata", "Satapi"}]
  BY DEF AhciInv, TypeOK, Port
<1>2. ASSUME NEW p \in Port, p > port
      PROVE  Untouched(p)'
  <2>1. ports'[p] = ports[p]
    BY <1>1, <1>2 DEF Port
  <2> QED BY <1>2, <2>1 DEF Untouched
<1>3. CASE port + 1 \in Port
  <2>1. pc' = "init_port" /\ port' = port + 1
    BY <1>3 DEF ToNextPort
  <2>2. port' \in Port /\ port' > port /\ \A p \in Port : p > port' => p > port
    BY <1>1, <1>3, <2>1 DEF Port
  <2> QED BY <1>2, <2>1, <2>2 DEF PortsAhead, Issuing
<1>4. CASE port + 1 \notin Port
  BY <1>4 DEF ToNextPort, PortsAhead, Issuing, BringingUp
<1> QED BY <1>3, <1>4

\* start_cmd_engine sets ST, and the port gets its identify command, or gives
\* up.
LEMMA start_cmd_engineStep ==
  ASSUME AhciInv, start_cmd_engine
  PROVE  AhciInv'
<1>0. /\ hw \in [Port -> Registers] /\ port \in Port /\ hw[port] \in Registers
      /\ serial \in Nat /\ MaxCommands \in Nat /\ pc = "start"
  BY AhciAssumption DEF AhciInv, TypeOK, start_cmd_engine
<1>1. \A p \in Port : p > port => Untouched(p)
  BY <1>0 DEF AhciInv, PortsAhead, BringingUp
<1>2. CASE hw[port].cr
  BY <1>0, <1>2, GiveUpStep DEF start_cmd_engine, BringingUp
<1>3. CASE ~hw[port].cr /\ pc' = "ready"
  <2> DEFINE r == [hw[port] EXCEPT !.fre = TRUE, !.st = TRUE]
  <2>1. /\ serial < MaxCommands /\ chunks' = 1 /\ serial' = serial + 1
        /\ UNCHANGED <<ports, port>> /\ hw' = [hw EXCEPT ![port] = r]
    BY <1>0, <1>3 DEF start_cmd_engine, ToNextPort
  <2>2. r \in Registers /\ r.ci = hw[port].ci
    BY <1>0 DEF Registers
  <2> HIDE DEF r
  <2>3. hw' \in [Port -> Registers] /\ \A p \in Port : hw'[p].ci = hw[p].ci
    BY <1>0, <2>1, <2>2
  <2>4. TypeOK'
    BY <1>0, <1>3, <2>1, <2>3 DEF AhciInv, TypeOK, start_cmd_engine, Issuing
  <2>5. PortsAhead'
    <3>1. \A p \in Port : p > port => Untouched(p)'
      BY <1>1, <2>1, <2>3 DEF Untouched, start_cmd_engine
    <3> QED BY <1>3, <2>1, <3>1 DEF PortsAhead, BringingUp
  <2> QED BY <1>0, <1>3, <2>1, <2>3, <2>4, <2>5, MovesOnStep
          DEF AhciInv, MovesOn, PolledOkMeansDone, start_cmd_engine
<1>4. CASE ~hw[port].cr /\ pc' # "ready"
  <2> DEFINE r == [hw[port] EXCEPT !.fre = TRUE, !.st = TRUE, !.ie = TRUE]
  <2>1. /\ ports' = [ports EXCEPT ![port] = "Satapi"] /\ ToNextPort
        /\ UNCHANGED <<chunks, serial>> /\ hw' = [hw EXCEPT ![port] = r]
    BY <1>0, <1>4 DEF start_cmd_engine
  <2>2. r \in Registers /\ r.ci = hw[port].ci
    BY <1>0 DEF Registers
  <2> HIDE DEF r
  <2>3. hw' \in [Port -> Registers] /\ \A p \in Port : hw'[p].ci = hw[p].ci
    BY <1>0, <2>1, <2>2
  <2>4. port' \in Port /\ pc' \in {"init_port", "idle"}
    BY <1>0, <2>1 DEF ToNextPort
  <2>5. TypeOK'
    BY <1>0, <2>1, <2>3, <2>4 DEF AhciInv, TypeOK, start_cmd_engine, Issuing, BringingUp
  <2>6. PortsAhead'
    BY <1>0, <1>1, <2>1, <2>3, PublishedAhead DEF start_cmd_engine
  <2> QED BY <1>0, <2>1, <2>3, <2>4, <2>5, <2>6, MovesOnStep
          DEF AhciInv, MovesOn, PolledOkMeansDone, start_cmd_engine
<1> QED BY <1>2, <1>3, <1>4

\* A read or write of one or two chunks begins.
LEMMA RequestStep ==
  ASSUME AhciInv, NEW p \in Port, NEW n \in 1 .. 2, Request(p, n)
  PROVE  AhciInv'
<1>0. serial \in Nat /\ MaxCommands \in Nat /\ ports[p] # "None"
  BY AhciAssumption DEF AhciInv, TypeOK, Request
<1>1. TypeOK'
  BY <1>0 DEF AhciInv, TypeOK, Request, Issuing
<1>2. PortsAhead'
  BY <1>0 DEF PortsAhead, Request, BringingUp
<1> QED BY <1>0, <1>1, <1>2, MovesOnStep DEF AhciInv, MovesOn, PolledOkMeansDone, Request

\* issue_command returns, from any of the places it returns from.
LEMMA ReturnStep ==
  ASSUME AhciInv, pc \in Issuing, NEW ok \in BOOLEAN, Return(ok),
         PENDING_SLOTS' \subseteq Slot,
         abandoned \subseteq abandoned', abandoned' \subseteq Command,
         pc = "poll" /\ slot \in hw[port].ci => serial \in abandoned',
         ~routed /\ ~Spilled => succeeded' \subseteq finished,
         UNCHANGED <<routed, table, SLOT_COMPLETION, slot, finished>>
  PROVE  AhciInv'
<1>0. /\ hw \in [Port -> Registers] /\ port \in Port /\ hw[port] \in Registers
      /\ serial \in Nat /\ chunks \in 0 .. 2 /\ MaxCommands \in Nat
      /\ chunks > 0 /\ serial > 0 /\ serial + chunks <= MaxCommands + 1
  BY AhciAssumption DEF AhciInv, TypeOK
<1>1. CASE ports[port] = "None"
  <2> DEFINE r == [hw[port] EXCEPT !.ie = TRUE]
  <2>1. /\ ports' = [ports EXCEPT ![port] = "Sata"] /\ ToNextPort
        /\ chunks' = 0 /\ UNCHANGED serial /\ hw' = [hw EXCEPT ![port] = r]
    BY <1>0, <1>1 DEF Return
  <2>2. r \in Registers /\ r.ci = hw[port].ci
    BY <1>0 DEF Registers
  <2> HIDE DEF r
  <2>3. hw' \in [Port -> Registers] /\ \A p \in Port : hw'[p].ci = hw[p].ci
    BY <1>0, <2>1, <2>2
  <2>4. port' \in Port /\ pc' \in {"init_port", "idle"}
    BY <1>0, <2>1 DEF ToNextPort
  <2>5. TypeOK'
    BY <1>0, <2>1, <2>3, <2>4 DEF AhciInv, TypeOK, Issuing, BringingUp
  <2>6. \A p \in Port : p > port => Untouched(p)
    BY <1>1 DEF AhciInv, PortsAhead
  <2>7. PortsAhead'
    BY <1>0, <2>1, <2>3, <2>6, PublishedAhead
  <2> QED BY <2>1, <2>3, <2>4, <2>5, <2>7, MovesOnStep DEF MovesOn
<1>2. CASE ports[port] # "None"
  <2>1. /\ UNCHANGED <<ports, hw, port>> /\ chunks' = IF ok THEN chunks - 1 ELSE 0
        /\ \/ chunks' > 0 /\ pc' = "ready" /\ serial' = serial + 1
           \/ ~(chunks' > 0) /\ pc' = "idle" /\ UNCHANGED serial
    BY <1>2 DEF Return
  <2>2. chunks' \in 0 .. 2 /\ (pc' = "ready" => serial' + chunks' <= MaxCommands + 1)
    BY <1>0, <2>1
  <2>3. TypeOK'
    BY <1>0, <2>1, <2>2 DEF AhciInv, TypeOK, Issuing
  <2>4. PortsAhead'
    BY <1>2, <2>1 DEF PortsAhead, BringingUp
  <2> QED BY <2>1, <2>3, <2>4, MovesOnStep DEF MovesOn
<1> QED BY <1>1, <1>2

\* issue_command finds no free slot and returns an error.
LEMMA NoSlotStep ==
  ASSUME AhciInv, NoSlot
  PROVE  AhciInv'
BY ReturnStep DEF AhciInv, TypeOK, PolledOkMeansDone, NoSlot, Issuing

\* issue_command gives up waiting; its command stays in PxCI, abandoned.
LEMMA PollTimeoutStep ==
  ASSUME AhciInv, PollTimeout
  PROVE  AhciInv'
<1>1. serial \in Command /\ abandoned \subseteq Command /\ PENDING_SLOTS \subseteq Slot
  BY AhciAssumption DEF AhciInv, TypeOK, PollTimeout, Issuing, Command
<1> QED BY <1>1, ReturnStep DEF AhciInv, PolledOkMeansDone, PollTimeout, Issuing

\* issue_command returns: Ok unless the error bit is set.
LEMMA CheckStep ==
  ASSUME AhciInv, Check
  PROVE  AhciInv'
<1>1. ~routed /\ ~Spilled => succeeded' \subseteq finished
  BY DEF AhciInv, PolledOkMeansDone, Answers, Check
<1>2. (~hw[port].err) \in BOOLEAN
  OBVIOUS
<1> QED BY <1>1, <1>2, ReturnStep DEF AhciInv, TypeOK, Check, Issuing

--------------------------------------------------------------------------------
(* issue_command takes the lowest free slot, builds the table and issues it. *)

\* What find_free_slot picks: a non-empty set of numbers has a least one.
LEMMA MinOfNats ==
  ASSUME NEW S \in SUBSET Nat, S # {}
  PROVE  Min(S) \in S /\ \A y \in S : Min(S) <= y
<1> DEFINE R == {ss \in Nat \X Nat : ss[1] < ss[2]}
<1>1. IsWellFoundedOn(R, Nat)
  <2>1. OpToRel(<, Nat) = R
    BY DEF OpToRel
  <2> QED BY <2>1, NatLessThanWellFounded
<1>2. \A x, y \in Nat : <<y, x>> \in R <=> y < x
  OBVIOUS
<1> HIDE DEF R
<1>3. \E x \in S : \A y \in S : ~(<<y, x>> \in R)
  BY <1>1, WFMin
<1>4. PICK x \in S : \A y \in S : ~(<<y, x>> \in R)
  BY <1>3
<1>5. \A y \in S : x <= y
  <2> TAKE y \in S
  <2>1. x \in Nat /\ y \in Nat /\ ~(y < x)
    BY <1>2, <1>4
  <2> QED BY <2>1
<1> QED BY <1>5 DEF Min

\* The slot taken is free, and every slot below it is in PxCI.
LEMMA LowestFreeSlot ==
  ASSUME AhciInv, TakeSlot
  PROVE  /\ slot' \in Slot /\ slot' \notin hw[port].ci
         /\ \A s \in Slot : s < slot' => s \in hw[port].ci
<1>1. find_free_slot(port) \in SUBSET Nat /\ find_free_slot(port) # {}
  BY AhciAssumption DEF TakeSlot, find_free_slot, Slot
<1>2. slot' \in find_free_slot(port) /\ \A s \in find_free_slot(port) : slot' <= s
  BY <1>1, MinOfNats DEF TakeSlot
<1>3. slot' \in Nat /\ \A s \in Slot : s \in Nat
  BY AhciAssumption, <1>2 DEF find_free_slot, Slot
<1>4. slot' \in Slot /\ slot' \notin hw[port].ci
  BY <1>2 DEF find_free_slot
<1>5. ASSUME NEW s \in Slot, s < slot', s \notin hw[port].ci
      PROVE  FALSE
  <2>1. slot' <= s
    BY <1>2, <1>5 DEF find_free_slot
  <2> QED BY <1>3, <1>5, <2>1
<1> QED BY <1>4, <1>5

\* With every slot of the frame in PxCI, as many commands have timed out.
LEMMA FullFrameTimedOut ==
  ASSUME AhciInv, ~routed, pc # "poll", NEW n \in Slot,
         \A s \in Slot : s < n => s \in hw[port].ci, n >= TablesPerFrame
  PROVE  Cardinality(abandoned) >= TablesPerFrame
<1> DEFINE W == 0 .. TablesPerFrame - 1
           f == [s \in W |-> table[port][s]]
<1>0. TablesPerFrame \in Nat \ {0} /\ port \in Port /\ n \in Nat
  BY AhciAssumption DEF AhciInv, TypeOK, Slot
<1>1. \A s \in W : s \in Slot /\ s \in hw[port].ci
  <2> TAKE s \in W
  <2>1. s \in Slot /\ s < n
    BY AhciAssumption, <1>0 DEF Slot
  <2> QED BY <2>1
<1>2. \A s \in W : table[port][s] \in abandoned /\ table[port][s] # 0
  <2> TAKE s \in W
  <2>1. table[port][s] \in abandoned
    BY <1>0, <1>1 DEF AhciInv, NoStrayTransfer
  <2> QED BY <2>1 DEF AhciInv, TypeOK, Command
<1>3. f \in Injection(W, abandoned)
  <2>1. f \in [W -> abandoned]
    BY <1>2
  <2>2. \A s, u \in W : f[s] = f[u] => s = u
    BY <1>0, <1>1, <1>2 DEF AhciInv, Names
  <2> QED BY <2>1, <2>2 DEF Injection, IsInjective
<1> HIDE DEF f
<1>4. IsFiniteSet(abandoned) /\ Cardinality(abandoned) \in Nat
  BY CommandsFinite DEF AhciInv, TypeOK
<1>5. IsFiniteSet(W) /\ Cardinality(W) = TablesPerFrame
  <2>1. /\ 0 \in Int /\ TablesPerFrame - 1 \in Int /\ ~(0 > TablesPerFrame - 1)
        /\ TablesPerFrame - 1 - 0 + 1 = TablesPerFrame
    BY <1>0
  <2> QED BY <2>1, FS_Interval
<1> HIDE DEF W
<1>6. Cardinality(W) <= Cardinality(abandoned)
  BY <1>3, <1>4, <1>5, FS_Injection
<1> QED BY <1>0, <1>4, <1>5, <1>6

\* find_free_slot answers with the lowest slot that has no bit in PxCI.
LEMMA TakeSlotStep ==
  ASSUME AhciInv, TakeSlot
  PROVE  AhciInv'
<1>0. /\ slot' \in Slot /\ slot' \notin hw[port].ci
      /\ \A s \in Slot : s < slot' => s \in hw[port].ci
  BY LowestFreeSlot
<1>1. TypeOK'
  BY <1>0 DEF AhciInv, TypeOK, TakeSlot, Issuing
<1>2. PortsAhead'
  BY DEF AhciInv, PortsAhead, TakeSlot, Untouched, BringingUp, Issuing
<1>3. Stopped' /\ SlotNotInUse'
  BY <1>0 DEF Stopped, SlotNotInUse, TakeSlot
<1>4. Names'
  BY DEF AhciInv, Names, TakeSlot
<1>5. NoStrayTransfer'
  BY DEF AhciInv, NoStrayTransfer, TakeSlot
<1>6. Answers'
  BY <1>0 DEF AhciInv, TypeOK, Answers, TakeSlot
<1>7. PolledOkMeansDone' /\ SpillsLate'
  BY DEF AhciInv, PolledOkMeansDone, SpillsLate, Spilled, TakeSlot
<1>8. FrameFull'
  BY <1>0, FullFrameTimedOut DEF FrameFull, TakeSlot
<1> QED BY <1>1, <1>2, <1>3, <1>4, <1>5, <1>6, <1>7, <1>8 DEF AhciInv

\* The header and the table of the slot are written, in the frame or behind it.
LEMMA BuildStep ==
  ASSUME AhciInv, Build
  PROVE  AhciInv'
<1>0. /\ table \in [Port -> [Slot -> 0 .. MaxCommands]] /\ MaxCommands \in Nat
      /\ port \in Port /\ slot \in Slot /\ serial \in 0 .. MaxCommands /\ serial > 0
      /\ hw \in [Port -> Registers] /\ slot \notin hw[port].ci
  BY AhciAssumption DEF AhciInv, TypeOK, SlotNotInUse, Build, Issuing
<1>1. /\ table' \in [Port -> [Slot -> 0 .. MaxCommands]]
      /\ table'[port][slot] = serial
      /\ \A p \in Port, s \in Slot : <<p, s>> # <<port, slot>> => table'[p][s] = table[p][s]
  BY <1>0 DEF Build
<1>2. TypeOK'
  BY <1>1 DEF AhciInv, TypeOK, Build, Issuing
<1>3. PortsAhead'
  <2>1. \A p \in Port : p > port /\ Untouched(p) => Untouched(p)'
    <3> SUFFICES ASSUME NEW p \in Port, p > port, Untouched(p)
                 PROVE  Untouched(p)'
      OBVIOUS
    <3>1. p # port
      BY <1>0 DEF Port
    <3> QED BY <1>1, <3>1 DEF Untouched, Build
  <2> QED BY <2>1 DEF AhciInv, PortsAhead, Build, BringingUp, Issuing
<1>4. Stopped' /\ SlotNotInUse'
  BY <1>0 DEF Stopped, SlotNotInUse, Build
<1>5. Names'
  <2>1. \A p \in Port, s \in Slot : table[p][s] < serial /\ table[p][s] \in Nat
    BY <1>0 DEF AhciInv, Names, Build
  <2>2. \A p \in Port, s \in Slot : table'[p][s] <= serial
    BY <1>0, <1>1, <2>1
  <2>3. ASSUME NEW p \in Port, NEW s \in Slot, NEW u \in Slot,
               table'[p][s] = table'[p][u], table'[p][s] # 0
        PROVE  s = u
    <3>1. CASE p = port /\ (s = slot \/ u = slot)
      BY <1>0, <1>1, <2>1, <2>3, <3>1
    <3>2. CASE ~(p = port /\ (s = slot \/ u = slot))
      BY <1>1, <2>3, <3>2 DEF AhciInv, Names
    <3> QED BY <3>1, <3>2
  <2> QED BY <1>1, <2>2, <2>3 DEF Names, Build
<1>6. NoStrayTransfer'
  <2> SUFFICES ASSUME ~routed, NEW p \in Port, NEW s \in hw[p].ci
               PROVE  table'[p][s] \in abandoned
    BY DEF NoStrayTransfer, Build
  <2>1. s \in Slot /\ <<p, s>> # <<port, slot>>
    BY <1>0 DEF Registers
  <2> QED BY <1>1, <2>1 DEF AhciInv, NoStrayTransfer, Build
<1>7. Spilled => Spilled'
  BY <1>0, <1>1 DEF Spilled
<1>8. Spilled' => Spilled \/ slot >= TablesPerFrame
  BY <1>0, <1>1 DEF Spilled
<1>9. Answers' /\ PolledOkMeansDone' /\ FrameFull'
  BY <1>7 DEF AhciInv, Answers, PolledOkMeansDone, FrameFull, Build
<1>10. SpillsLate'
  BY <1>8 DEF AhciInv, SpillsLate, FrameFull, Build
<1> QED BY <1>2, <1>3, <1>4, <1>5, <1>6, <1>9, <1>10 DEF AhciInv

\* The command is handed to the controller.
LEMMA WriteCiStep ==
  ASSUME AhciInv, WriteCi
  PROVE  AhciInv'
<1>0. /\ hw \in [Port -> Registers] /\ port \in Port /\ slot \in Slot
      /\ hw[port] \in Registers
  BY DEF AhciInv, TypeOK
<1> DEFINE r == [hw[port] EXCEPT !.ci = @ \cup {slot}]
<1>1. /\ r \in Registers /\ hw' = [hw EXCEPT ![port] = r]
      /\ r.ci = hw[port].ci \cup {slot} /\ r.err = hw[port].err
  BY <1>0 DEF Registers, WriteCi
<1> HIDE DEF r
<1>2. /\ hw' \in [Port -> Registers] /\ hw'[port] = r
      /\ \A p \in Port \ {port} : hw'[p] = hw[p]
  BY <1>0, <1>1
<1>3. TypeOK'
  BY <1>2 DEF AhciInv, TypeOK, WriteCi, Issuing
<1>4. PortsAhead'
  <2>1. \A p \in Port : p > port => p # port
    BY <1>0 DEF Port
  <2> QED BY <1>2, <2>1 DEF AhciInv, PortsAhead, Untouched, WriteCi, BringingUp, Issuing
<1>5. Stopped' /\ SlotNotInUse'
  BY DEF Stopped, SlotNotInUse, WriteCi
<1>6. Names'
  BY DEF AhciInv, Names, WriteCi
<1>7. NoStrayTransfer'
  <2> SUFFICES ASSUME ~routed, NEW p \in Port, NEW s \in hw'[p].ci, <<p, s>> # <<port, slot>>
               PROVE  table[p][s] \in abandoned
    BY DEF NoStrayTransfer, WriteCi
  <2>1. s \in hw[p].ci
    BY <1>1, <1>2
  <2> QED BY <2>1 DEF AhciInv, NoStrayTransfer, WriteCi
<1>8. Answers'
  BY <1>1, <1>2 DEF AhciInv, Answers, WriteCi
<1>9. PolledOkMeansDone' /\ FrameFull' /\ SpillsLate'
  BY DEF AhciInv, PolledOkMeansDone, FrameFull, SpillsLate, Spilled, WriteCi
<1> QED BY <1>3, <1>4, <1>5, <1>6, <1>7, <1>8, <1>9 DEF AhciInv

\* The poll loop finds the bit gone or the flag set.
LEMMA PolledStep ==
  ASSUME AhciInv, Polled
  PROVE  AhciInv'
<1>1. TypeOK'
  BY DEF AhciInv, TypeOK, Polled, Issuing
<1>2. PortsAhead'
  BY DEF AhciInv, PortsAhead, Untouched, Polled, BringingUp, Issuing
<1>3. Stopped' /\ SlotNotInUse' /\ FrameFull'
  BY DEF Stopped, SlotNotInUse, FrameFull, Polled
<1>4. Names'
  BY DEF AhciInv, Names, Polled
<1>5. ~routed => slot \notin hw[port].ci
  BY DEF AhciInv, Answers, Polled
<1>6. NoStrayTransfer'
  BY <1>5 DEF AhciInv, NoStrayTransfer, Polled
<1>7. Answers'
  BY <1>5 DEF AhciInv, Answers, Spilled, Polled
<1>8. PolledOkMeansDone' /\ SpillsLate'
  BY DEF AhciInv, PolledOkMeansDone, SpillsLate, Spilled, Polled
<1> QED BY <1>1, <1>2, <1>3, <1>4, <1>6, <1>7, <1>8 DEF AhciInv

--------------------------------------------------------------------------------
(* The invariant and what follows from it. *)

\* As firmware leaves the ports, without a command.
LEMMA AhciInit ==
  ASSUME Init
  PROVE  AhciInv
<1>1. /\ hw \in [Port -> Registers]
      /\ \A p \in Port : hw[p].ci = {}
  <2>1. \A r \in FirmwarePort : r \in Registers /\ r.ci = {}
    <3> TAKE r \in FirmwarePort
    <3>1. PICK p \in BOOLEAN, e \in BOOLEAN, f \in BOOLEAN :
            r = [present |-> p, st |-> e, cr |-> e, fre |-> f, fr |-> f, bsy |-> FALSE,
                 err |-> FALSE, ci |-> {}, is |-> FALSE, ie |-> FALSE]
      BY DEF FirmwarePort
    <3> QED BY <3>1 DEF Registers
  <2> QED BY <2>1 DEF Init
<1>2. TypeOK
  BY AhciAssumption, <1>1 DEF Init, TypeOK, Port, Slot, BringingUp, Issuing
<1>3. PortsAhead
  BY AhciAssumption, <1>1 DEF Init, PortsAhead, Untouched, Port
<1>4. ~Spilled
  BY DEF Init, Spilled
<1>5. Names
  BY DEF Init, Names
<1> QED BY <1>1, <1>2, <1>3, <1>4, <1>5
        DEF Init, AhciInv, Stopped, SlotNotInUse, NoStrayTransfer, Answers,
            PolledOkMeansDone, FrameFull, SpillsLate

\* A step that changes nothing.
LEMMA AhciStuttering ==
  ASSUME AhciInv, UNCHANGED vars
  PROVE  AhciInv'
<1>1. /\ UNCHANGED <<routed, hw, table, PENDING_SLOTS, SLOT_COMPLETION, finished>>
      /\ UNCHANGED <<ports, pc, port, slot, chunks, serial, succeeded, abandoned>>
  BY DEF vars, driver
<1>2. TypeOK' /\ PortsAhead' /\ Stopped' /\ SlotNotInUse' /\ Names'
  BY <1>1 DEF AhciInv, TypeOK, PortsAhead, Untouched, Stopped, SlotNotInUse, Names
<1>3. NoStrayTransfer' /\ Answers' /\ PolledOkMeansDone' /\ FrameFull' /\ SpillsLate'
  BY <1>1 DEF AhciInv, NoStrayTransfer, Answers, PolledOkMeansDone, FrameFull,
              SpillsLate, Spilled
<1> QED BY <1>2, <1>3 DEF AhciInv

\* The inductive invariant holds in every state of the driver and the controller.
THEOREM AhciInvariant == Spec => []AhciInv
<1>1. Init => AhciInv
  BY AhciInit
<1>2. AhciInv /\ [Next]_vars => AhciInv'
  <2> SUFFICES ASSUME AhciInv, [Next]_vars
               PROVE  AhciInv'
    OBVIOUS
  <2>1. CASE Driver
    BY <2>1, init_portStep, stop_cmd_engineStep, ProgramStep, start_cmd_engineStep,
       TakeSlotStep, NoSlotStep, BuildStep, WriteCiStep, PolledStep, PollTimeoutStep,
       CheckStep DEF Driver
  <2>2. ASSUME NEW p \in Port, NEW n \in 1 .. 2, Request(p, n)
        PROVE  AhciInv'
    BY <2>2, RequestStep
  <2>3. CASE ahci_irq_handler
    BY <2>3, ahci_irq_handlerCalm, CalmStep
  <2>4. ASSUME NEW p \in Port, HwEngine(p) \/ HwBegin(p) \/ HwFinish(p) \/ HwFail(p)
        PROVE  AhciInv'
    BY <2>4, HwEngineCalm, HwBeginCalm, HwFinishCalm, HwFailCalm, CalmStep
  <2>5. CASE Idle \/ UNCHANGED vars
    BY <2>5, AhciStuttering DEF Idle
  <2> QED BY <2>1, <2>2, <2>3, <2>4, <2>5 DEF Next, Controller
<1> QED BY <1>1, <1>2, PTL DEF Spec

\* issue_command never rewrites a table or header that the controller still
\* holds: find_free_slot asks PxCI, and nothing sets a bit before the driver.
THEOREM AhciSlotNotInUse == Spec => []SlotNotInUse
BY AhciInvariant, PTL DEF AhciInv

\* init_port moves the command list and FIS area of a port only after both
\* engines have reported that they are at rest.
THEOREM AhciProgrammedAtRest == Spec => []ProgrammedAtRest
<1>1. AhciInv => ProgrammedAtRest
  BY DEF AhciInv, Stopped, ProgrammedAtRest
<1> QED BY <1>1, AhciInvariant, PTL

\* With completion by polling, Ok from issue_command means that the controller
\* has carried the command out, whatever completes late.
THEOREM AhciPolledOkMeansDone == Spec => []PolledOkMeansDone
BY AhciInvariant, PTL DEF AhciInv

\* Whoever has come past Program has called alloc_dma.
Reached ==
  \/ pc \in {"start"} \cup Issuing
  \/ \E p \in Port : ports[p] # "None"
  \/ \E p \in Port, s \in Slot : table[p][s] # 0

TablesZeroed ==
  /\ Reached /\ NumSlots > TablesPerFrame => overrun
  /\ overrun => NumSlots > TablesPerFrame

\* Program is the one step that gets there.
LEMMA ReachedStep ==
  ASSUME TypeOK, [Next]_vars, ~Program
  PROVE  (Reached' => Reached) /\ overrun' = overrun
<1> USE DEF Reached, Issuing
<1>1. CASE UNCHANGED vars \/ Idle
  BY <1>1 DEF Idle, vars, driver
<1>2. CASE init_port \/ stop_cmd_engine
  BY <1>2 DEF init_port, stop_cmd_engine, ToNextPort
<1>3. CASE start_cmd_engine \/ TakeSlot \/ WriteCi \/ Polled
  BY <1>3 DEF start_cmd_engine, TakeSlot, WriteCi, Polled
<1>4. CASE NoSlot \/ PollTimeout \/ Check \/ Build
  BY <1>4 DEF NoSlot, PollTimeout, Check, Build
<1>5. ASSUME NEW p \in Port, NEW n \in 1 .. 2, Request(p, n)
      PROVE  (Reached' => Reached) /\ overrun' = overrun
  BY <1>5 DEF Request
<1>6. CASE ahci_irq_handler
  BY <1>6 DEF ahci_irq_handler, driver
<1>7. ASSUME NEW p \in Port, HwEngine(p) \/ HwBegin(p) \/ HwFinish(p) \/ HwFail(p)
      PROVE  (Reached' => Reached) /\ overrun' = overrun
  BY <1>7 DEF HwEngine, HwBegin, HwFinish, HwFail, driver
<1> QED
  BY <1>1, <1>2, <1>3, <1>4, <1>5, <1>6, <1>7 DEF Next, Driver, Controller

\* Memory is zeroed at the latest when there are tables to build commands in.
LEMMA TablesZeroedStep ==
  ASSUME TypeOK, TablesZeroed, [Next]_vars
  PROVE  TablesZeroed'
<1>1. CASE ~Program
  BY <1>1, ReachedStep DEF TablesZeroed
<1>2. CASE Program /\ alloc_dma
  BY <1>2 DEF TablesZeroed, alloc_dma
<1>3. CASE Program /\ ~alloc_dma
  <2>1. /\ UNCHANGED <<table, ports, overrun>>
        /\ pc' = "init_port" \/ pc' = "idle"
    BY <1>3 DEF Program, ToNextPort
  <2> QED BY <2>1 DEF TablesZeroed, Reached, Issuing
<1> QED BY <1>1, <1>2, <1>3

\* alloc_dma marks one frame: the driver writes outside it only with more slots
\* than a frame holds tables, first when a port is brought up, and with commands
\* only after as many have timed out as the frame holds tables.
THEOREM AhciTablesStayInFrame == Spec => []TablesStayInFrame
<1>1. Init => TablesZeroed
  BY DEF Init, TablesZeroed, Reached, Issuing
<1>2. AhciInv /\ TablesZeroed /\ [Next]_vars => TablesZeroed'
  BY TablesZeroedStep DEF AhciInv
<1>3. AhciInv /\ TablesZeroed => TablesStayInFrame
  <2> SUFFICES ASSUME AhciInv, TablesZeroed PROVE TablesStayInFrame
    OBVIOUS
  <2>1. Spilled => Reached /\ NumSlots > TablesPerFrame
    BY AhciAssumption DEF Spilled, Reached, Slot
  <2> QED BY <2>1 DEF AhciInv, SpillsLate, TablesZeroed, TablesStayInFrame
<1> QED BY <1>1, <1>2, <1>3, AhciInvariant, PTL DEF Spec

\* Only commands that have timed out are still in the controller's hands after
\* issue_command has returned.
THEOREM AhciNoStrayTransfer == Spec => []NoStrayTransfer
BY AhciInvariant, PTL DEF AhciInv
================================================================================
