-------------------------------- MODULE Mailbox --------------------------------
(***************************************************************************)
(* send_message and receive_message of src/src/task.rs, on the scheduler.  *)
(*                                                                         *)
(* Neither masks interrupts, so a tick can come between any two of their   *)
(* steps.  Nothing in the kernel calls them yet; the model gives them the  *)
(* callers they can have, the two kernel threads: the shell (slot 0)       *)
(* sends, the worker (slot 1) sends and receives.  A process has no system *)
(* call for either.                                                        *)
(***************************************************************************)
EXTENDS Scheduler

CONSTANTS
  Dest,        \* the task ids messages are sent to (a task's id is its slot)
  NoMessage    \* mailbox = None

ASSUME DestAssumption == Dest \subseteq Slots /\ NoMessage \notin Slots

VARIABLES
  mailbox,     \* per slot: the sender of the message in it, or NoMessage
  ipc,         \* per slot: its call in progress
  owed,        \* history: per slot, the messages stored and not yet taken
  raced,       \* history: slots two senders found empty at the same time
  missed       \* history: slots that blocked after their wake-up had come

mail == <<mailbox, ipc, owed, raced, missed>>
allvars == <<vars, mail>>

NoCall == [pc |-> "none", dest |-> 0]
Call == [pc : {"none", "store", "wake", "block", "yield"}, dest : Slots]

MInit ==
  /\ Init
  /\ mailbox = [i \in Slots |-> NoMessage]
  /\ ipc = [i \in Slots |-> NoCall]
  /\ owed = [i \in Slots |-> {}]
  /\ raced = {}
  /\ missed = {}

\* Slot i is a kernel thread that runs with a frame of its own, outside spawn.
Runs(i) ==
  /\ CURRENT_TASK = i /\ ~halted
  /\ i \in {0, 1} /\ threads = 2 /\ TASK_INITIALIZED
  /\ sp[i] = "live" /\ ~is_ring3[i] /\ state[i] = "Running"
  /\ i = 0 => spawner.pc = "idle" /\ ~pmm

--------------------------------------------------------------------------------
(* send_message *)

\* Mutant of send_message: the mailbox may be full.
send_messageOverwrites(i, d) ==
  /\ Runs(i) /\ ipc[i].pc = "none"
  /\ state[d] # "Terminated"
  /\ ipc' = [ipc EXCEPT ![i] = [pc |-> "store", dest |-> d]]
  /\ raced' = IF \E j \in Slots : ipc[j] = [pc |-> "store", dest |-> d]
                THEN raced \cup {d} ELSE raced
  /\ UNCHANGED <<vars, mailbox, owed, missed>>

\* The tests: a task that is not Terminated, with an empty mailbox.  A call that
\* fails one of them returns an error and changes nothing.
send_message(i, d) ==
  /\ Runs(i) /\ ipc[i].pc = "none"
  /\ state[d] # "Terminated" /\ mailbox[d] = NoMessage
  /\ ipc' = [ipc EXCEPT ![i] = [pc |-> "store", dest |-> d]]
  /\ raced' = IF \E j \in Slots : ipc[j] = [pc |-> "store", dest |-> d]
                THEN raced \cup {d} ELSE raced
  /\ UNCHANGED <<vars, mailbox, owed, missed>>

StoreMessage(i) ==
  LET d == ipc[i].dest IN
  /\ Runs(i) /\ ipc[i].pc = "store"
  /\ mailbox' = [mailbox EXCEPT ![d] = i]
  /\ owed' = [owed EXCEPT ![d] = @ \cup {i}]
  /\ ipc' = [ipc EXCEPT ![i].pc = "wake"]
  /\ UNCHANGED <<vars, raced, missed>>

\* Mutant of Wake: a blocked receiver is left alone.
WakeNot(i) ==
  /\ Runs(i) /\ ipc[i].pc = "wake"
  /\ missed' = IF ipc[ipc[i].dest].pc = "block" THEN missed \cup {ipc[i].dest} ELSE missed
  /\ ipc' = [ipc EXCEPT ![i] = NoCall]
  /\ UNCHANGED <<vars, mailbox, owed, raced>>

\* The destination is made Ready if it is Blocked already.
Wake(i) ==
  LET d == ipc[i].dest IN
  /\ Runs(i) /\ ipc[i].pc = "wake"
  /\ state' = [state EXCEPT ![d] = IF @ = "Blocked" THEN "Ready" ELSE @]
  /\ missed' = IF ipc[d].pc = "block" THEN missed \cup {d} ELSE missed
  /\ ipc' = [ipc EXCEPT ![i] = NoCall]
  /\ UNCHANGED <<fields, sp, cpu, TASK_INITIALIZED, allocated, spawner, threads, torn,
                 pmm, halted, mailbox, owed, raced>>

--------------------------------------------------------------------------------
(* receive_message, called by the worker *)

\* The message is taken, or there is none.
receive_message(i) ==
  /\ Runs(i) /\ i = 1 /\ ipc[i].pc = "none"
  /\ IF mailbox[i] # NoMessage
       THEN /\ mailbox' = [mailbox EXCEPT ![i] = NoMessage]
            /\ owed' = [owed EXCEPT ![i] = @ \ {mailbox[i]}]
            /\ UNCHANGED ipc
       ELSE /\ ipc' = [ipc EXCEPT ![i].pc = "block"]
            /\ UNCHANGED <<mailbox, owed>>
  /\ UNCHANGED <<vars, raced, missed>>

\* The switch that follows, by yield_now or by a tick, is Tick.
Block(i) ==
  /\ Runs(i) /\ ipc[i].pc = "block"
  /\ state' = [state EXCEPT ![i] = "Blocked"]
  /\ ipc' = [ipc EXCEPT ![i].pc = "yield"]
  /\ UNCHANGED <<fields, sp, cpu, TASK_INITIALIZED, allocated, spawner, threads, torn,
                 pmm, halted, mailbox, owed, raced, missed>>

--------------------------------------------------------------------------------
\* A scheduler step; the shell spawns and takes frames only outside its own calls.
SchedulerStep ==
  /\ Next
  /\ spawner' # spawner \/ pmm' # pmm => ipc[0].pc = "none"
  /\ UNCHANGED mail

MNext ==
  \/ SchedulerStep
  \/ \E i \in {0, 1} : \/ \E d \in Dest : send_message(i, d)
                       \/ StoreMessage(i) \/ Wake(i) \/ receive_message(i) \/ Block(i)

MSpec == MInit /\ [][MNext]_allvars

\* The timer is periodic, as for the scheduler alone.
MFairSpec ==
  MSpec /\ WF_allvars(Tick /\ UNCHANGED mail) /\ WF_allvars(Crash /\ UNCHANGED mail)

--------------------------------------------------------------------------------
(* Properties *)

MailTypeOK ==
  /\ mailbox \in [Slots -> Slots \cup {NoMessage}]
  /\ ipc \in [Slots -> Call]
  /\ owed \in [Slots -> SUBSET Slots]
  /\ raced \subseteq Slots
  /\ missed \subseteq Slots

\* Unless two senders found the mailbox empty at the same time, no message that
\* send_message has stored is overwritten, and none is received twice: the
\* messages stored and not yet taken are the one in the mailbox.
MessageKept ==
  \A d \in Slots \ raced : owed[d] = {mailbox[d]} \ {NoMessage}

\* A task stays Blocked over a message only while the sender has not come to
\* its wake-up, or when the wake-up came after the receiver had found its
\* mailbox empty and before it was Blocked: then it sleeps until another send,
\* which finds the mailbox full.
WokenUp ==
  \A d \in Slots \ missed : state[d] = "Blocked" /\ mailbox[d] # NoMessage
    => \E i \in Slots : ipc[i] = [pc |-> "wake", dest |-> d]
================================================================================
