------------------------------ MODULE RingBuffer -------------------------------
(***************************************************************************)
(* The input ring buffer of src/src/interrupts.rs: the UART interrupt      *)
(* handler calls enqueue_byte, the shell and the read paths call           *)
(* dequeue_byte.  No lock protects it; HEAD and TAIL are atomics and the   *)
(* slot array is a plain static.  Every load and store of shared state is  *)
(* a step of its own, so one side can be anywhere inside its function      *)
(* while the other runs.                                                   *)
(*                                                                         *)
(* One producer and one consumer at a time: interrupt handlers do not      *)
(* nest, and both callers of dequeue_byte (shell::run and sys_read) hold   *)
(* interrupts masked around it.  The Acquire/Release pairs on HEAD and     *)
(* TAIL let the steps be read as sequentially consistent.                  *)
(***************************************************************************)
EXTENDS Naturals, Sequences

CONSTANTS
  Byte,         \* the byte values, only ever moved and compared
  None,         \* Option::None
  BUFFER_SIZE   \* number of slots

ASSUME BufferSizeAssumption == BUFFER_SIZE \in Nat /\ BUFFER_SIZE >= 2
ASSUME NoneAssumption == None \notin Byte

VARIABLES
  INPUT_BUFFER,   \* the slots
  HEAD,           \* next slot to read, written by the consumer only
  TAIL,           \* next slot to write, written by the producer only
  prod,           \* enqueue_byte in progress: where it is, its byte and current_tail
  cons,           \* dequeue_byte in progress: where it is, its byte and current_head
  stored,         \* history: did the last finished enqueue keep its byte
  out             \* history: what the last finished dequeue returned

vars == <<INPUT_BUFFER, HEAD, TAIL, prod, cons, stored, out>>

Slots == 0 .. BUFFER_SIZE - 1
next_index(i) == (i + 1) % BUFFER_SIZE

\* INPUT_BUFFER is zero-initialised; which byte that is does not matter, so
\* the model lets it be any one.
Init ==
  /\ \E zero \in Byte :
       /\ INPUT_BUFFER = [i \in Slots |-> zero]
       /\ prod = [pc |-> "idle", byte |-> zero, current_tail |-> 0]
       /\ cons = [pc |-> "idle", byte |-> zero, current_head |-> 0]
  /\ HEAD = 0
  /\ TAIL = 0
  /\ stored = TRUE
  /\ out = None

--------------------------------------------------------------------------------
(* enqueue_byte *)

EnqueueLoadTail ==
  /\ prod.pc = "idle"
  /\ \E b \in Byte : prod' = [pc |-> "check", byte |-> b, current_tail |-> TAIL]
  /\ UNCHANGED <<INPUT_BUFFER, HEAD, TAIL, cons, stored, out>>

\* Mutant of EnqueueCheck: the full test is missing, the byte is always kept.
EnqueueCheckMissing ==
  /\ prod.pc = "check"
  /\ prod' = [prod EXCEPT !.pc = "write"]
  /\ UNCHANGED <<INPUT_BUFFER, HEAD, TAIL, cons, stored, out>>

EnqueueCheck ==
  /\ prod.pc = "check"
  /\ IF next_index(prod.current_tail) # HEAD
       THEN /\ prod' = [prod EXCEPT !.pc = "write"]
            /\ UNCHANGED stored
       ELSE /\ prod' = [prod EXCEPT !.pc = "idle"]
            /\ stored' = FALSE
  /\ UNCHANGED <<INPUT_BUFFER, HEAD, TAIL, cons, out>>

EnqueueWrite ==
  /\ prod.pc = "write"
  /\ INPUT_BUFFER' = [INPUT_BUFFER EXCEPT ![prod.current_tail] = prod.byte]
  /\ prod' = [prod EXCEPT !.pc = "publish"]
  /\ UNCHANGED <<HEAD, TAIL, cons, stored, out>>

EnqueuePublish ==
  /\ prod.pc = "publish"
  /\ TAIL' = next_index(prod.current_tail)
  /\ prod' = [prod EXCEPT !.pc = "idle"]
  /\ stored' = TRUE
  /\ UNCHANGED <<INPUT_BUFFER, HEAD, cons, out>>

--------------------------------------------------------------------------------
(* dequeue_byte *)

DequeueLoadHead ==
  /\ cons.pc = "idle"
  /\ cons' = [cons EXCEPT !.pc = "check", !.current_head = HEAD]
  /\ UNCHANGED <<INPUT_BUFFER, HEAD, TAIL, prod, stored, out>>

DequeueCheck ==
  /\ cons.pc = "check"
  /\ IF cons.current_head = TAIL
       THEN /\ cons' = [cons EXCEPT !.pc = "idle"]
            /\ out' = None
       ELSE /\ cons' = [cons EXCEPT !.pc = "read"]
            /\ UNCHANGED out
  /\ UNCHANGED <<INPUT_BUFFER, HEAD, TAIL, prod, stored>>

\* Mutant of DequeueRead: frees the slot before its byte has been copied out.
DequeueReadEarlyFree ==
  /\ cons.pc = "read"
  /\ HEAD' = next_index(cons.current_head)
  /\ cons' = [cons EXCEPT !.pc = "advance",
                          !.byte = INPUT_BUFFER[cons.current_head]]
  /\ UNCHANGED <<INPUT_BUFFER, TAIL, prod, stored, out>>

DequeueRead ==
  /\ cons.pc = "read"
  /\ cons' = [cons EXCEPT !.pc = "advance",
                          !.byte = INPUT_BUFFER[cons.current_head]]
  /\ UNCHANGED <<INPUT_BUFFER, HEAD, TAIL, prod, stored, out>>

DequeueAdvance ==
  /\ cons.pc = "advance"
  /\ HEAD' = next_index(cons.current_head)
  /\ cons' = [cons EXCEPT !.pc = "idle"]
  /\ out' = cons.byte
  /\ UNCHANGED <<INPUT_BUFFER, TAIL, prod, stored>>

--------------------------------------------------------------------------------
enqueue_byte == EnqueueLoadTail \/ EnqueueCheck \/ EnqueueWrite \/ EnqueuePublish
dequeue_byte == DequeueLoadHead \/ DequeueCheck \/ DequeueRead \/ DequeueAdvance

Next == enqueue_byte \/ dequeue_byte

Spec == Init /\ [][Next]_vars

--------------------------------------------------------------------------------
(* Properties *)

TypeOK ==
  /\ INPUT_BUFFER \in [Slots -> Byte]
  /\ HEAD \in Slots
  /\ TAIL \in Slots
  /\ prod \in [pc : {"idle", "check", "write", "publish"},
               byte : Byte, current_tail : Slots]
  /\ cons \in [pc : {"idle", "check", "read", "advance"},
               byte : Byte, current_head : Slots]
  /\ stored \in BOOLEAN
  /\ out \in Byte \cup {None}

\* Distance(h, t) slots are occupied between HEAD = h and TAIL = t; the k-th
\* of them, counting from 0, is SlotAt(h, k).
Distance(h, t) == (t + BUFFER_SIZE - h) % BUFFER_SIZE
SlotAt(h, k) == (h + k) % BUFFER_SIZE

ContentsOf(buf, h, t) == [k \in 1 .. Distance(h, t) |-> buf[SlotAt(h, k - 1)]]
Contents == ContentsOf(INPUT_BUFFER, HEAD, TAIL)

\* The slot array is an unsynchronised `static mut`, so enqueue_byte storing
\* into a slot while dequeue_byte loads the same one would be a data race.
\* The two index checks must keep the sides on different slots although each
\* acts on an index it read several steps earlier.
NoDataRace ==
  (prod.pc = "write" /\ cons.pc = "read") => prod.current_tail # cons.current_head

Fifo == INSTANCE BoundedFifo
          WITH queue <- Contents, Capacity <- BUFFER_SIZE - 1

\* The lock-free code implements the bounded FIFO: bytes come out unchanged
\* and in order, one is dropped only when BUFFER_SIZE - 1 are waiting, and
\* dequeue_byte answers None only when none is.
ImplementsFifo == Fifo!Spec

--------------------------------------------------------------------------------
(* The inductive invariant of the proofs. *)

\* Each side's private copy of its own index is still current.
LocalsFresh ==
  /\ prod.pc # "idle" => prod.current_tail = TAIL
  /\ cons.pc # "idle" => cons.current_head = HEAD

\* Once a check has passed it stays passed: only the other side can move the
\* other index, and only in the direction that keeps the condition true.
ChecksHold ==
  /\ prod.pc \in {"write", "publish"} => next_index(TAIL) # HEAD
  /\ cons.pc \in {"read", "advance"} => HEAD # TAIL
  /\ prod.pc = "publish" => INPUT_BUFFER[TAIL] = prod.byte
  /\ cons.pc = "advance" => INPUT_BUFFER[HEAD] = cons.byte

IndInv == TypeOK /\ LocalsFresh /\ ChecksHold
================================================================================
