------------------------------ MODULE BoundedFifo ------------------------------
(***************************************************************************)
(* What the kernel's keyboard/serial input queue promises its callers: a   *)
(* first-in first-out queue of at most Capacity bytes whose operations     *)
(* take effect at one instant.  An enqueue that finds the queue full       *)
(* throws the new byte away; a dequeue that finds it empty says so.        *)
(*                                                                         *)
(* This is the abstract specification; RingBuffer is the code's.           *)
(***************************************************************************)
EXTENDS Naturals, Sequences

CONSTANTS
  Byte,       \* the values that travel through the queue
  None,       \* the "no byte available" answer of a dequeue
  Capacity    \* the most bytes the queue ever holds

VARIABLES
  queue,      \* the bytes accepted and not yet handed out, oldest first
  stored,     \* TRUE iff the last completed enqueue kept its byte
  out         \* what the last completed dequeue returned

vars == <<queue, stored, out>>

Init ==
  /\ queue = << >>
  /\ stored = TRUE
  /\ out = None

Enqueue ==
  /\ Len(queue) < Capacity
  /\ \E b \in Byte : queue' = Append(queue, b)
  /\ stored' = TRUE
  /\ UNCHANGED out

\* A byte may be dropped only when there is no room for it.
Drop ==
  /\ Len(queue) = Capacity
  /\ stored' = FALSE
  /\ UNCHANGED <<queue, out>>

Dequeue ==
  /\ queue # << >>
  /\ out' = Head(queue)
  /\ queue' = Tail(queue)
  /\ UNCHANGED stored

\* "Nothing there" may be answered only when nothing is there.
DequeueEmpty ==
  /\ queue = << >>
  /\ out' = None
  /\ UNCHANGED <<queue, stored>>

Next == Enqueue \/ Drop \/ Dequeue \/ DequeueEmpty

Spec == Init /\ [][Next]_vars
================================================================================
