------------------------------ MODULE RoundRobin -------------------------------
(***************************************************************************)
(* The task slots of src/src/task.rs and the round-robin search of         *)
(* run_schedule, shared by the modules that model a scheduler step.        *)
(***************************************************************************)
EXTENDS Naturals

CONSTANT MAX_TASKS

ASSUME MaxTasksAssumption == MAX_TASKS \in Nat \ {0}

Slots == 0 .. MAX_TASKS - 1
TaskState == {"Ready", "Running", "Blocked", "Terminated"}

\* The k-th slot the search looks at when it starts after slot i.
Probe(i, k) == (i + k) % MAX_TASKS

\* Mutant of IsNextReady: the search restarts at slot 0 on every call.
IsNextReadyFromZero(st, i, n) ==
  \E k \in 1 .. MAX_TASKS :
    /\ n = Probe(0, k - 1)
    /\ st[n] = "Ready"
    /\ \A j \in 1 .. k - 1 : st[Probe(0, j - 1)] # "Ready"

\* n is the first Ready slot after i, i itself coming last.
IsNextReady(st, i, n) ==
  \E k \in 1 .. MAX_TASKS :
    /\ n = Probe(i, k)
    /\ st[n] = "Ready"
    /\ \A j \in 1 .. k - 1 : st[Probe(i, j)] # "Ready"
================================================================================
