--------------------------------- MODULE Locks ---------------------------------
(***************************************************************************)
(* The two locks of the kernel on one CPU: sync::Spinlock, which masks     *)
(* interrupts while it spins and while it is held (Masks = TRUE), and      *)
(* memory::Mutex, which guards the frame bitmap and the heap and masks     *)
(* nothing (Masks = FALSE).  Kernel threads take locks in preemptible      *)
(* code, nested in a fixed order; processes take the first one inside a    *)
(* trap (a page fault, a teardown), which runs with interrupts masked.     *)
(***************************************************************************)
EXTENDS Integers, Sequences

CONSTANTS
  Threads,     \* number of kernel threads
  Processes,   \* number of processes, after the threads in the round robin
  Locks,       \* number of locks; a task nests them in increasing order
  Masks        \* which of the two implementations

ASSUME LocksAssumption ==
  /\ {Threads, Processes} \subseteq Nat /\ Threads + Processes > 0
  /\ Locks \in Nat \ {0} /\ Masks \in BOOLEAN

VARIABLES
  cur,      \* the task on the CPU
  iflag,    \* per task: its interrupt flag, in the CPU or in its saved frame
  locked,   \* per lock: the lock word
  want,     \* per task: the lock it spins on and its saved_interrupt_state, or none
  held,     \* per task: its guards, oldest first
  dropped,  \* per task: the guard whose drop() is half done, or none
  trapped   \* per task: it is in a trap

vars == <<cur, iflag, locked, want, held, dropped, trapped>>

Task == 0 .. Threads + Processes - 1
IsThread(t) == t < Threads
Lock == 1 .. Locks
Guard == [lock : Lock, saved : BOOLEAN]
NoGuard == << >>

\* The newest guard of a task, and the ones below it.
Last(guards) == guards[Len(guards)]
Front(guards) == SubSeq(guards, 1, Len(guards) - 1)

Spinning(t) == want[t] # NoGuard
Dropping(t) == dropped[t] # NoGuard

Init ==
  /\ cur = 0
  /\ iflag = [t \in Task |-> TRUE]
  /\ locked = [l \in Lock |-> FALSE]
  /\ want = [t \in Task |-> NoGuard]
  /\ held = [t \in Task |-> << >>]
  /\ dropped = [t \in Task |-> NoGuard]
  /\ trapped = [t \in Task |-> FALSE]

--------------------------------------------------------------------------------
\* The flags after the first line of Spinlock::lock; a Mutex leaves them alone.
disable_and_save_interrupts(t) == IF Masks THEN [iflag EXCEPT ![t] = FALSE] ELSE iflag

\* Mutant of lock: the interrupt flag is saved but not cleared.
lockUnmasked(t, l) ==
  /\ cur = t /\ ~Spinning(t) /\ ~Dropping(t)
  /\ \A i \in DOMAIN held[t] : held[t][i].lock < l
  /\ IsThread(t) \/ (trapped[t] /\ l = 1)
  /\ want' = [want EXCEPT ![t] = [lock |-> l, saved |-> iflag[t]]]
  /\ UNCHANGED <<cur, iflag, locked, held, dropped, trapped>>

\* lock(): save and clear the interrupt flag, then spin.
lock(t, l) ==
  /\ cur = t /\ ~Spinning(t) /\ ~Dropping(t)
  /\ \A i \in DOMAIN held[t] : held[t][i].lock < l
  /\ IsThread(t) \/ (trapped[t] /\ l = 1)
  /\ want' = [want EXCEPT ![t] = [lock |-> l, saved |-> iflag[t]]]
  /\ iflag' = disable_and_save_interrupts(t)
  /\ UNCHANGED <<cur, locked, held, dropped, trapped>>

\* Mutant of Acquire: the lock word is tested but not swapped.
AcquireWithoutSwap(t) ==
  /\ cur = t /\ Spinning(t) /\ ~locked[want[t].lock]
  /\ held' = [held EXCEPT ![t] = Append(@, want[t])]
  /\ want' = [want EXCEPT ![t] = NoGuard]
  /\ UNCHANGED <<cur, iflag, locked, dropped, trapped>>

\* The swap that finds the lock word clear.  One that finds it set changes
\* nothing: the task spins on.
Acquire(t) ==
  /\ cur = t /\ Spinning(t) /\ ~locked[want[t].lock]
  /\ locked' = [locked EXCEPT ![want[t].lock] = TRUE]
  /\ held' = [held EXCEPT ![t] = Append(@, want[t])]
  /\ want' = [want EXCEPT ![t] = NoGuard]
  /\ UNCHANGED <<cur, iflag, dropped, trapped>>

\* drop() of the newest guard, first part: clear the lock word.
Release(t) ==
  /\ cur = t /\ ~Spinning(t) /\ ~Dropping(t) /\ held[t] # << >>
  /\ locked' = [locked EXCEPT ![Last(held[t]).lock] = FALSE]
  /\ held' = [held EXCEPT ![t] = Front(@)]
  /\ dropped' = [dropped EXCEPT ![t] = Last(held[t])]
  /\ UNCHANGED <<cur, iflag, want, trapped>>

\* Mutant of Restore: enables interrupts whatever their state was at lock time.
RestoreAlways(t) ==
  /\ cur = t /\ Dropping(t)
  /\ iflag' = IF Masks THEN [iflag EXCEPT ![t] = TRUE] ELSE iflag
  /\ dropped' = [dropped EXCEPT ![t] = NoGuard]
  /\ UNCHANGED <<cur, locked, want, held, trapped>>

\* drop(), second part: enable interrupts if they were enabled at lock time.
Restore(t) ==
  /\ cur = t /\ Dropping(t)
  /\ iflag' = IF Masks /\ dropped[t].saved THEN [iflag EXCEPT ![t] = TRUE] ELSE iflag
  /\ dropped' = [dropped EXCEPT ![t] = NoGuard]
  /\ UNCHANGED <<cur, locked, want, held, trapped>>

\* A process traps into the kernel, and returns.
Trap(t) ==
  /\ cur = t /\ ~IsThread(t) /\ ~trapped[t]
  /\ trapped' = [trapped EXCEPT ![t] = TRUE]
  /\ iflag' = [iflag EXCEPT ![t] = FALSE]
  /\ UNCHANGED <<cur, locked, want, held, dropped>>

Return(t) ==
  /\ cur = t /\ trapped[t] /\ ~Spinning(t) /\ ~Dropping(t) /\ held[t] = << >>
  /\ trapped' = [trapped EXCEPT ![t] = FALSE]
  /\ iflag' = [iflag EXCEPT ![t] = TRUE]
  /\ UNCHANGED <<cur, locked, want, held, dropped>>

\* The timer switches to the next task, when interrupts are enabled.
Tick ==
  /\ iflag[cur]
  /\ cur' = (cur + 1) % (Threads + Processes)
  /\ UNCHANGED <<iflag, locked, want, held, dropped, trapped>>

--------------------------------------------------------------------------------
Progress(t) == Acquire(t) \/ Release(t) \/ Restore(t) \/ Return(t)

Next ==
  \/ Tick
  \/ \E t \in Task : Trap(t) \/ Progress(t) \/ \E l \in Lock : lock(t, l)

Spec == Init /\ [][Next]_vars

--------------------------------------------------------------------------------
(* Properties *)

TypeOK ==
  /\ cur \in Task
  /\ iflag \in [Task -> BOOLEAN]
  /\ locked \in [Lock -> BOOLEAN]
  /\ want \in [Task -> Guard \cup {NoGuard}]
  /\ dropped \in [Task -> Guard \cup {NoGuard}]
  /\ held \in [Task -> Seq(Guard)]
  /\ trapped \in [Task -> BOOLEAN]

Holds(t, l) == \E i \in DOMAIN held[t] : held[t][i].lock = l

\* A lock has one holder when its word is set and none when it is clear,
\* whoever was preempted where.
MutualExclusion ==
  \A l \in Lock :
    /\ locked[l] <=> \E t \in Task : Holds(t, l)
    /\ \A t, u \in Task : Holds(t, l) /\ Holds(u, l) => t = u

\* Nobody spins with interrupts masked on a lock that another task holds: on
\* one CPU that spin would never end.
NoDeadSpin ==
  \A t, u \in Task :
    cur = t /\ Spinning(t) /\ ~iflag[t] /\ t # u => ~Holds(u, want[t].lock)

\* Every lock() returns.
LockReturns == \A t \in Task : Spinning(t) ~> ~Spinning(t)
================================================================================
