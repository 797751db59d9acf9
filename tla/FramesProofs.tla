------------------------------ MODULE FramesProofs ------------------------------
(***************************************************************************)
(* Proofs about Locks, Console and Frames, for every number of threads,    *)
(* processes and locks and every size of the ring: both kinds of lock are  *)
(* exclusive, nobody spins in vain on the kind that masks interrupts, and  *)
(* with that masking the interrupt flag, the input ring and the register   *)
(* frames survive every interleaving of tasks, traps and interrupts.       *)
(***************************************************************************)
EXTENDS Frames, TLAPS

\* How long the provers may take for a step that names none of them.
USE ZenonT(5), SMTT(30)

--------------------------------------------------------------------------------
(* Locks *)

\* Locks are nested in increasing order, the one a task spins on last.
Nested ==
  \A t \in Task :
    /\ \A i, j \in DOMAIN held[t] : i < j => held[t][i].lock < held[t][j].lock
    /\ Spinning(t) => \A i \in DOMAIN held[t] : held[t][i].lock < want[t].lock

\* A set lock word has a holder, and a holder has set it.
WordSet == \A l \in Lock : locked[l] <=> \E t \in Task : Holds(t, l)

OneTask == \A l \in Lock : \A t, u \in Task : Holds(t, l) /\ Holds(u, l) => t = u

LocksInv == TypeOK /\ Nested /\ WordSet /\ OneTask

\* In a critical section, from the first line of lock() to the last of drop().
Inside(t) == Spinning(t) \/ Dropping(t) \/ held[t] # << >>

\* With masking, who is inside has the CPU and keeps it: interrupts are off,
\* and only the outermost guard turns them on again.
Masked ==
  \A t \in Task :
    /\ Inside(t) => cur = t /\ ~iflag[t]
    /\ ~(Spinning(t) /\ Dropping(t))
    /\ \A i \in DOMAIN held[t] : held[t][i].saved => i = 1
    /\ Spinning(t) /\ want[t].saved => held[t] = << >>
    /\ Dropping(t) /\ dropped[t].saved => held[t] = << >>

--------------------------------------------------------------------------------
\* A sequence as a function, and when it is empty.
LEMMA SeqFacts ==
  ASSUME NEW S, NEW s \in Seq(S)
  PROVE  /\ Len(s) \in Nat /\ DOMAIN s = 1 .. Len(s)
         /\ \A i \in 1 .. Len(s) : s[i] \in S
         /\ s # << >> <=> Len(s) > 0
OBVIOUS

\* A prefix of a sequence, element by element.
LEMMA PrefixFacts ==
  ASSUME NEW S, NEW s \in Seq(S), NEW n \in Nat, n <= Len(s)
  PROVE  /\ SubSeq(s, 1, n) \in Seq(S) /\ Len(SubSeq(s, 1, n)) = n
         /\ \A i \in 1 .. n : SubSeq(s, 1, n)[i] = s[i]
OBVIOUS

\* The newest guard of a task that has one, and what is left without it.
LEMMA FrontFacts ==
  ASSUME NEW S, NEW s \in Seq(S), s # << >>
  PROVE  /\ Len(s) \in Nat /\ Len(s) > 0
         /\ Last(s) = s[Len(s)] /\ Last(s) \in S
         /\ Front(s) \in Seq(S) /\ Len(Front(s)) = Len(s) - 1
         /\ DOMAIN s = 1 .. Len(s) /\ DOMAIN Front(s) = 1 .. Len(s) - 1
         /\ \A i \in 1 .. Len(s) - 1 : Front(s)[i] = s[i]
<1> DEFINE n == Len(s) - 1
<1>1. Len(s) \in Nat /\ Len(s) > 0 /\ DOMAIN s = 1 .. Len(s) /\ s[Len(s)] \in S
  BY SeqFacts
<1>2. n \in Nat /\ n <= Len(s)
  BY <1>1
<1>3. SubSeq(s, 1, n) \in Seq(S) /\ Len(SubSeq(s, 1, n)) = n
      /\ \A i \in 1 .. n : SubSeq(s, 1, n)[i] = s[i]
  <2> HIDE DEF n
  <2> QED BY <1>2, PrefixFacts
<1>4. DOMAIN SubSeq(s, 1, n) = 1 .. n
  <2> HIDE DEF n
  <2> QED BY <1>3, SeqFacts
<1> QED BY <1>1, <1>3, <1>4 DEF Last, Front

\* The rest of a sequence.
LEMMA TailFacts ==
  ASSUME NEW S, NEW s \in Seq(S), s # << >>
  PROVE  Tail(s) \in Seq(S)
OBVIOUS

\* A guard more.
LEMMA AppendFacts ==
  ASSUME NEW S, NEW s \in Seq(S), NEW g \in S
  PROVE  /\ Append(s, g) \in Seq(S) /\ Len(Append(s, g)) = Len(s) + 1
         /\ Append(s, g)[Len(s) + 1] = g
         /\ \A i \in 1 .. Len(s) : Append(s, g)[i] = s[i]
         /\ Append(s, g) # << >>
OBVIOUS

\* The next task of the round robin is a task.
LEMMA NextTask ==
  ASSUME cur \in Task
  PROVE  (cur + 1) % (Threads + Processes) \in Task
BY LocksAssumption DEF Task

\* The boot state.
LEMMA InitLocksInv == Init => LocksInv /\ (Masks => Masked)
<1>1. Init => TypeOK
  <2>1. 0 \in Task
    BY LocksAssumption DEF Task
  <2> QED BY <2>1 DEF Init, TypeOK
<1>2. Init => Nested /\ WordSet /\ OneTask /\ Masked
  BY DEF Init, Nested, WordSet, OneTask, Masked, Holds, Spinning, Dropping, Inside, NoGuard
<1> QED BY <1>1, <1>2 DEF LocksInv

--------------------------------------------------------------------------------
\* Each step keeps the types.
LEMMA NextTypeOK == TypeOK /\ [Next]_vars => TypeOK'
<1> SUFFICES ASSUME TypeOK, [Next]_vars PROVE TypeOK'
  OBVIOUS
<1>1. CASE Tick
  BY <1>1, NextTask DEF Tick, TypeOK
<1>2. ASSUME NEW t \in Task, NEW l \in Lock, lock(t, l) PROVE TypeOK'
  <2>1. [lock |-> l, saved |-> iflag[t]] \in Guard
    BY DEF TypeOK, Guard
  <2> QED BY <1>2, <2>1 DEF lock, TypeOK, disable_and_save_interrupts
<1>3. ASSUME NEW t \in Task, Acquire(t) PROVE TypeOK'
  <2>1. want[t] \in Guard /\ want[t].lock \in Lock
    BY <1>3 DEF Acquire, Spinning, TypeOK, Guard
  <2>2. Append(held[t], want[t]) \in Seq(Guard)
    BY <2>1 DEF TypeOK
  <2>3. \A u \in Task : held'[u] \in Seq(Guard)
    BY <1>3, <2>2 DEF Acquire, TypeOK
  <2> QED BY <1>3, <2>1, <2>3 DEF Acquire, TypeOK
<1>4. ASSUME NEW t \in Task, Release(t) PROVE TypeOK'
  <2>1. held[t] \in Seq(Guard) /\ held[t] # << >>
    BY <1>4 DEF Release, TypeOK
  <2>2. Last(held[t]) \in Guard /\ Front(held[t]) \in Seq(Guard)
    BY <2>1, FrontFacts
  <2>3. Last(held[t]).lock \in Lock
    BY <2>2 DEF Guard
  <2>4. \A u \in Task : held'[u] \in Seq(Guard)
    BY <1>4, <2>2 DEF Release, TypeOK
  <2> QED BY <1>4, <2>2, <2>3, <2>4 DEF Release, TypeOK
<1>5. ASSUME NEW t \in Task, Restore(t) PROVE TypeOK'
  BY <1>5 DEF Restore, TypeOK
<1>6. ASSUME NEW t \in Task, Trap(t) \/ Return(t) PROVE TypeOK'
  BY <1>6 DEF Trap, Return, TypeOK
<1>7. CASE UNCHANGED vars
  BY <1>7 DEF vars, TypeOK
<1> QED BY <1>1, <1>2, <1>3, <1>4, <1>5, <1>6, <1>7 DEF Next, Progress

--------------------------------------------------------------------------------
\* What a task holds after the swap that gets it a lock.
LEMMA AcquireHolds ==
  ASSUME TypeOK, NEW t \in Task, Acquire(t)
  PROVE  /\ want[t] \in Guard
         /\ \A u \in Task, l \in Lock :
              Holds(u, l)' <=> Holds(u, l) \/ (u = t /\ l = want[t].lock)
<1>1. want[t] \in Guard /\ held[t] \in Seq(Guard) /\ t \in DOMAIN held
  BY DEF Acquire, Spinning, TypeOK
<1>2. held' = [held EXCEPT ![t] = Append(held[t], want[t])]
  BY DEF Acquire
<1>3. /\ DOMAIN held'[t] = 1 .. Len(held[t]) + 1 /\ DOMAIN held[t] = 1 .. Len(held[t])
      /\ Len(held[t]) \in Nat
      /\ held'[t][Len(held[t]) + 1] = want[t]
      /\ \A i \in 1 .. Len(held[t]) : held'[t][i] = held[t][i]
  BY <1>1, <1>2, AppendFacts, SeqFacts
<1>4. \A l \in Lock : Holds(t, l)' <=> Holds(t, l) \/ l = want[t].lock
  BY <1>3 DEF Holds
<1>5. \A u \in Task \ {t} : held'[u] = held[u]
  BY <1>2 DEF TypeOK
<1>6. \A u \in Task \ {t}, l \in Lock : Holds(u, l)' <=> Holds(u, l)
  BY <1>5 DEF Holds
<1> QED BY <1>1, <1>4, <1>6

\* What a task holds after the first part of drop().
LEMMA ReleaseHolds ==
  ASSUME TypeOK, Nested, NEW t \in Task, Release(t)
  PROVE  /\ Last(held[t]) \in Guard /\ Holds(t, Last(held[t]).lock)
         /\ \A u \in Task, l \in Lock :
              Holds(u, l)' <=> Holds(u, l) /\ ~(u = t /\ l = Last(held[t]).lock)
<1> DEFINE n == Len(held[t])
<1>1. held[t] \in Seq(Guard) /\ held[t] # << >> /\ t \in DOMAIN held
  BY DEF Release, TypeOK
<1>2. held' = [held EXCEPT ![t] = Front(held[t])]
  BY DEF Release
<1>3. /\ n \in Nat /\ n > 0 /\ Last(held[t]) = held[t][n] /\ Last(held[t]) \in Guard
      /\ DOMAIN held[t] = 1 .. n /\ DOMAIN held'[t] = 1 .. n - 1
      /\ \A i \in 1 .. n - 1 : held'[t][i] = held[t][i]
  BY <1>1, <1>2, FrontFacts, SeqFacts
<1>4. \A i \in 1 .. n - 1 : held[t][i].lock # held[t][n].lock
  <2> TAKE i \in 1 .. n - 1
  <2>1. held[t][i].lock < held[t][n].lock
    BY <1>3 DEF Nested
  <2>2. held[t][i] \in Guard /\ held[t][n] \in Guard
    BY <1>1, <1>3
  <2> QED BY <2>1, <2>2, LocksAssumption DEF Guard, Lock
<1>5. \A l \in Lock : Holds(t, l)' <=> Holds(t, l) /\ l # Last(held[t]).lock
  <2> HIDE DEF n
  <2> QED BY <1>3, <1>4 DEF Holds
<1>6. Holds(t, Last(held[t]).lock)
  BY <1>3 DEF Holds
<1>7. \A u \in Task \ {t} : held'[u] = held[u]
  BY <1>2 DEF TypeOK
<1>8. \A u \in Task \ {t}, l \in Lock : Holds(u, l)' <=> Holds(u, l)
  BY <1>7 DEF Holds
<1> QED BY <1>3, <1>5, <1>6, <1>8

--------------------------------------------------------------------------------
\* Each step keeps the nesting, and the agreement of lock words and guards.
LEMMA NextLocksInv == LocksInv /\ [Next]_vars => LocksInv'
<1> SUFFICES ASSUME TypeOK, Nested, WordSet, OneTask, [Next]_vars PROVE LocksInv'
  BY DEF LocksInv
<1>1. TypeOK'
  BY NextTypeOK
<1>2. ASSUME NEW t \in Task, NEW l \in Lock, lock(t, l)
      PROVE  Nested' /\ WordSet' /\ OneTask'
  <2>1. WordSet' /\ OneTask'
    BY <1>2 DEF lock, WordSet, OneTask, Holds
  <2>2. Nested'
    BY <1>2 DEF lock, Nested, Spinning, TypeOK
  <2> QED BY <2>1, <2>2
<1>3. ASSUME NEW t \in Task, Acquire(t) PROVE Nested' /\ WordSet' /\ OneTask'
  <2> DEFINE w == want[t].lock
  <2>1. /\ w \in Lock /\ ~locked[w] /\ locked' = [locked EXCEPT ![w] = TRUE]
        /\ \A u \in Task, l \in Lock : Holds(u, l)' <=> Holds(u, l) \/ (u = t /\ l = w)
    BY <1>3, AcquireHolds DEF Acquire, Guard
  <2>2. WordSet' /\ OneTask'
    <3> HIDE DEF w
    <3>1. \A l \in Lock : locked'[l] <=> locked[l] \/ l = w
      BY <2>1 DEF TypeOK
    <3> QED BY <2>1, <3>1 DEF WordSet, OneTask
  <2>3. /\ want[t] \in Guard /\ held[t] \in Seq(Guard) /\ Spinning(t)
        /\ held'[t] = Append(held[t], want[t]) /\ want'[t] = NoGuard
        /\ \A u \in Task \ {t} : held'[u] = held[u] /\ want'[u] = want[u]
    BY <1>3, AcquireHolds, ZenonT(40) DEF Acquire, TypeOK
  <2>4. /\ \A i, j \in DOMAIN held'[t] : i < j => held'[t][i].lock < held'[t][j].lock
        /\ ~Spinning(t)'
    BY <2>3, AppendFacts, SeqFacts DEF Nested, Spinning
  <2>5. \A u \in Task \ {t} :
          /\ \A i, j \in DOMAIN held'[u] : i < j => held'[u][i].lock < held'[u][j].lock
          /\ Spinning(u)' => \A i \in DOMAIN held'[u] : held'[u][i].lock < want'[u].lock
    BY <2>3 DEF Nested, Spinning
  <2> QED BY <2>2, <2>4, <2>5 DEF Nested
<1>4. ASSUME NEW t \in Task, Release(t) PROVE Nested' /\ WordSet' /\ OneTask'
  <2> DEFINE w == Last(held[t]).lock
  <2>1. /\ w \in Lock /\ Holds(t, w) /\ locked' = [locked EXCEPT ![w] = FALSE]
        /\ \A u \in Task, l \in Lock : Holds(u, l)' <=> Holds(u, l) /\ ~(u = t /\ l = w)
    BY <1>4, ReleaseHolds DEF Release, Guard
  <2>2. WordSet' /\ OneTask'
    <3> HIDE DEF w
    <3>1. \A l \in Lock : locked'[l] <=> locked[l] /\ l # w
      BY <2>1 DEF TypeOK
    <3> QED BY <2>1, <3>1 DEF WordSet, OneTask
  <2>3. /\ held[t] \in Seq(Guard) /\ held[t] # << >> /\ ~Spinning(t)
        /\ held'[t] = Front(held[t]) /\ want' = want
        /\ \A u \in Task \ {t} : held'[u] = held[u]
    BY <1>4 DEF Release, TypeOK
  <2>4. /\ \A i, j \in DOMAIN held'[t] : i < j => held'[t][i].lock < held'[t][j].lock
        /\ ~Spinning(t)'
    <3> DEFINE n == Len(held[t])
    <3>1. /\ n \in Nat /\ DOMAIN held[t] = 1 .. n
          /\ DOMAIN held'[t] = 1 .. n - 1
          /\ \A i \in 1 .. n - 1 : held'[t][i] = held[t][i]
      BY <2>3, FrontFacts
    <3> HIDE DEF n
    <3>2. \A i, j \in 1 .. n : i < j => held[t][i].lock < held[t][j].lock
      BY <3>1 DEF Nested
    <3>3. \A i, j \in 1 .. n - 1 : i < j => held'[t][i].lock < held'[t][j].lock
      BY <3>1, <3>2
    <3>4. ~Spinning(t)'
      BY <2>3 DEF Spinning
    <3> QED BY <3>1, <3>3, <3>4
  <2>5. \A u \in Task \ {t} :
          /\ \A i, j \in DOMAIN held'[u] : i < j => held'[u][i].lock < held'[u][j].lock
          /\ Spinning(u)' => \A i \in DOMAIN held'[u] : held'[u][i].lock < want'[u].lock
    BY <2>3 DEF Nested, Spinning
  <2> QED BY <2>2, <2>4, <2>5 DEF Nested
<1>5. CASE UNCHANGED <<locked, held, want>>
  BY <1>1, <1>5 DEF LocksInv, Nested, WordSet, OneTask, Holds, Spinning
<1>6. ASSUME NEW t \in Task, Trap(t) \/ Restore(t) \/ Return(t)
      PROVE  UNCHANGED <<locked, held, want>>
  BY <1>6 DEF Trap, Restore, Return
<1>7. Tick \/ UNCHANGED vars => UNCHANGED <<locked, held, want>>
  BY DEF Tick, vars
<1> QED BY <1>1, <1>2, <1>3, <1>4, <1>5, <1>6, <1>7 DEF Next, Progress, LocksInv

--------------------------------------------------------------------------------
\* With masking, each step keeps who is inside on the CPU with interrupts off.
LEMMA NextMasked == Masks /\ LocksInv /\ Masked /\ [Next]_vars => Masked'
<1> SUFFICES ASSUME Masks, TypeOK, Masked, [Next]_vars PROVE Masked'
  BY DEF LocksInv
<1>1. CASE Tick
  <2>1. \A t \in Task : ~Inside(t)
    BY <1>1 DEF Tick, Masked
  <2> QED BY <1>1, <2>1 DEF Tick, Masked, Inside, Spinning, Dropping
<1>2. ASSUME NEW t \in Task, NEW l \in Lock, lock(t, l) PROVE Masked'
  <2>1. /\ iflag' = [iflag EXCEPT ![t] = FALSE]
        /\ want' = [want EXCEPT ![t] = [lock |-> l, saved |-> iflag[t]]]
        /\ cur = t /\ ~Dropping(t) /\ UNCHANGED <<cur, held, dropped>>
    BY <1>2 DEF lock, disable_and_save_interrupts
  <2>2. iflag[t] => held[t] = << >>
    BY DEF Masked, Inside
  <2>3. want'[t].saved => held'[t] = << >>
    BY <2>1, <2>2 DEF TypeOK
  <2> QED BY <2>1, <2>3 DEF Masked, Inside, Spinning, Dropping, TypeOK
<1>3. ASSUME NEW t \in Task, Acquire(t) PROVE Masked'
  <2>1. /\ want[t] \in Guard /\ held[t] \in Seq(Guard) /\ Spinning(t) /\ cur = t
        /\ held'[t] = Append(held[t], want[t]) /\ want'[t] = NoGuard
        /\ \A u \in Task \ {t} : held'[u] = held[u] /\ want'[u] = want[u]
        /\ UNCHANGED <<cur, iflag, dropped>>
    BY <1>3, AcquireHolds, ZenonT(40) DEF Acquire, TypeOK
  <2>2. \A i \in DOMAIN held'[t] : held'[t][i].saved => i = 1
    BY <2>1, AppendFacts, SeqFacts DEF Masked
  <2>3. Inside(t) /\ ~Dropping(t)
    BY <2>1 DEF Inside, Masked
  <2> QED BY <2>1, <2>2, <2>3 DEF Masked, Inside, Spinning, Dropping
<1>4. ASSUME NEW t \in Task, Release(t) PROVE Masked'
  <2>1. /\ held[t] \in Seq(Guard) /\ held[t] # << >> /\ ~Spinning(t) /\ ~Dropping(t) /\ cur = t
        /\ held'[t] = Front(held[t]) /\ dropped'[t] = Last(held[t])
        /\ \A u \in Task \ {t} : held'[u] = held[u] /\ dropped'[u] = dropped[u]
        /\ UNCHANGED <<cur, iflag, want>>
    BY <1>4 DEF Release, TypeOK
  <2> DEFINE n == Len(held[t])
  <2>2. /\ n \in Nat /\ n > 0 /\ dropped'[t] = held[t][n]
        /\ DOMAIN held[t] = 1 .. n /\ DOMAIN held'[t] = 1 .. n - 1
        /\ held'[t] \in Seq(Guard) /\ Len(held'[t]) = n - 1
        /\ \A i \in 1 .. n - 1 : held'[t][i] = held[t][i]
    <3> DEFINE s == held[t]
    <3>1. s \in Seq(Guard) /\ s # << >>
      BY <2>1
    <3> HIDE DEF s
    <3>2. /\ Len(s) \in Nat /\ Len(s) > 0 /\ Last(s) = s[Len(s)]
          /\ Front(s) \in Seq(Guard) /\ Len(Front(s)) = Len(s) - 1
          /\ DOMAIN s = 1 .. Len(s) /\ DOMAIN Front(s) = 1 .. Len(s) - 1
          /\ \A i \in 1 .. Len(s) - 1 : Front(s)[i] = s[i]
      BY <3>1, FrontFacts
    <3> QED BY <2>1, <3>2 DEF s
  <2>3. /\ \A i \in DOMAIN held'[t] : held'[t][i].saved => i = 1
        /\ dropped'[t].saved => held'[t] = << >>
    <3> HIDE DEF n
    <3>1. \A i \in 1 .. n : held[t][i].saved => i = 1
      BY <2>2 DEF Masked
    <3>2. \A i \in DOMAIN held'[t] : held'[t][i].saved => i = 1
      BY <2>2, <3>1
    <3>3. dropped'[t].saved => n = 1
      BY <2>2, <3>1
    <3> QED BY <2>2, <3>2, <3>3, SeqFacts
  <2>4. Inside(t)
    BY <2>1 DEF Inside
  <2> QED BY <2>1, <2>3, <2>4 DEF Masked, Inside, Spinning, Dropping
<1>5. ASSUME NEW t \in Task, Restore(t) PROVE Masked'
  <2>1. /\ cur = t /\ Dropping(t) /\ dropped'[t] = NoGuard
        /\ iflag' = IF dropped[t].saved THEN [iflag EXCEPT ![t] = TRUE] ELSE iflag
        /\ \A u \in Task \ {t} : dropped'[u] = dropped[u]
        /\ UNCHANGED <<cur, want, held>>
    BY <1>5 DEF Restore, TypeOK
  <2>2. Inside(t) /\ ~Spinning(t) /\ (dropped[t].saved => held[t] = << >>)
    BY <2>1 DEF Inside, Masked
  <2> QED BY <2>1, <2>2 DEF Masked, Inside, Spinning, Dropping, TypeOK
<1>6. ASSUME NEW t \in Task, Trap(t) PROVE Masked'
  BY <1>6 DEF Trap, Masked, Inside, Spinning, Dropping, TypeOK
<1>7. ASSUME NEW t \in Task, Return(t) PROVE Masked'
  BY <1>7 DEF Return, Masked, Inside, Spinning, Dropping, TypeOK
<1>8. CASE UNCHANGED vars
  BY <1>8 DEF vars, Masked, Inside, Spinning, Dropping
<1> QED BY <1>1, <1>2, <1>3, <1>4, <1>5, <1>6, <1>7, <1>8 DEF Next, Progress

--------------------------------------------------------------------------------
\* Both locks are exclusive: sync::Spinlock and memory::Mutex hand a lock out
\* once, whoever is preempted between the swap and the store of drop().
THEOREM MutualExclusionHolds == Spec => []MutualExclusion
<1>1. Init => LocksInv
  BY InitLocksInv
<1>2. LocksInv /\ [Next]_vars => LocksInv'
  BY NextLocksInv
<1>3. LocksInv => MutualExclusion
  BY DEF LocksInv, WordSet, OneTask, MutualExclusion
<1> QED BY <1>1, <1>2, <1>3, PTL DEF Spec

\* With the masking of Spinlock::lock nobody spins on one CPU for a lock that a
\* preempted task holds, for any nesting and any number of tasks.
THEOREM NoDeadSpinHolds == Masks /\ Spec => []NoDeadSpin
<1>1. Masks /\ Init => LocksInv /\ Masked
  BY InitLocksInv
<1>2. Masks /\ (LocksInv /\ Masked) /\ [Next]_vars => (LocksInv /\ Masked)'
  BY NextLocksInv, NextMasked
<1>3. LocksInv /\ Masked => NoDeadSpin
  BY DEF Masked, Inside, NoDeadSpin, Holds, LocksInv, TypeOK
<1>4. Masks => []Masks
  OBVIOUS
<1> QED BY <1>1, <1>2, <1>3, <1>4, PTL DEF Spec

--------------------------------------------------------------------------------
(* Console and Frames *)

ShellPc ==
  {"mask", "dequeue", "wfe", "asleep", "handle", "command", "try_read", "read",
   "try_data", "data", "panicked", "pmm", "stuck"}

CTypeOK ==
  /\ arch \in {"x86_64", "aarch64"}
  /\ arrived \in Nat /\ head \in Nat
  /\ rx \in Seq(Nat) /\ ring \in Seq(Nat) /\ taken \in Seq(Nat)
  /\ loaded \in [Task -> Nat \cup {Idle}]
  /\ shell \in ShellPc
  /\ event \in BOOLEAN

\* The flag that task t's context calls for.
Open(t) == ~(trapped[t] \/ (t = Shell /\ ShellMasks))

\* Outside every lock a task runs with that flag; inside, its outermost guard
\* has saved it.  Only processes trap, and only there do they take locks.
Contexts ==
  \A t \in Task :
    /\ ~Inside(t) => iflag[t] = Open(t)
    /\ Spinning(t) /\ held[t] = << >> => want[t].saved = Open(t)
    /\ held[t] # << >> => held[t][1].saved = Open(t)
    /\ Dropping(t) /\ held[t] = << >> => dropped[t].saved = Open(t)
    /\ trapped[t] => ~IsThread(t) /\ cur = t
    /\ Inside(t) /\ ~IsThread(t) => trapped[t]

\* A dequeue_byte in progress has the CPU, with interrupts off and no lock, and
\* the head it has loaded is still the ring's.
Dequeuing ==
  \A t \in Task :
    loaded[t] # Idle =>
      /\ cur = t /\ ~Inside(t) /\ loaded[t] = head /\ head < Len(ring)
      /\ IF t = Shell THEN shell = "dequeue" ELSE trapped[t]

RingOK ==
  /\ head <= Len(ring) /\ Len(ring) - head <= RingCapacity
  /\ taken = SubSeq(ring, 1, head)

\* A byte that comes between the shell's test of the ring and its wfe leaves
\* its mark in the event register; a shell asleep is on the CPU.
Wakeup ==
  /\ shell = "asleep" => cur = Shell /\ Waiting = 0
  /\ shell = "wfe" => arch = "aarch64" /\ (Waiting = 0 \/ event)

ConsoleInv == CTypeOK /\ Contexts /\ Dequeuing /\ RingOK /\ Wakeup

\* Every task's frame is on its own stack.  A suspended task's registers are in
\* it, the running task's are in the CPU or, in a trap, in the frame.
FramesInv ==
  /\ cpu \in [Reg -> Int] /\ frame \in [Task -> [Reg -> Int]]
  /\ sp = [t \in Task |-> t] /\ kstack = cur
  /\ \A t \in Task, r \in Reg :
       t # cur \/ trapped[t] => frame[t][r] = t \/ (r = "sp_el0" /\ IsThread(t))
  /\ \A r \in Reg :
       \/ cpu[r] = cur
       \/ trapped[cur] /\ cpu[r] = Kernel /\ r # "sp_el0"
       \/ r = "sp_el0" /\ IsThread(cur)

CpuInv == LocksInv /\ Masked /\ ConsoleInv /\ FramesInv

--------------------------------------------------------------------------------
\* The shell is a task, and never in a trap.
LEMMA ShellFacts ==
  /\ Shell \in Task /\ IsThread(Shell)
  /\ (Contexts => ~trapped[Shell])
BY LocksAssumption, ConsoleAssumption DEF Shell, Task, IsThread, Contexts

\* With masking nobody is inside a lock while the task on the CPU is not.
LEMMA NobodyInside ==
  ASSUME Masked, ~Inside(cur)
  PROVE  \A t \in Task : ~Inside(t)
BY DEF Masked

\* A step outside the locks, by a task that is not inside one, keeps Locks'
\* invariants.
LEMMA OutsideLocks ==
  ASSUME LocksInv, Masked, ~Inside(cur), cur' \in Task, iflag' \in [Task -> BOOLEAN],
         UNCHANGED <<locked, want, held, dropped, trapped>>
  PROVE  LocksInv' /\ Masked'
<1>1. TypeOK'
  BY DEF LocksInv, TypeOK
<1>2. Nested' /\ WordSet' /\ OneTask'
  BY DEF LocksInv, Nested, WordSet, OneTask, Holds, Spinning
<1>3. \A t \in Task : ~Spinning(t) /\ ~Dropping(t) /\ held[t] = << >>
  BY NobodyInside DEF Inside
<1>4. Masked'
  BY <1>3 DEF Masked, Inside, Spinning, Dropping
<1> QED BY <1>1, <1>2, <1>4 DEF LocksInv

\* A step of shell::run: the shell has the CPU and no lock, and its interrupt
\* flag afterwards is the one its place calls for.
ShellMoves ==
  /\ cur = Shell /\ ~Inside(Shell)
  /\ iflag' = [iflag EXCEPT ![Shell] = ~ShellMasks']
  /\ shell' \in ShellPc
  /\ UNCHANGED <<cur, locked, want, held, dropped, trapped, arch, ring>>

\* Every step of the shell's loop is one that ShellMoves describes.
LEMMA ShellStepMoves ==
  ASSUME LocksInv, ConsoleInv, ShellStep
  PROVE  ShellMoves
<1>0. /\ Shell \in Task /\ ~trapped[Shell] /\ iflag \in [Task -> BOOLEAN]
      /\ (~Inside(Shell) => iflag[Shell] = ~ShellMasks) /\ shell \in ShellPc
  BY ShellFacts DEF LocksInv, TypeOK, ConsoleInv, CTypeOK, Contexts, Open
<1>1. cur = Shell /\ ~Inside(Shell)
  BY DEF ShellStep, Mask, DequeueSome, DequeueNone, Wfe, Handle, PollCommand, PollStatus,
         PollData, LockPmm, AllocPanics, At, Inside
<1>2. (ShellMasks' <=> ShellMasks) => iflag = [iflag EXCEPT ![Shell] = ~ShellMasks']
  BY <1>0, <1>1 DEF ShellMasks
<1>3. CASE Mask
  BY <1>0, <1>1, <1>3 DEF Mask, At, SetFlag, CpuElse, Device, ShellMoves, ShellMasks, ShellPc
<1>4. CASE DequeueSome
  BY <1>0, <1>1, <1>2, <1>4
     DEF DequeueSome, At, SetFlag, CpuElse, Device, ShellMoves, ShellMasks, ShellPc, vars
<1>5. CASE DequeueNone
  BY <1>0, <1>1, <1>5 DEF DequeueNone, At, SetFlag, CpuElse, Device, ShellMoves, ShellMasks, ShellPc
<1>6. CASE Wfe
  BY <1>0, <1>1, <1>2, <1>6 DEF Wfe, At, Device, ShellMoves, ShellMasks, ShellPc, vars
<1>7. CASE Handle
  BY <1>0, <1>1, <1>2, <1>7 DEF Handle, At, Device, ShellMoves, ShellMasks, ShellPc, vars
<1>8. CASE PollCommand
  BY <1>0, <1>1, <1>2, <1>8 DEF PollCommand, At, Device, ShellMoves, ShellMasks, ShellPc, vars
<1>9. CASE PollStatus
  BY <1>0, <1>1, <1>2, <1>9 DEF PollStatus, At, Device, ShellMoves, ShellMasks, ShellPc, vars
<1>10. CASE PollData
  BY <1>0, <1>1, <1>2, <1>10
     DEF PollData, At, SetFlag, CpuElse, ShellMoves, ShellMasks, ShellPc
<1>11. CASE LockPmm
  BY <1>0, <1>1, <1>2, <1>11 DEF LockPmm, At, Device, ShellMoves, ShellMasks, ShellPc, vars
<1>12. CASE AllocPanics
  BY <1>0, <1>1, <1>12
     DEF AllocPanics, At, SetFlag, CpuElse, Device, ShellMoves, ShellMasks, ShellPc
<1> QED BY <1>3, <1>4, <1>5, <1>6, <1>7, <1>8, <1>9, <1>10, <1>11, <1>12 DEF ShellStep

\* The console's steps keep the invariants of the locks.
LEMMA NextLocksKept ==
  ASSUME Masks, LocksInv, Masked, ConsoleInv, [CNext]_cvars
  PROVE  LocksInv' /\ Masked'
<1>0. cur \in Task /\ iflag \in [Task -> BOOLEAN]
  BY DEF LocksInv, TypeOK
<1>1. CASE [Next]_vars
  BY <1>1, NextLocksInv, NextMasked
<1>2. CASE ShellStep
  <2>1. ShellMoves
    BY <1>2, ShellStepMoves
  <2> QED BY <1>0, <2>1, OutsideLocks DEF ShellMoves
<1>3. ASSUME NEW t \in Task, yield_now(t) PROVE LocksInv' /\ Masked'
  <2>1. ~Inside(cur) /\ cur' \in Task
    BY <1>0, <1>3, NextTask DEF yield_now, Inside
  <2> QED BY <1>0, <1>3, <2>1, OutsideLocks DEF yield_now
<1>4. CASE Arrive \/ raw_uart_interrupt_handler \/ Parked \/ UNCHANGED cvars
  BY <1>1, <1>4 DEF Arrive, raw_uart_interrupt_handler, Parked, cvars
<1>5. CASE TimerIrq
  BY <1>1, <1>5 DEF TimerIrq, Next
<1>6. ASSUME NEW t \in Task, TrapEntry(t) \/ sys_read(t) \/ TrapReturn(t) \/ LockStep(t)
                             \/ PmmSpins(t)
      PROVE  [Next]_vars
  BY <1>6 DEF TrapEntry, sys_read, TrapReturn, LockStep, PmmSpins, GuardStep, Next, Progress
<1> QED BY <1>1, <1>2, <1>3, <1>4, <1>5, <1>6 DEF CNext

--------------------------------------------------------------------------------
(* The interrupt flag *)

\* A step that leaves the locks, the flags and the traps alone.
LEMMA ContextsKept ==
  ASSUME Contexts, ShellMasks' <=> ShellMasks,
         UNCHANGED <<iflag, want, held, dropped, trapped>>,
         cur' = cur \/ \A t \in Task : ~trapped[t]
  PROVE  Contexts'
BY DEF Contexts, Open, Inside, Spinning, Dropping

\* The shell's own cli and sti set the flag that its next place calls for.
LEMMA ContextsShell ==
  ASSUME LocksInv, ConsoleInv, ShellMoves
  PROVE  Contexts'
<1>1. /\ Shell \in Task /\ ~trapped[Shell] /\ iflag \in [Task -> BOOLEAN]
      /\ ~Spinning(Shell) /\ ~Dropping(Shell) /\ held[Shell] = << >> /\ Contexts
  BY ShellFacts DEF LocksInv, TypeOK, ConsoleInv, ShellMoves, Inside
<1>2. \A t \in Task : Inside(t)' = Inside(t) /\ Spinning(t)' = Spinning(t)
                      /\ Dropping(t)' = Dropping(t)
  BY DEF ShellMoves, Inside, Spinning, Dropping
<1>3. \A t \in Task \ {Shell} : iflag'[t] = iflag[t] /\ Open(t)' = Open(t)
  BY <1>1 DEF ShellMoves, Open
<1>4. iflag'[Shell] = Open(Shell)'
  BY <1>1 DEF ShellMoves, Open, ShellMasks
<1> QED BY <1>1, <1>2, <1>3, <1>4 DEF Contexts, Inside, ShellMoves

\* An interrupt taken or a voluntary switch: nobody is in a trap.
LEMMA SwitchedOutside ==
  ASSUME LocksInv, Masked, ConsoleInv, iflag[cur] \/ (~Inside(cur) /\ IsThread(cur))
  PROVE  /\ \A t \in Task : ~trapped[t] /\ ~Inside(t)
         /\ iflag[cur] => \A t \in Task : loaded[t] = Idle
<1>1. cur \in Task /\ iflag \in [Task -> BOOLEAN] /\ trapped \in [Task -> BOOLEAN]
  BY DEF LocksInv, TypeOK
<1>2. ~Inside(cur)
  BY <1>1 DEF Masked
<1>3. \A t \in Task : ~Inside(t)
  BY <1>2, NobodyInside
<1>4. ~trapped[cur]
  BY <1>1, <1>2 DEF ConsoleInv, Contexts, Open
<1>5. \A t \in Task : ~trapped[t]
  BY <1>4 DEF ConsoleInv, Contexts
<1>6. iflag[cur] => ~(cur = Shell /\ ShellMasks)
  BY <1>1, <1>2 DEF ConsoleInv, Contexts, Open
<1> QED BY <1>3, <1>5, <1>6 DEF ConsoleInv, Dequeuing, ShellMasks

\* What Contexts calls for after a step of a lock by task t, which leaves the
\* traps, the shell and who has the CPU alone.
KeptContext(u) ==
  /\ ~Inside(u)' => iflag'[u] = Open(u)
  /\ Spinning(u)' /\ held'[u] = << >> => want'[u].saved = Open(u)
  /\ held'[u] # << >> => held'[u][1].saved = Open(u)
  /\ Dropping(u)' /\ held'[u] = << >> => dropped'[u].saved = Open(u)
  /\ trapped[u] => ~IsThread(u) /\ cur = u
  /\ Inside(u)' /\ ~IsThread(u) => trapped[u]

\* lock() saves the flag of the context before it masks.
LEMMA LockContext ==
  ASSUME TypeOK, Masked, Contexts, NEW t \in Task, cur = t,
         trapped[t] => ~IsThread(t), NEW l \in Lock, lock(t, l)
  PROVE  KeptContext(t)
<1>1. /\ want'[t] = [lock |-> l, saved |-> iflag[t]] /\ held' = held /\ dropped' = dropped
      /\ ~Spinning(t) /\ ~Dropping(t) /\ (IsThread(t) \/ trapped[t])
  BY DEF lock, TypeOK
<1>2. Spinning(t)' /\ ~Dropping(t)' /\ Inside(t)'
  BY <1>1 DEF Spinning, Dropping, NoGuard, Inside
<1>3. held[t] = << >> => iflag[t] = Open(t)
  BY <1>1 DEF Contexts, Inside
<1>4. held[t] # << >> => held[t][1].saved = Open(t)
  BY DEF Contexts
<1> QED BY <1>1, <1>2, <1>3, <1>4 DEF KeptContext

\* The guard that goes on top carries the flag that lock() saved.
LEMMA AcquireContext ==
  ASSUME TypeOK, Masked, Contexts, NEW t \in Task, cur = t,
         trapped[t] => ~IsThread(t), Acquire(t)
  PROVE  KeptContext(t)
<1>1. /\ want[t] \in Guard /\ held[t] \in Seq(Guard) /\ Spinning(t)
      /\ held'[t] = Append(held[t], want[t]) /\ want'[t] = NoGuard
      /\ UNCHANGED <<iflag, dropped>>
  BY AcquireHolds DEF Acquire, TypeOK
<1>2. held'[t] # << >> /\ ~Spinning(t)'
  BY <1>1, AppendFacts DEF Spinning
<1>3. held'[t][1].saved = Open(t)
  <2>1. CASE held[t] = << >>
    BY <1>1, <2>1 DEF Contexts
  <2>2. CASE held[t] # << >>
    <3>1. held'[t][1] = held[t][1]
      BY <1>1, <2>2, AppendFacts, SeqFacts
    <3> QED BY <2>2, <3>1 DEF Contexts
  <2> QED BY <2>1, <2>2
<1>4. ~IsThread(t) => trapped[t]
  BY <1>1 DEF Contexts, Inside
<1>5. Inside(t)'
  BY <1>2 DEF Inside
<1>6. ~Dropping(t)' \/ held'[t] # << >>
  BY <1>2
<1> QED BY <1>2, <1>3, <1>4, <1>5, <1>6 DEF KeptContext

\* The guard that drop() takes off keeps the flag for the restore.
LEMMA ReleaseContext ==
  ASSUME TypeOK, Masked, Contexts, NEW t \in Task, cur = t,
         trapped[t] => ~IsThread(t), Release(t)
  PROVE  KeptContext(t)
<1>1. /\ held[t] \in Seq(Guard) /\ held[t] # << >> /\ ~Spinning(t)
      /\ held'[t] = Front(held[t]) /\ dropped'[t] = Last(held[t])
      /\ UNCHANGED <<iflag, want>>
  BY DEF Release, TypeOK
<1> DEFINE n == Len(held[t])
<1>2. /\ n \in Nat /\ n > 0 /\ dropped'[t] = held[t][n] /\ dropped'[t] \in Guard
      /\ held'[t] \in Seq(Guard) /\ Len(held'[t]) = n - 1
      /\ \A i \in 1 .. n - 1 : held'[t][i] = held[t][i]
  BY <1>1, FrontFacts
<1>3. ~Spinning(t)' /\ Dropping(t)' /\ Inside(t)'
  <2>1. \A g \in Guard : g # NoGuard
    BY DEF Guard, NoGuard
  <2> QED BY <1>1, <1>2, <2>1 DEF Spinning, Dropping, Inside
<1>4. held[t][1].saved = Open(t)
  BY <1>1 DEF Contexts
<1> HIDE DEF n
<1>5. held'[t] # << >> => held'[t][1].saved = Open(t)
  <2> SUFFICES ASSUME held'[t] # << >> PROVE held'[t][1] = held[t][1]
    BY <1>4
  <2>1. Len(held'[t]) > 0
    BY <1>2, SeqFacts
  <2> QED BY <1>2, <2>1
<1>6. held'[t] = << >> => dropped'[t].saved = Open(t)
  <2> SUFFICES ASSUME held'[t] = << >> PROVE n = 1
    BY <1>2, <1>4
  <2>1. Len(held'[t]) = 0
    BY SeqFacts
  <2> QED BY <1>2, <2>1
<1>7. ~IsThread(t) => trapped[t]
  BY <1>1 DEF Contexts, Inside
<1> QED BY <1>3, <1>5, <1>6, <1>7 DEF KeptContext

\* Only the outermost guard puts interrupts back on.
LEMMA RestoreContext ==
  ASSUME Masks, TypeOK, Masked, Contexts, NEW t \in Task, cur = t,
         trapped[t] => ~IsThread(t), Restore(t)
  PROVE  KeptContext(t)
<1>1. /\ Dropping(t) /\ dropped'[t] = NoGuard /\ UNCHANGED <<want, held>>
      /\ dropped[t].saved \in BOOLEAN
      /\ iflag'[t] = IF dropped[t].saved THEN TRUE ELSE iflag[t]
  <2>1. dropped[t] \in Guard \cup {NoGuard} /\ Dropping(t) /\ dropped[t] # NoGuard
    BY DEF Restore, TypeOK, Dropping
  <2>2. dropped[t].saved \in BOOLEAN
    BY <2>1 DEF Guard
  <2> QED BY <2>1, <2>2 DEF Restore, TypeOK
<1>2. Inside(t) /\ ~iflag[t] /\ ~Spinning(t) /\ ~Spinning(t)' /\ ~Dropping(t)'
  BY <1>1 DEF Inside, Masked, Spinning, Dropping
<1>3. held[t] = << >> => iflag'[t] = Open(t)
  <2>1. held[t] = << >> => dropped[t].saved = Open(t)
    BY <1>1 DEF Contexts
  <2>2. iflag[t] = FALSE
    BY <1>2 DEF TypeOK
  <2> QED BY <1>1, <2>1, <2>2
<1>4. held[t] # << >> => held[t][1].saved = Open(t)
  BY DEF Contexts
<1>5. ~IsThread(t) => trapped[t]
  BY <1>2 DEF Contexts
<1>6. Inside(t)' <=> held[t] # << >>
  BY <1>1, <1>2 DEF Inside
<1> QED BY <1>1, <1>2, <1>3, <1>4, <1>5, <1>6 DEF KeptContext

\* The steps of the locks and of the traps, by the task on the CPU.
LEMMA ContextsLock ==
  ASSUME Masks, LocksInv, Masked, Contexts, NEW t \in Task, UNCHANGED shell,
         Acquire(t) \/ Release(t) \/ Restore(t) \/ (\E l \in Lock : lock(t, l))
  PROVE  Contexts'
<1>0. /\ TypeOK /\ UNCHANGED <<cur, trapped>> /\ cur = t
      /\ \A u \in Task : Open(u)' = Open(u)
  <2>1. TypeOK /\ UNCHANGED <<cur, trapped>> /\ cur = t
    BY DEF LocksInv, Acquire, Release, Restore, lock
  <2> QED BY <2>1 DEF Open, ShellMasks
<1>1. \A u \in Task \ {t} :
        /\ iflag'[u] = iflag[u] /\ want'[u] = want[u] /\ held'[u] = held[u]
        /\ dropped'[u] = dropped[u]
  <2>1. CASE Acquire(t)
    BY <1>0, <2>1 DEF Acquire, TypeOK
  <2>2. CASE Release(t)
    BY <1>0, <2>2 DEF Release, TypeOK
  <2>3. CASE Restore(t)
    BY <1>0, <2>3 DEF Restore, TypeOK
  <2>4. CASE \E l \in Lock : lock(t, l)
    BY <1>0, <2>4 DEF lock, disable_and_save_interrupts, TypeOK
  <2> QED BY <2>1, <2>2, <2>3, <2>4
<1>2. \A u \in Task \ {t} : KeptContext(u)
  BY <1>0, <1>1 DEF KeptContext, Contexts, Inside, Spinning, Dropping
<1>3. KeptContext(t)
  <2>1. trapped[t] => ~IsThread(t)
    BY DEF Contexts
  <2> QED
    BY <1>0, <2>1, LockContext, AcquireContext, ReleaseContext, RestoreContext
<1>4. \A u \in Task : KeptContext(u)
  BY <1>2, <1>3
<1> QED BY <1>0, <1>4 DEF KeptContext, Contexts

\* A trap masks, and its return restores the flag of the process.
LEMMA ContextsTrap ==
  ASSUME LocksInv, Masked, Contexts, NEW t \in Task, UNCHANGED shell, Trap(t) \/ Return(t)
  PROVE  Contexts'
<1>0. /\ TypeOK /\ UNCHANGED <<cur, want, held, dropped>> /\ cur = t /\ ~IsThread(t)
      /\ ~Inside(t) /\ t # Shell
  <2>1. CASE Trap(t)
    BY <2>1, ShellFacts DEF LocksInv, Trap, Contexts
  <2>2. CASE Return(t)
    BY <2>2, ShellFacts DEF LocksInv, Return, Contexts, Inside
  <2> QED BY <2>1, <2>2
<1>1. \A u \in Task : Inside(u)' = Inside(u) /\ Spinning(u)' = Spinning(u)
                      /\ Dropping(u)' = Dropping(u)
  BY <1>0 DEF Inside, Spinning, Dropping
<1>2. \A u \in Task \ {t} : iflag'[u] = iflag[u] /\ trapped'[u] = trapped[u]
  BY <1>0 DEF Trap, Return, TypeOK
<1>3. \A u \in Task \ {t} : Open(u)' = Open(u)
  BY <1>2 DEF Open, ShellMasks
<1>4. iflag'[t] = Open(t)'
  BY <1>0 DEF Open, Trap, Return, TypeOK
<1> QED BY <1>0, <1>1, <1>2, <1>3, <1>4 DEF Contexts, Inside

\* Every step of the CPU leaves each task the flag its context calls for.
LEMMA NextContexts ==
  ASSUME Masks, LocksInv, Masked, ConsoleInv, [CNext]_cvars
  PROVE  Contexts'
<1>0. Contexts /\ shell \in ShellPc
  BY DEF ConsoleInv, CTypeOK
<1>1. (shell' = Awake) => (ShellMasks' <=> ShellMasks)
  BY DEF Awake, ShellMasks
<1>2. CASE Arrive \/ raw_uart_interrupt_handler \/ Parked \/ UNCHANGED cvars
  <2>1. (ShellMasks' <=> ShellMasks) /\ UNCHANGED <<cur, iflag, want, held, dropped, trapped>>
    BY <1>1, <1>2 DEF Arrive, raw_uart_interrupt_handler, Parked, cvars, vars, console, ShellMasks
  <2> QED BY <1>0, <2>1, ContextsKept
<1>3. CASE TimerIrq
  <2>1. \A t \in Task : ~trapped[t]
    BY <1>3, SwitchedOutside DEF TimerIrq, Tick
  <2> QED BY <1>0, <1>1, <1>3, <2>1, ContextsKept DEF TimerIrq, Tick
<1>4. CASE ShellStep
  BY <1>4, ShellStepMoves, ContextsShell
<1>5. ASSUME NEW t \in Task, TrapEntry(t) \/ TrapReturn(t)
      PROVE  Contexts'
  BY <1>0, <1>5, ContextsTrap DEF TrapEntry, TrapReturn, console
<1>6. ASSUME NEW t \in Task, sys_read(t) \/ PmmSpins(t)
      PROVE  Contexts'
  BY <1>0, <1>6, ContextsKept DEF sys_read, PmmSpins, vars, ShellMasks
<1>7. ASSUME NEW t \in Task, LockStep(t)
      PROVE  Contexts'
  BY <1>0, <1>7, ContextsLock DEF LockStep, GuardStep, console
<1>8. ASSUME NEW t \in Task, yield_now(t)
      PROVE  Contexts'
  <2>1. \A u \in Task : ~trapped[u]
    BY <1>8, SwitchedOutside DEF yield_now, Inside
  <2> QED BY <1>0, <1>8, <2>1, ContextsKept DEF yield_now, ShellMasks
<1> QED BY <1>2, <1>3, <1>4, <1>5, <1>6, <1>7, <1>8 DEF CNext

--------------------------------------------------------------------------------
(* The input ring *)

\* What is appended behind a prefix leaves it alone.
LEMMA PrefixConcat ==
  ASSUME NEW S, NEW s \in Seq(S), NEW u \in Seq(S), NEW n \in Nat, n <= Len(s)
  PROVE  /\ s \o u \in Seq(S) /\ Len(s \o u) = Len(s) + Len(u)
         /\ SubSeq(s \o u, 1, n) = SubSeq(s, 1, n)
<1>1. /\ s \o u \in Seq(S) /\ Len(s \o u) = Len(s) + Len(u)
      /\ \A i \in 1 .. Len(s) : (s \o u)[i] = s[i]
  OBVIOUS
<1> QED BY <1>1, PrefixFacts

\* A prefix, one element longer.
LEMMA PrefixExtend ==
  ASSUME NEW S, NEW s \in Seq(S), NEW n \in Nat, n < Len(s)
  PROVE  Append(SubSeq(s, 1, n), s[n + 1]) = SubSeq(s, 1, n + 1)
OBVIOUS

\* An interrupt handler empties the FIFO into the ring: what is in the ring
\* stays, and what has no room is dropped.
LEMMA DrainFacts ==
  ASSUME CTypeOK, RingOK, Drain, UNCHANGED <<head, taken>>
  PROVE  /\ rx' \in Seq(Nat) /\ ring' \in Seq(Nat) /\ RingOK'
         /\ Len(ring) \in Nat /\ Len(ring') \in Nat /\ Len(ring) <= Len(ring')
<1> DEFINE room == RingCapacity - (Len(ring) - head)
           n == IF room < Len(rx) THEN room ELSE Len(rx)
<1>1. /\ head \in Nat /\ rx \in Seq(Nat) /\ ring \in Seq(Nat) /\ RingCapacity \in Nat
      /\ Len(rx) \in Nat /\ Len(ring) \in Nat /\ head <= Len(ring)
      /\ Len(ring) - head <= RingCapacity
  BY ConsoleAssumption, SeqFacts DEF CTypeOK, RingOK
<1>2. n \in Nat /\ n <= Len(rx) /\ n <= room
  BY <1>1
<1>3. ring' = ring \o SubSeq(rx, 1, n) /\ rx' = << >>
  BY DEF Drain
<1> HIDE DEF n
<1>4. SubSeq(rx, 1, n) \in Seq(Nat) /\ Len(SubSeq(rx, 1, n)) = n
  BY <1>1, <1>2, PrefixFacts
<1>5. /\ ring' \in Seq(Nat) /\ Len(ring') = Len(ring) + n
      /\ SubSeq(ring', 1, head) = SubSeq(ring, 1, head)
  BY <1>1, <1>3, <1>4, PrefixConcat
<1>6. rx' \in Seq(Nat)
  BY <1>3
<1>7. Len(ring') \in Nat /\ Len(ring) <= Len(ring') /\ head <= Len(ring')
      /\ Len(ring') - head <= RingCapacity
  BY <1>1, <1>2, <1>5
<1> QED BY <1>1, <1>5, <1>6, <1>7 DEF RingOK

\* The store of HEAD hands out the byte behind the last one.
LEMMA AdvanceFacts ==
  ASSUME CTypeOK, RingOK, Dequeuing, NEW t \in Task, loaded[t] # Idle, AdvanceHead(t),
         UNCHANGED ring
  PROVE  /\ head' = head + 1 /\ taken' \in Seq(Nat) /\ RingOK'
         /\ loaded' = [loaded EXCEPT ![t] = Idle]
<1>1. /\ head \in Nat /\ ring \in Seq(Nat) /\ Len(ring) \in Nat /\ head < Len(ring)
      /\ loaded[t] = head /\ RingCapacity \in Nat
  BY ConsoleAssumption, SeqFacts DEF CTypeOK, Dequeuing
<1>2. head' = head + 1 /\ taken' = SubSeq(ring, 1, head + 1)
  BY <1>1, PrefixExtend DEF AdvanceHead, RingOK
<1>3. taken' \in Seq(Nat)
  BY <1>1, <1>2, PrefixFacts
<1>4. head + 1 <= Len(ring) /\ Len(ring) - (head + 1) <= RingCapacity
  BY <1>1 DEF RingOK
<1> QED BY <1>2, <1>3, <1>4 DEF RingOK, AdvanceHead

\* The steps that leave the ring, its consumers and the shell alone.
LEMMA RingKept ==
  ASSUME ConsoleInv, UNCHANGED <<arch, rx, ring, head, loaded, shell, taken, arrived>>,
         event' \in BOOLEAN, event => event',
         UNCHANGED cur \/ (shell # "asleep" /\ \A t \in Task : loaded[t] = Idle),
         \A t \in Task : loaded[t] # Idle =>
           (Inside(t)' <=> Inside(t)) /\ (trapped[t] => trapped'[t])
  PROVE  CTypeOK' /\ Dequeuing' /\ RingOK' /\ Wakeup'
<1>1. CTypeOK' /\ RingOK'
  BY DEF ConsoleInv, CTypeOK, RingOK
<1>2. Dequeuing'
  BY DEF ConsoleInv, Dequeuing
<1>3. Wakeup'
  BY DEF ConsoleInv, Wakeup, Waiting
<1> QED BY <1>1, <1>2, <1>3

\* A dequeue_byte of task t: HEAD is loaded, then stored.
LEMMA DequeueStep ==
  ASSUME LocksInv, ConsoleInv, NEW t \in Task, cur = t, ~Inside(t),
         IF t = Shell THEN shell = "dequeue" ELSE trapped[t],
         UNCHANGED <<arch, arrived, rx, ring, event, cur, want, held, dropped, trapped>>,
         \/ /\ loaded[t] = Idle /\ Waiting > 0 /\ LoadHead(t)
            /\ UNCHANGED <<head, taken, shell>>
         \/ /\ loaded[t] # Idle /\ AdvanceHead(t)
            /\ shell' = IF t = Shell THEN "handle" ELSE shell
  PROVE  CTypeOK' /\ Dequeuing' /\ RingOK' /\ Wakeup'
<1>0. /\ CTypeOK /\ RingOK /\ Dequeuing /\ Wakeup /\ loaded \in [Task -> Nat \cup {Idle}]
      /\ head \in Nat /\ Len(ring) \in Nat
  BY SeqFacts DEF ConsoleInv, CTypeOK
<1>1. \A u \in Task : Inside(u)' <=> Inside(u)
  BY DEF Inside, Spinning, Dropping
<1>2. \A u \in Task : u # t => loaded[u] = Idle
  BY <1>0 DEF Dequeuing
<1>3. CASE loaded[t] = Idle
  <2>1. Waiting > 0 /\ loaded' = [loaded EXCEPT ![t] = head] /\ UNCHANGED <<head, taken, shell>>
    BY <1>3 DEF LoadHead
  <2>2. CTypeOK' /\ RingOK' /\ Wakeup'
    BY <1>0, <2>1 DEF CTypeOK, RingOK, Wakeup, Waiting
  <2>3. head < Len(ring)
    BY <1>0, <2>1 DEF Waiting
  <2>4. loaded'[t] = head /\ \A u \in Task : u # t => loaded'[u] = Idle
    BY <1>0, <1>2, <2>1
  <2>5. Dequeuing'
    BY <1>1, <2>1, <2>3, <2>4 DEF Dequeuing
  <2> QED BY <2>2, <2>5
<1>4. CASE loaded[t] # Idle
  <2>1. /\ head' = head + 1 /\ taken' \in Seq(Nat) /\ RingOK'
        /\ loaded' = [loaded EXCEPT ![t] = Idle]
        /\ shell' = IF t = Shell THEN "handle" ELSE shell
    BY <1>0, <1>4, AdvanceFacts
  <2>2. CTypeOK'
    BY <1>0, <2>1 DEF CTypeOK, ShellPc
  <2>3. \A u \in Task : loaded'[u] = Idle
    BY <1>0, <1>2, <2>1
  <2>4. Dequeuing'
    BY <2>3 DEF Dequeuing
  <2>5. Wakeup'
    <3>1. head < Len(ring) /\ Waiting # 0
      BY <1>0, <1>4 DEF Dequeuing, Waiting
    <3> QED BY <1>0, <2>1, <3>1 DEF Wakeup, Waiting, Dequeuing, Shell
  <2> QED BY <2>1, <2>2, <2>4, <2>5
<1> QED BY <1>3, <1>4

\* The interrupt handlers: whoever waits for a byte is woken.
LEMMA DrainStep ==
  ASSUME LocksInv, Masked, ConsoleInv, iflag[cur], shell' = Awake,
         \/ UNCHANGED <<rx, ring>>
         \/ Drain /\ (arch = "aarch64" => event'),
         event' \in BOOLEAN, event => event',
         UNCHANGED <<arch, arrived, head, loaded, taken>>
  PROVE  CTypeOK' /\ Dequeuing' /\ RingOK' /\ Wakeup'
<1>0. /\ CTypeOK /\ RingOK /\ Dequeuing /\ Wakeup
      /\ \A t \in Task : loaded[t] = Idle
  BY SwitchedOutside DEF ConsoleInv
<1>1. rx' \in Seq(Nat) /\ ring' \in Seq(Nat) /\ RingOK'
  <2>1. CASE UNCHANGED <<rx, ring>>
    BY <1>0, <2>1 DEF CTypeOK, RingOK
  <2>2. CASE Drain
    BY <1>0, <2>2, DrainFacts
  <2> QED BY <2>1, <2>2
<1>2. shell' \in ShellPc /\ shell' # "asleep" /\ (shell' = "wfe" => shell = "wfe")
  BY <1>0 DEF Awake, CTypeOK, ShellPc, Wakeup
<1>3. CTypeOK'
  BY <1>0, <1>1, <1>2 DEF CTypeOK
<1>4. Dequeuing'
  BY <1>0 DEF Dequeuing
<1>5. Wakeup'
  BY <1>0, <1>2 DEF Wakeup, Waiting
<1> QED BY <1>1, <1>3, <1>4, <1>5

\* shell::run.
LEMMA ShellRing ==
  ASSUME LocksInv, Masked, ConsoleInv, ShellStep
  PROVE  CTypeOK' /\ Dequeuing' /\ RingOK' /\ Wakeup'
<1>0. /\ CTypeOK /\ RingOK /\ Dequeuing /\ Wakeup /\ Shell \in Task
      /\ ShellMoves
  BY ShellFacts, ShellStepMoves DEF ConsoleInv
<1>1. CASE DequeueSome
  <2>1. shell = "dequeue" /\ UNCHANGED <<arrived, rx, event>>
    BY <1>1 DEF DequeueSome, At, Device
  <2>2. \/ /\ loaded[Shell] = Idle /\ Waiting > 0 /\ LoadHead(Shell)
           /\ UNCHANGED <<head, taken, shell>>
        \/ loaded[Shell] # Idle /\ AdvanceHead(Shell) /\ shell' = "handle"
    BY <1>1 DEF DequeueSome
  <2> QED BY <1>0, <2>1, <2>2, DequeueStep DEF ShellMoves
<1>2. CASE ~DequeueSome
  <2>1. /\ UNCHANGED <<head, loaded, taken, arrived>> /\ rx' \in {rx, Tail(rx)}
        /\ (rx' = rx \/ rx # << >>) /\ event' \in BOOLEAN
    BY <1>0, <1>2 DEF ShellStep, Mask, DequeueNone, Wfe, Handle, PollCommand, PollStatus,
                      PollData, LockPmm, AllocPanics, Device, CTypeOK
  <2>2. rx' \in Seq(Nat)
    BY <1>0, <2>1, TailFacts DEF CTypeOK
  <2>3. CTypeOK' /\ RingOK'
    BY <1>0, <2>1, <2>2 DEF CTypeOK, RingOK, ShellMoves
  <2>4. loaded[Shell] = Idle
    BY <1>0, <1>2 DEF Dequeuing, ShellStep, Mask, DequeueNone, Wfe, Handle, PollCommand,
                      PollStatus, PollData, LockPmm, AllocPanics, At
  <2>5. Dequeuing'
    BY <1>0, <2>1, <2>4 DEF Dequeuing, ShellMoves
  <2>6. Wakeup'
    <3>1. CASE DequeueNone
      BY <1>0, <3>1 DEF DequeueNone, Wakeup, Waiting, ShellMoves, CTypeOK
    <3>2. CASE Wfe
      BY <1>0, <3>2 DEF Wfe, At, Wakeup, Waiting, ShellMoves
    <3>3. CASE ~DequeueNone /\ ~Wfe
      <4>1. shell' \notin {"asleep", "wfe"}
        BY <1>2, <3>3 DEF ShellStep, Mask, Handle, PollCommand, PollStatus, PollData,
                          LockPmm, AllocPanics
      <4> QED BY <4>1 DEF Wakeup
    <3> QED BY <3>1, <3>2, <3>3
  <2> QED BY <2>3, <2>5, <2>6
<1> QED BY <1>1, <1>2

\* Every step keeps the ring, the dequeue in progress and the wake-up sound.
LEMMA NextRing ==
  ASSUME Masks, LocksInv, Masked, ConsoleInv, [CNext]_cvars
  PROVE  CTypeOK' /\ Dequeuing' /\ RingOK' /\ Wakeup'
<1>0. /\ CTypeOK /\ RingOK /\ Dequeuing /\ Wakeup /\ Contexts /\ TypeOK
  BY DEF ConsoleInv, LocksInv
<1>1. CASE Arrive
  <2>1. arrived + 1 \in Nat /\ Append(rx, arrived + 1) \in Seq(Nat)
    BY <1>0 DEF CTypeOK
  <2>2. CTypeOK' /\ RingOK'
    BY <1>0, <1>1, <2>1 DEF Arrive, CTypeOK, RingOK
  <2>3. Dequeuing' /\ Wakeup'
    BY <1>0, <1>1 DEF Arrive, vars, Dequeuing, Wakeup, Waiting, Inside, Spinning, Dropping
  <2> QED BY <2>2, <2>3
<1>2. CASE raw_uart_interrupt_handler
  BY <1>0, <1>2, DrainStep DEF raw_uart_interrupt_handler, vars, CTypeOK, Drain
<1>3. CASE TimerIrq
  BY <1>0, <1>3, DrainStep DEF TimerIrq, Tick, CTypeOK
<1>4. CASE ShellStep
  BY <1>4, ShellRing
<1>5. CASE Parked \/ UNCHANGED cvars
  BY <1>0, <1>5, RingKept
     DEF Parked, cvars, vars, console, CTypeOK, Inside, Spinning, Dropping
<1>6. ASSUME NEW t \in Task, TrapEntry(t)
      PROVE  CTypeOK' /\ Dequeuing' /\ RingOK' /\ Wakeup'
  <2>1. loaded[t] = Idle /\ cur = t /\ UNCHANGED <<cur, want, held, dropped>>
    BY <1>0, <1>6, ShellFacts DEF TrapEntry, Trap, Dequeuing
  <2>2. \A u \in Task : u # t => loaded[u] = Idle
    BY <1>0, <2>1 DEF Dequeuing
  <2> QED BY <1>0, <1>6, <2>1, <2>2, RingKept DEF TrapEntry, console, CTypeOK
<1>7. ASSUME NEW t \in Task, TrapReturn(t)
      PROVE  CTypeOK' /\ Dequeuing' /\ RingOK' /\ Wakeup'
  <2>1. loaded[t] = Idle /\ cur = t /\ UNCHANGED <<cur, want, held, dropped>>
    BY <1>7 DEF TrapReturn, Return
  <2>2. \A u \in Task : u # t => loaded[u] = Idle
    BY <1>0, <2>1 DEF Dequeuing
  <2> QED BY <1>0, <1>7, <2>1, <2>2, RingKept DEF TrapReturn, Device, CTypeOK
<1>8. ASSUME NEW t \in Task, sys_read(t)
      PROVE  CTypeOK' /\ Dequeuing' /\ RingOK' /\ Wakeup'
  <2>1. /\ cur = t /\ trapped[t] /\ ~Inside(t) /\ t # Shell
        /\ UNCHANGED <<arch, arrived, rx, ring, event, cur, want, held, dropped, trapped, shell>>
    BY <1>0, <1>8, ShellFacts DEF sys_read, Device, vars, Inside
  <2> QED BY <1>8, <2>1, DequeueStep DEF sys_read
<1>9. ASSUME NEW t \in Task, LockStep(t)
      PROVE  CTypeOK' /\ Dequeuing' /\ RingOK' /\ Wakeup'
  <2>1. cur = t /\ UNCHANGED <<cur, trapped, console>>
    BY <1>9 DEF LockStep, GuardStep, lock, Acquire, Release, Restore
  <2>2. loaded[t] = Idle
    <3>1. CASE GuardStep(t)
      <4>1. Inside(t)
        BY <3>1 DEF GuardStep, Acquire, Release, Restore, Inside
      <4> QED BY <1>0, <4>1 DEF Dequeuing
    <3>2. CASE ~GuardStep(t)
      BY <1>9, <3>2 DEF LockStep
    <3> QED BY <3>1, <3>2
  <2>3. \A u \in Task : loaded[u] = Idle
    BY <1>0, <2>1, <2>2 DEF Dequeuing
  <2> QED BY <1>0, <2>1, <2>3, RingKept DEF console, CTypeOK
<1>10. ASSUME NEW t \in Task, yield_now(t)
      PROVE  CTypeOK' /\ Dequeuing' /\ RingOK' /\ Wakeup'
  <2>1. /\ cur = t /\ t # Shell /\ IsThread(t)
        /\ UNCHANGED <<want, held, dropped, trapped, arch, arrived, rx, ring>>
        /\ UNCHANGED <<head, loaded, shell, taken>> /\ event' \in BOOLEAN /\ (event => event')
    BY <1>0, <1>10 DEF yield_now, Device, CTypeOK
  <2>2. shell # "asleep" /\ \A u \in Task : loaded[u] = Idle
    BY <1>0, <2>1 DEF Wakeup, Dequeuing, Contexts
  <2> QED BY <2>1, <2>2, RingKept
<1>11. ASSUME NEW t \in Task, PmmSpins(t)
       PROVE  CTypeOK' /\ Dequeuing' /\ RingOK' /\ Wakeup'
  <2>1. /\ shell = "pmm" /\ shell' = "stuck"
        /\ UNCHANGED <<arch, arrived, rx, ring, head, loaded, event, taken>>
        /\ UNCHANGED <<cur, want, held, dropped, trapped>>
    BY <1>11 DEF PmmSpins, Device, vars
  <2>2. CTypeOK' /\ RingOK'
    BY <1>0, <2>1 DEF CTypeOK, RingOK, ShellPc
  <2>3. Dequeuing' /\ Wakeup'
    BY <1>0, <2>1 DEF Dequeuing, Wakeup, Inside, Spinning, Dropping
  <2> QED BY <2>2, <2>3
<1> QED BY <1>1, <1>2, <1>3, <1>4, <1>5, <1>6, <1>7, <1>8, <1>9, <1>10, <1>11 DEF CNext

\* The console's invariant is kept by every step.
LEMMA NextConsoleInv ==
  ASSUME Masks, LocksInv, Masked, ConsoleInv, [CNext]_cvars
  PROVE  LocksInv' /\ Masked' /\ ConsoleInv'
BY NextLocksKept, NextContexts, NextRing DEF ConsoleInv

\* The console before the first byte.
LEMMA InitConsoleInv == CInit => ConsoleInv
<1> SUFFICES ASSUME CInit PROVE ConsoleInv
  OBVIOUS
<1>1. Shell \in Task
  BY ShellFacts
<1>2. CTypeOK
  <2>1. << >> \in Seq(Nat) /\ [t \in Task |-> Idle] \in [Task -> Nat \cup {Idle}]
    OBVIOUS
  <2> QED BY <2>1 DEF CInit, CTypeOK, ShellPc
<1>3. Contexts
  BY DEF CInit, Init, Contexts, Open, ShellMasks, Inside, Spinning, Dropping
<1>4. Dequeuing /\ Wakeup
  BY DEF CInit, Dequeuing, Wakeup
<1>5. RingOK
  <2>1. << >> \in Seq(Nat) /\ Len(<< >>) = 0 /\ SubSeq(<< >>, 1, 0) = << >>
    OBVIOUS
  <2> QED BY <2>1, ConsoleAssumption DEF CInit, RingOK
<1> QED BY <1>2, <1>3, <1>4, <1>5 DEF ConsoleInv

--------------------------------------------------------------------------------
(* The register frames *)

\* A step of Frames is one of Console.
LEMMA FramesStepsConsole == [FNext]_fvars => [CNext]_cvars
<1>1. FNext => CNext
  BY DEF FNext, CNext, Timer, Yield, EnterTrap, LeaveTrap
<1>2. UNCHANGED fvars => UNCHANGED cvars
  BY DEF fvars
<1> QED BY <1>1, <1>2

\* What a task runs on with makes older copies of its registers stale.
LEMMA AgedFacts ==
  ASSUME NEW f \in [Task -> [Reg -> Int]], NEW t \in Task
  PROVE  /\ Aged(f, t) \in [Task -> [Reg -> Int]]
         /\ \A u \in Task, r \in Reg :
              Aged(f, t)[u][r] = IF f[u][r] = t THEN Stale ELSE f[u][r]
BY DEF Aged, Stale

\* A switch, by whichever entry: the frame that is restored is the next task's
\* own, and what is saved is the last task's.
LEMMA SwitchFrames ==
  ASSUME TypeOK, FramesInv, ~trapped[cur], cur' \in Task, UNCHANGED trapped,
         \A t \in Task : ~trapped[t],
         SaveAndSwitch(Reg)
  PROVE  FramesInv'
<1>0. /\ cur \in Task /\ cpu \in [Reg -> Int] /\ frame \in [Task -> [Reg -> Int]]
      /\ sp = [t \in Task |-> t] /\ EntryStack = cur
  BY DEF TypeOK, FramesInv, EntryStack
<1> DEFINE saved == [frame EXCEPT ![cur] = [r \in Reg |-> cpu[r]]]
<1>1. sp' = [t \in Task |-> t] /\ sp'[cur'] = cur'
  BY <1>0 DEF SaveAndSwitch
<1>2. saved \in [Task -> [Reg -> Int]]
  BY <1>0
<1>3. /\ cpu' = [r \in Reg |-> saved[cur'][r]]
      /\ frame' = Aged(saved, cur')
      /\ kstack' = NextStack(cur')
  BY <1>0, <1>1 DEF SaveAndSwitch
<1>4. kstack' = cur'
  BY <1>3 DEF NextStack
<1>5. \A t \in Task, r \in Reg : saved[t][r] = t \/ (r = "sp_el0" /\ IsThread(t))
  <2> TAKE t \in Task, r \in Reg
  <2>1. CASE t = cur
    BY <1>0, <2>1 DEF FramesInv
  <2>2. CASE t # cur
    BY <1>0, <2>2 DEF FramesInv
  <2> QED BY <2>1, <2>2
<1> HIDE DEF saved
<1>6. cpu' \in [Reg -> Int]
  BY <1>2, <1>3
<1>7. frame' \in [Task -> [Reg -> Int]]
  BY <1>2, <1>3, AgedFacts
<1>8. \A t \in Task, r \in Reg :
        t # cur' => frame'[t][r] = t \/ (r = "sp_el0" /\ IsThread(t))
  <2> SUFFICES ASSUME NEW t \in Task, NEW r \in Reg, t # cur', ~(r = "sp_el0" /\ IsThread(t))
               PROVE  frame'[t][r] = t
    OBVIOUS
  <2>1. saved[t][r] = t
    BY <1>5
  <2>2. frame'[t][r] = IF saved[t][r] = cur' THEN Stale ELSE saved[t][r]
    BY <1>2, <1>3, AgedFacts
  <2> QED BY <2>1, <2>2
<1>9. \A r \in Reg : cpu'[r] = cur' \/ (r = "sp_el0" /\ IsThread(cur'))
  BY <1>3, <1>5
<1>10. \A t \in Task : ~trapped'[t]
  OBVIOUS
<1> QED BY <1>1, <1>4, <1>6, <1>7, <1>8, <1>9, <1>10 DEF FramesInv

\* Every exception body saves all of the registers.
LEMMA EntryRegsAll == \A b \in BOOLEAN : EntryRegs(b) = Reg
BY DEF EntryRegs, timer_handler_stub, el1_sync_body, el1_irq_body, el0_irq_body

\* A trap saves the process on the process's own kernel stack.
LEMMA EnterTrapFrames ==
  ASSUME TypeOK, Contexts, FramesInv, NEW t \in Task, EnterTrap(t)
  PROVE  FramesInv'
<1>0. /\ cur = t /\ ~IsThread(t) /\ ~trapped[t] /\ trapped' = [trapped EXCEPT ![t] = TRUE]
      /\ UNCHANGED <<cur, sp, kstack>> /\ EntryStack = t
      /\ frame' = [frame EXCEPT ![t] = cpu]
      /\ cpu' = [r \in Reg |-> IF r = "sp_el0" THEN cpu[r] ELSE Kernel]
      /\ cpu \in [Reg -> Int] /\ frame \in [Task -> [Reg -> Int]]
  BY DEF EnterTrap, TrapEntry, Trap, EntryStack, FramesInv
<1>1. \A r \in Reg : cpu[r] = t
  BY <1>0 DEF FramesInv
<1>2. cpu' \in [Reg -> Int] /\ frame' \in [Task -> [Reg -> Int]]
  BY <1>0 DEF Kernel
<1>3. \A u \in Task, r \in Reg :
        u # cur' \/ trapped'[u] => frame'[u][r] = u \/ (r = "sp_el0" /\ IsThread(u))
  <2> SUFFICES ASSUME NEW u \in Task, NEW r \in Reg, u # cur' \/ trapped'[u]
               PROVE  frame'[u][r] = u \/ (r = "sp_el0" /\ IsThread(u))
    OBVIOUS
  <2>1. CASE u = t
    BY <1>0, <1>1, <2>1
  <2>2. CASE u # t
    BY <1>0, <2>2 DEF FramesInv
  <2> QED BY <2>1, <2>2
<1>4. trapped'[t]
  BY <1>0 DEF TypeOK
<1>5. \A r \in Reg : cpu'[r] = cur' \/ (trapped'[cur'] /\ cpu'[r] = Kernel /\ r # "sp_el0")
  BY <1>0, <1>1, <1>4
<1> QED BY <1>0, <1>2, <1>3, <1>5 DEF FramesInv

\* The return from a trap restores what its entry saved.
LEMMA LeaveTrapFrames ==
  ASSUME TypeOK, Contexts, FramesInv, NEW t \in Task, LeaveTrap(t)
  PROVE  FramesInv'
<1>0. /\ cur = t /\ trapped[t] /\ trapped' = [trapped EXCEPT ![t] = FALSE]
      /\ UNCHANGED <<cur, sp, kstack>> /\ frame' = Aged(frame, t)
      /\ cpu \in [Reg -> Int] /\ frame \in [Task -> [Reg -> Int]]
  BY DEF LeaveTrap, TrapReturn, Return, FramesInv
<1>1. ~IsThread(t) /\ EntryStack = t
  BY <1>0 DEF Contexts, EntryStack, FramesInv
<1>2. \A r \in Reg : frame[t][r] = t
  BY <1>0, <1>1 DEF FramesInv
<1>3. "result" \in Reg /\ t \in Int
  BY LocksAssumption DEF Reg, Task
<1>4. cpu' \in [Reg -> Int] /\ \A r \in Reg : cpu'[r] = t
  <2>1. PICK result \in {frame[t]["result"], t} :
          cpu' = [frame[t] EXCEPT !["result"] = result]
    BY <1>1 DEF LeaveTrap
  <2>2. result = t
    BY <1>2, <1>3, <2>1
  <2>3. frame[t] \in [Reg -> Int]
    BY <1>0
  <2> QED BY <1>2, <1>3, <2>1, <2>2, <2>3
<1>5. frame' \in [Task -> [Reg -> Int]]
  BY <1>0, AgedFacts
<1>6. \A u \in Task, r \in Reg :
        u # cur' \/ trapped'[u] => frame'[u][r] = u \/ (r = "sp_el0" /\ IsThread(u))
  <2> SUFFICES ASSUME NEW u \in Task, NEW r \in Reg, u # cur' \/ trapped'[u],
                      ~(r = "sp_el0" /\ IsThread(u))
               PROVE  frame'[u][r] = u
    OBVIOUS
  <2>1. u # t
    BY <1>0 DEF TypeOK
  <2>2. frame[u][r] = u
    BY <1>0, <2>1 DEF FramesInv
  <2>3. frame'[u][r] = IF frame[u][r] = t THEN Stale ELSE frame[u][r]
    BY <1>0, AgedFacts
  <2> QED BY <2>1, <2>2, <2>3
<1> QED BY <1>0, <1>4, <1>5, <1>6 DEF FramesInv

\* Every step keeps each task's registers where they belong.
LEMMA NextFramesInv ==
  ASSUME Masks, CpuInv, [FNext]_fvars
  PROVE  FramesInv'
<1>0. TypeOK /\ LocksInv /\ Masked /\ ConsoleInv /\ Contexts /\ FramesInv /\ cur \in Task
  BY DEF CpuInv, LocksInv, ConsoleInv, TypeOK
<1>1. CASE Timer
  <2>1. \A t \in Task : ~trapped[t]
    BY <1>0, <1>1, SwitchedOutside DEF Timer, TimerIrq, Tick
  <2>2. cur' \in Task /\ UNCHANGED trapped
    BY <1>0, <1>1, NextTask DEF Timer, TimerIrq, Tick
  <2>3. SaveAndSwitch(Reg)
    BY <1>1, EntryRegsAll DEF Timer
  <2> QED BY <1>0, <2>1, <2>2, <2>3, SwitchFrames
<1>2. ASSUME NEW t \in Task, Yield(t)
      PROVE  FramesInv'
  <2>1. \A u \in Task : ~trapped[u]
    BY <1>0, <1>2, SwitchedOutside DEF Yield, yield_now, Inside
  <2>2. cur' \in Task /\ UNCHANGED trapped
    BY <1>0, <1>2, NextTask DEF Yield, yield_now
  <2>3. SaveAndSwitch(Reg)
    BY <1>2, EntryRegsAll DEF Yield
  <2> QED BY <1>0, <2>1, <2>2, <2>3, SwitchFrames
<1>3. ASSUME NEW t \in Task, EnterTrap(t) \/ LeaveTrap(t)
      PROVE  FramesInv'
  BY <1>0, <1>3, EnterTrapFrames, LeaveTrapFrames
<1>4. CASE UNCHANGED <<cpu, frame, sp, kstack, cur, trapped>>
  BY <1>0, <1>4 DEF FramesInv
<1>5. ShellStep => UNCHANGED <<cur, trapped>>
  BY <1>0, ShellStepMoves DEF ShellMoves
<1>6. ASSUME NEW t \in Task, sys_read(t) \/ LockStep(t) \/ PmmSpins(t)
      PROVE  UNCHANGED <<cur, trapped>>
  BY <1>6 DEF sys_read, PmmSpins, LockStep, GuardStep, Acquire, Release, Restore, lock, vars
<1>7. Arrive \/ raw_uart_interrupt_handler \/ Parked \/ UNCHANGED cvars
        => UNCHANGED <<cur, trapped>>
  BY DEF Arrive, raw_uart_interrupt_handler, Parked, cvars, vars
<1> QED BY <1>1, <1>2, <1>3, <1>4, <1>5, <1>6, <1>7 DEF FNext, fvars

\* The registers and frames when the shell starts.
LEMMA InitFramesInv == FInit => FramesInv
<1> SUFFICES ASSUME FInit PROVE FramesInv
  OBVIOUS
<1>1. Shell \in Task /\ IsThread(Shell) /\ cur = Shell /\ (\A t \in Task : ~trapped[t])
      /\ \A t \in Task : t \in Int
  BY ShellFacts, LocksAssumption DEF FInit, CInit, Init, Shell, Task
<1>2. cpu \in [Reg -> Int] /\ frame \in [Task -> [Reg -> Int]]
  BY <1>1 DEF FInit, Stale, Zero
<1> QED BY <1>1, <1>2 DEF FInit, FramesInv

--------------------------------------------------------------------------------
(* The invariant and what follows from it. *)

\* With the masking of Spinlock::lock, in every state of the CPU.
THEOREM CpuInvariant == Masks /\ FSpec => []CpuInv
<1>1. Masks /\ FInit => CpuInv
  BY InitLocksInv, InitConsoleInv, InitFramesInv DEF FInit, CInit, CpuInv
<1>2. Masks /\ CpuInv /\ [FNext]_fvars => CpuInv'
  BY FramesStepsConsole, NextConsoleInv, NextFramesInv DEF CpuInv
<1>3. Masks => []Masks
  OBVIOUS
<1> QED BY <1>1, <1>2, <1>3, PTL DEF FSpec

\* Nested guards, traps and the shell's own cli and sti put the interrupt flag
\* back: outside every lock a task runs with the flag its context calls for.
THEOREM FlagRestoredHolds == Masks /\ FSpec => []FlagRestored
<1>1. CpuInv => FlagRestored
  BY DEF CpuInv, ConsoleInv, Contexts, Open, Inside, FlagRestored
<1> QED BY <1>1, CpuInvariant, PTL

\* The ring has one consumer at a time though HEAD is loaded and stored without
\* a lock, so every byte it accepted is handed out once and in order.
THEOREM TakenOnceHolds == Masks /\ FSpec => []TakenOnce
<1>1. CpuInv => TakenOnce
  BY DEF CpuInv, ConsoleInv, Dequeuing, RingOK, Waiting, TakenOnce
<1> QED BY <1>1, CpuInvariant, PTL

\* Neither `sti; hlt` nor `daifclr` before `wfe` lets the shell sleep on a byte
\* that is in the ring.
THEOREM NoLostWakeupHolds == Masks /\ FSpec => []NoLostWakeup
<1>1. CpuInv => NoLostWakeup
  BY DEF CpuInv, ConsoleInv, Wakeup, NoLostWakeup
<1> QED BY <1>1, CpuInvariant, PTL

\* Whichever entry suspends a task and whichever resumes it, it goes on with
\* its own registers; no trap writes its frame over another task's.
THEOREM RegistersRestoredHolds == Masks /\ FSpec => []RegistersRestored
<1>1. CpuInv => RegistersRestored
  <2> SUFFICES ASSUME CpuInv, NEW r \in Reg, cpu[r] # cur, ~(r = "sp_el0" /\ IsThread(cur))
               PROVE  trapped[cur] /\ cpu[r] = Kernel /\ frame[kstack][r] = cur
    BY DEF RegistersRestored
  <2>1. cur \in Task /\ FramesInv /\ Contexts
    BY DEF CpuInv, LocksInv, TypeOK, ConsoleInv
  <2> QED BY <2>1 DEF FramesInv, Contexts
<1> QED BY <1>1, CpuInvariant, PTL

\* The locks stay exclusive with the console, the traps and the frames on the
\* same CPU, and nobody spins in vain.
THEOREM CpuLocks == Masks /\ FSpec => [](MutualExclusion /\ NoDeadSpin)
<1>1. CpuInv => MutualExclusion
  BY DEF CpuInv, LocksInv, WordSet, OneTask, MutualExclusion
<1>2. CpuInv => NoDeadSpin
  BY DEF CpuInv, LocksInv, TypeOK, Masked, Inside, Holds, NoDeadSpin
<1> QED BY <1>1, <1>2, CpuInvariant, PTL
================================================================================
