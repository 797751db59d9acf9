--------------------------------- MODULE Frames --------------------------------
(***************************************************************************)
(* Register frames.  Every entry into the kernel of src/src/interrupts.rs  *)
(* saves the interrupted registers on a stack, and a switch leaves by the  *)
(* code of the entry it came in through but restores a frame that another  *)
(* entry, or Task::init, has written.  This module adds the registers, the *)
(* frames and the choice of stack to Console's CPU.                        *)
(*                                                                         *)
(* A register's value is abstracted to whose it is and whether it is still *)
(* the one its owner was suspended with.                                   *)
(***************************************************************************)
EXTENDS Console

VARIABLES
  cpu,      \* the CPU's registers
  frame,    \* per task: the frame at the top of its kernel stack
  sp,       \* per task: Task.sp, as the task on whose stack the frame is
  kstack    \* whose stack a trap from user mode lands on: TSS.RSP0, or SP_EL1

fvars == <<cvars, cpu, frame, sp, kstack>>

\* x0 or rax; the other general registers; the return state (elr and spsr, or
\* rip to ss); and aarch64's SP_EL0, which only user mode uses.
Reg == {"result", "general", "return", "sp_el0"}

Stale == -1     \* a value its owner has since replaced
Kernel == -2    \* a value of the handler that is running
Zero == -3      \* SP_EL0 of a task that has no user stack

\* Task::init's frame; the shell is running and has none.
FInit ==
  /\ CInit
  /\ frame = [t \in Task |->
       [r \in Reg |-> IF t = Shell THEN Stale
                      ELSE IF r = "sp_el0" /\ IsThread(t) THEN Zero ELSE t]]
  /\ cpu = [r \in Reg |-> IF r = "sp_el0" THEN Zero ELSE Shell]
  /\ sp = [t \in Task |-> t]
  /\ kstack = Shell

--------------------------------------------------------------------------------
\* The stack an entry pushes on: a thread's own, or the one set for user mode.
EntryStack == IF IsThread(cur) THEN cur ELSE kstack

\* The registers an entry saves, and restores on its way out.  el1 and el0 tell
\* where the CPU was: aarch64 has a body for each, x86_64 one timer stub.
el1_irq_body == Reg
el0_irq_body == Reg
el1_sync_body == Reg
timer_handler_stub == Reg

\* Mutant of EntryRegs: the bodies for interrupts taken in the kernel leave
\* SP_EL0 alone, since kernel code does not use it.
EntryRegsNoSpEl0(yields) ==
  IF arch = "x86_64" THEN timer_handler_stub
  ELSE IF yields THEN el1_sync_body
  ELSE IF IsThread(cur) THEN el1_irq_body \ {"sp_el0"} ELSE el0_irq_body

EntryRegs(yields) ==
  IF arch = "x86_64" THEN timer_handler_stub
  ELSE IF yields THEN el1_sync_body
  ELSE IF IsThread(cur) THEN el1_irq_body ELSE el0_irq_body

\* What is left of the old copies of task t's registers once it runs again.
Aged(f, t) == [u \in Task |-> [r \in Reg |-> IF f[u][r] = t THEN Stale ELSE f[u][r]]]

\* run_schedule sets RSP0 to the next task's; SP_EL1 stays on the stack the
\* restored frame was popped from.
NextStack(stack) == IF arch = "x86_64" THEN cur' ELSE stack

\* Save the registers on the stack, call schedule, take its answer for the
\* stack pointer, restore the registers.
SaveAndSwitch(regs) ==
  LET saved == [frame EXCEPT ![EntryStack] =
                  [r \in Reg |-> IF r \in regs THEN cpu[r] ELSE @[r]]]
      next == sp'[cur']
  IN  /\ sp' = [sp EXCEPT ![cur] = EntryStack]
      /\ cpu' = [r \in Reg |-> IF r \in regs THEN saved[next][r] ELSE cpu[r]]
      /\ frame' = Aged(saved, cur')
      /\ kstack' = NextStack(next)

\* The timer's interrupt, and a yield.
Timer == TimerIrq /\ SaveAndSwitch(EntryRegs(FALSE))
Yield(t) == yield_now(t) /\ SaveAndSwitch(EntryRegs(TRUE))

\* A trap from user mode saves everything (what x86_64's stubs do not push, the
\* handler's calling convention preserves) and runs the handler; on the way out
\* a system call's result replaces the saved result register.
EnterTrap(t) ==
  /\ TrapEntry(t)
  /\ frame' = [frame EXCEPT ![EntryStack] = cpu]
  /\ cpu' = [r \in Reg |-> IF r = "sp_el0" THEN cpu[r] ELSE Kernel]
  /\ UNCHANGED <<sp, kstack>>

LeaveTrap(t) ==
  /\ TrapReturn(t)
  /\ \E result \in {frame[EntryStack]["result"], t} :
       cpu' = [frame[EntryStack] EXCEPT !["result"] = result]
  /\ frame' = Aged(frame, t)
  /\ UNCHANGED <<sp, kstack>>

--------------------------------------------------------------------------------
FNext ==
  \/ Timer
  \/ \E t \in Task : Yield(t) \/ EnterTrap(t) \/ LeaveTrap(t)
  \/ /\ \/ Arrive \/ raw_uart_interrupt_handler \/ ShellStep \/ Parked
        \/ \E t \in Task : sys_read(t) \/ LockStep(t) \/ PmmSpins(t)
     /\ UNCHANGED <<cpu, frame, sp, kstack>>

FSpec == FInit /\ [][FNext]_fvars /\ CFairness

--------------------------------------------------------------------------------
(* Properties *)

\* Whichever entry suspended a task and whichever resumes it, it goes on with
\* the registers it was suspended with: the frames of the four bodies, of
\* the timer stub and of Task::init fit each other, and no trap writes its
\* frame over another task's.
RegistersRestored ==
  \A r \in Reg :
    \/ cpu[r] = cur
    \/ trapped[cur] /\ cpu[r] = Kernel /\ frame[kstack][r] = cur
    \/ r = "sp_el0" /\ IsThread(cur)
================================================================================
