------------------------------- MODULE Kernel -------------------------------
(***************************************************************************)
(* The running kernel on its one core: kernel_main(), the timer interrupt  *)
(* from the exception vector to eret (arch/aarch64/exception.S, do_irq(),  *)
(* timer_handler(), check_resched()) and the context switch (switch.S),    *)
(* over the task table of module Scheduler.                                *)
(*                                                                         *)
(* What races is the CPU and the timer.  While PSTATE.I is set nothing     *)
(* interrupts the code, so an interrupts-off stretch is a few steps; with  *)
(* it clear the interrupt may come between any two of the labels below.    *)
(***************************************************************************)
EXTENDS Scheduler, Sequences

CONSTANTS
  NTasks,               \* create_task() calls of kernel_main(), 3 in the source
  UnmaskAtBoot,         \* is the call enable_exception() of main.c:98 in effect?
                        \* FALSE as committed: the line is commented out
  MaxNest               \* bound: interrupt frames on one task's stack

ASSUME KernelAssumption ==
  /\ NTasks \in 1 .. NR_TASKS
  /\ UnmaskAtBoot \in BOOLEAN
  /\ MaxNest \in Nat \ {0}

VARIABLES
  boot,                 \* how many of its steps kernel_main() has taken
  masked,               \* PSTATE.I
  pc,                   \* for each task, where its code is or is suspended
  stack,                \* for each task, the frames kernel_entry pushed: saved ELR
  elr,                  \* ELR_EL1, one register for all tasks
  line,                 \* the timer asserts its interrupt line (INTID 30)
  active                \* INTID 30 is acknowledged and not yet ended

cpuVars == <<boot, masked, pc, stack, elr, line, active>>
vars == <<schedVars, cpuVars>>

(***************************************************************************)
(*  "fork"    created, at ret_from_fork, never switched to                 *)
(*  "task"    in the task's own code, on its own stack                     *)
(*  "entry"   at the vector, before kernel_entry has saved ELR             *)
(*  "do_irq"  in do_irq(), the interrupt acknowledged                      *)
(*  "eoi"     the handler has returned, before chip->irq_eoi()             *)
(*  "check"   at bl check_resched                                          *)
(*  "resume"  in schedule(), behind cpu_switch_to(), before it unmasks     *)
(*  "exit"    back from check_resched, before kernel_exit writes ELR       *)
(*  "eret"    kernel_exit has written ELR and has not executed eret        *)
(*  "wild"    eret took the CPU out of the program, not modelled further   *)
(***************************************************************************)
Labels == {"fork", "task", "entry", "do_irq", "eoi", "check",
           "resume", "exit", "eret", "wild"}

\* Where an interrupt can find the CPU.
Interruptible == {"task", "exit", "eret"}

\* An address in the code of a task, as ELR holds it.
Context == Slots \X Interruptible

TypeOK ==
  /\ SchedTypeOK
  /\ boot \in 0 .. NTasks + 2
  /\ masked \in BOOLEAN
  /\ pc \in [Slots -> Labels]
  /\ stack \in [Slots -> Seq(Context)]
  /\ elr \in Context
  /\ line \in BOOLEAN
  /\ active \in BOOLEAN

\* boot.S masks everything (daifset #0xF) before it enters kernel_main().
Init ==
  /\ SchedInit
  /\ boot = 0
  /\ masked = TRUE
  /\ pc = [t \in Slots |-> "fork"]
  /\ stack = [t \in Slots |-> <<>>]
  /\ elr = <<1, "task">>
  /\ line = FALSE
  /\ active = FALSE

\* The CPU is at this label of the running task.
At(label) == current # NULL /\ pc[current] = label

Goto(t, label) == pc' = [pc EXCEPT ![t] = label]

-----------------------------------------------------------------------------
(* kernel_main(), from task_init() on *)

\* create_task(NULL); current = task[0]: the boot thread becomes the first task.
BootIdle ==
  /\ boot = 0
  /\ CreateTask
  /\ current' = 1
  /\ Goto(1, "task")
  /\ boot' = 1
  /\ UNCHANGED <<masked, stack, elr, line, active>>

\* create_task(task_a_main); create_task(task_b_main): results ignored.
BootCreate ==
  /\ boot \in 1 .. NTasks - 1
  /\ \/ CreateTask /\ UNCHANGED current
     \/ CreateTaskFails
  /\ boot' = boot + 1
  /\ UNCHANGED <<masked, pc, stack, elr, line, active>>

\* arm_timer_init(): handler registered, INTID 30 unmasked, timer counting.
BootTimer ==
  /\ boot = NTasks
  /\ boot' = boot + 1
  /\ UNCHANGED <<schedVars, masked, pc, stack, elr, line, active>>

TimerOn == boot > NTasks

\* main.c:98, a comment as committed: a step of the code only with UnmaskAtBoot.  Then
\* kernel_main() goes on unmasked, to its wfi loop; otherwise it gets there masked.
BootUnmask ==
  /\ UnmaskAtBoot
  /\ boot = NTasks + 1
  /\ boot' = boot + 1
  /\ masked' = FALSE
  /\ UNCHANGED <<schedVars, pc, stack, elr, line, active>>

-----------------------------------------------------------------------------
(* The timer and the interrupt's way in *)

\* CNTP_TVAL reaches zero.  The line stays asserted until TVAL is rewritten.
TimerExpires ==
  /\ TimerOn
  /\ ~ line
  /\ line' = TRUE
  /\ UNCHANGED <<schedVars, boot, masked, pc, stack, elr, active>>

(***************************************************************************)
(* The CPU takes the interrupt: hardware writes ELR and SPSR and masks.    *)
(* SPSR needs no variable: an interrupt is taken with I clear only, so     *)
(* every saved SPSR has I clear.  The GIC signals no interrupt while one   *)
(* of the same priority is active.                                         *)
(***************************************************************************)
TakeInterrupt ==
  /\ line /\ ~ active /\ ~ masked
  /\ current # NULL /\ ~ At("wild")
  /\ Len(stack[current]) < MaxNest
  /\ elr' = <<current, pc[current]>>
  /\ masked' = TRUE
  /\ Goto(current, "entry")
  /\ UNCHANGED <<schedVars, boot, stack, line, active>>

\* kernel_entry pushes the frame; reading ICC_IAR1 acknowledges INTID 30.
KernelEntry ==
  /\ At("entry")
  /\ stack' = [stack EXCEPT ![current] = Append(@, elr)]
  /\ active' = TRUE
  /\ Goto(current, "do_irq")
  /\ UNCHANGED <<schedVars, boot, masked, elr, line>>

\* do_irq() calls timer_handler(): rearm the timer, then scheduler_tick().
TimerHandler ==
  /\ At("do_irq")
  /\ line' = FALSE
  /\ SchedulerTick
  /\ Goto(current, "eoi")
  /\ UNCHANGED <<boot, masked, stack, elr, active>>

EndOfInterrupt_Missing ==
  /\ At("eoi")
  /\ Goto(current, "check")
  /\ UNCHANGED <<schedVars, boot, masked, stack, elr, line, active>>

EndOfInterrupt_Unmasks ==
  /\ At("eoi")
  /\ active' = FALSE
  /\ masked' = FALSE
  /\ Goto(current, "check")
  /\ UNCHANGED <<schedVars, boot, stack, elr, line>>

\* do_irq() ends with chip->irq_eoi().
EndOfInterrupt ==
  /\ At("eoi")
  /\ active' = FALSE
  /\ Goto(current, "check")
  /\ UNCHANGED <<schedVars, boot, masked, stack, elr, line>>

-----------------------------------------------------------------------------
(* check_resched(), the context switch and the way out *)

\* Nothing to do, or preemption disabled: straight to kernel_exit, masked.
CheckReturns ==
  /\ At("check")
  /\ CheckReschedReturns
  /\ Goto(current, "exit")
  /\ UNCHANGED <<boot, masked, stack, elr, line, active>>

SwitchTask_PrevIsNext ==
  /\ At("check")
  /\ CheckReschedSchedules
  /\ masked' = TRUE
  /\ pc' = [pc EXCEPT ![current'] = "resume"]
  /\ UNCHANGED <<boot, stack, elr, line, active>>

(***************************************************************************)
(* schedule() masks, picks the next task and, when it is another one, has  *)
(* cpu_switch_to() save this task's registers and load the other's, which  *)
(* continues where it was suspended: behind its own cpu_switch_to() or at  *)
(* ret_from_fork.                                                          *)
(***************************************************************************)
SwitchTask ==
  /\ At("check")
  /\ CheckReschedSchedules
  /\ masked' = TRUE
  /\ Goto(current, "resume")
  /\ UNCHANGED <<boot, stack, elr, line, active>>

\* The last statement of schedule() unmasks, inside the interrupt path.
ScheduleReturns ==
  /\ At("resume")
  /\ masked' = FALSE
  /\ Goto(current, "exit")
  /\ UNCHANGED <<schedVars, boot, stack, elr, line, active>>

\* ret_from_fork unmasks and calls the task's entry function.
RetFromFork ==
  /\ At("fork")
  /\ masked' = FALSE
  /\ Goto(current, "task")
  /\ UNCHANGED <<schedVars, boot, stack, elr, line, active>>

KernelExit_ElrNotRestored ==
  /\ At("exit")
  /\ Goto(current, "eret")
  /\ UNCHANGED <<schedVars, boot, masked, stack, elr, line, active>>

\* kernel_exit, up to and with msr elr_el1.
KernelExit ==
  /\ At("exit")
  /\ elr' = stack[current][Len(stack[current])]
  /\ Goto(current, "eret")
  /\ UNCHANGED <<schedVars, boot, masked, stack, line, active>>

Eret_FrameKept ==
  /\ At("eret")
  /\ Goto(current, IF elr[1] # current THEN "wild" ELSE elr[2])
  /\ masked' = FALSE
  /\ UNCHANGED <<schedVars, boot, stack, elr, line, active>>

(***************************************************************************)
(* The rest of kernel_exit: pop the frame and continue at ELR, unmasked.   *)
(* With no frame left on the stack, or another task's address in ELR, the  *)
(* CPU is lost.                                                            *)
(***************************************************************************)
Eret ==
  /\ At("eret")
  /\ LET frames == stack[current]
         lost == frames = <<>> \/ elr[1] # current
     IN /\ Goto(current, IF lost THEN "wild" ELSE elr[2])
        /\ stack' = [stack EXCEPT
             ![current] = IF lost THEN @ ELSE SubSeq(@, 1, Len(@) - 1)]
  /\ masked' = FALSE
  /\ UNCHANGED <<schedVars, boot, elr, line, active>>

-----------------------------------------------------------------------------
Boot == BootIdle \/ BootCreate \/ BootTimer \/ BootUnmask

\* What the CPU executes once it is in the interrupt path.
InterruptPath ==
  \/ KernelEntry \/ TimerHandler \/ EndOfInterrupt
  \/ CheckReturns \/ SwitchTask \/ ScheduleReturns \/ RetFromFork
  \/ KernelExit \/ Eret

Next == Boot \/ TimerExpires \/ TakeInterrupt \/ InterruptPath

Spec == Init /\ [][Next]_vars

(***************************************************************************)
(* The CPU keeps executing, the timer keeps counting, and the CPU takes an *)
(* interrupt that stays pending and unmasked.                              *)
(***************************************************************************)
Fairness ==
  /\ WF_vars(Boot)
  /\ WF_vars(InterruptPath)
  /\ WF_vars(TimerExpires)
  /\ WF_vars(TakeInterrupt)

FairSpec == Spec /\ Fairness

-----------------------------------------------------------------------------
(* Properties *)

\* A tick always finds some of the running task's slice left, so counter--
\* (schedule.c:107) never wraps to 2^64 - 1 ticks.
TickFindsSlice ==
  (At("entry") \/ At("do_irq")) => counter[current] > 0

\* Every task but the running one is suspended where a switch can resume it:
\* not yet started and with an empty stack, or in schedule() above a frame.
OthersSuspended ==
  \A t \in Live \ {current} :
    \/ pc[t] = "fork" /\ stack[t] = <<>>
    \/ pc[t] = "resume" /\ stack[t] # <<>>

\* do_irq() ends the interrupt before check_resched() can switch tasks
\* (exception.S:118-119): were it active across a switch, no tick would come.
EndedBeforeSwitch == active => At("do_irq") \/ At("eoi")

\* exception.S:48 calls kernel_exit the "exit point from kernel": its eret goes
\* to the address that kernel_entry saved in the frame it pops.
ReturnsToInterrupted ==
  At("eret") => /\ stack[current] # <<>>
                /\ elr = stack[current][Len(stack[current])]

\* A stack shares a page with the task_struct (task.c:50) and nothing checks it:
\* kernel_entry (exception.S:24) never puts a frame on top of another.
OneFrame == \A t \in Slots : Len(stack[t]) <= 1

\* A tick that waits came while task code ran, not within the interrupt path.  (Nor is
\* it held against the path that ticks come when the CPU is lost.)
PromptTick == line => \E label \in {"task", "entry", "do_irq", "wild"} : At(label)

\* schedule.c:89 unmasks within the interrupt path.  As long as no tick comes within it,
\* so that it takes less than a timer period, every eret goes where it should.
ReturnsWhenPrompt == []PromptTick => []ReturnsToInterrupted

\* As long as no tick comes within the interrupt path, frames do not add up
\* (exception.S:24, task.c:50), over any number of interrupts and switches.
OneFrameWhenPrompt == []PromptTick => []OneFrame

\* The scheduler implements RoundRobin: a turn of Priority ticks each, in the
\* order of creation.
Abstract ==
  INSTANCE RoundRobin WITH
    Slice <- Priority,
    n <- task_count,
    turn <- IF current = NULL THEN 1 ELSE current,
    left <- IF current = NULL THEN Priority ELSE counter[current]

ImplementsRoundRobin == Abstract!Spec

\* Every created task runs its own code again and again, as the test tasks of
\* main.c:27-46 are there to show.
EveryTaskRuns ==
  \A t \in 1 .. NTasks :
    t <= task_count ~> (current = t /\ pc[t] = "task")

\* Once interrupts are unmasked (main.c:98), and as long as no tick comes within the
\* interrupt path, none of the created tasks starves: schedule() gets to each.
NoStarvation == []PromptTick /\ <>(~ masked) => EveryTaskRuns

-----------------------------------------------------------------------------
(* The inductive invariant behind the safety properties *)

\* kernel_main() runs alone, masked, as the first task, until it has unmasked.
BootInv ==
  /\ task_count <= NTasks
  /\ boot = 0 => current = NULL /\ task_count = 0
  /\ boot > 0 => current \in Live
  /\ boot \in 1 .. NTasks => task_count <= boot
  /\ boot \in 1 .. NTasks + 1 => masked /\ current = 1 /\ pc[1] = "task"

(***************************************************************************)
(* Where the round is: the tasks before the running one have used up their *)
(* slices, those behind it have theirs untouched, and the running one is   *)
(* flagged from the tick that uses up its slice to the call of schedule(). *)
(***************************************************************************)
SliceInv ==
  /\ \A t \in Live : /\ t < current => counter[t] = 0
                     /\ t > current => counter[t] = Priority
  /\ \A t \in Slots : flags[t] <=> (t = current /\ counter[t] = 0)
  /\ current # NULL => /\ counter[current] <= Priority
                       /\ counter[current] = 0 => At("eoi") \/ At("check")

\* Interrupts find the CPU only where an eret can bring it back to.
MaskInv ==
  /\ ~ masked => \E label \in Interruptible \cup {"wild"} : At(label)
  /\ active => At("do_irq") \/ At("eoi")

(***************************************************************************)
(* The code between kernel_entry and kernel_exit has a frame to pop, and a *)
(* frame or an ELR that leads back into it has another one below.          *)
(***************************************************************************)
FrameInv ==
  /\ \A t \in Slots : \A i \in 1 .. Len(stack[t]) : stack[t][i][2] = "exit" => i >= 2
  /\ \A t \in Slots \ {current} :
       \/ pc[t] = "fork" /\ stack[t] = <<>>
       \/ t \in Live /\ pc[t] = "resume" /\ stack[t] # <<>>
  /\ At("do_irq") \/ At("eoi") \/ At("check") \/ At("resume") \/ At("exit")
       => stack[current] # <<>>
  /\ At("entry") /\ elr[2] = "exit" => Len(stack[current]) >= 1
  /\ At("eret") /\ elr[2] = "exit" => Len(stack[current]) >= 2

\* All that the steps of the kernel preserve together: types, the boot order, the
\* position in the round, masking and the frames on the stacks.
IndInv == TypeOK /\ BootInv /\ SliceInv /\ MaskInv /\ FrameInv

\* As long as PromptTick holds the one frame of a task in the interrupt path leads back
\* to the task's own code, and the CPU does not get lost.
PromptInv ==
  /\ \A t \in Slots : stack[t] = IF pc[t] \in {"fork", "task", "entry"}
                                THEN <<>> ELSE << <<t, "task">> >>
  /\ line => At("task") \/ At("entry") \/ At("do_irq")
  /\ ~ At("wild")
  /\ At("entry") \/ At("eret") => elr = <<current, "task">>
=============================================================================
