----------------------------- MODULE Registers -----------------------------
(***************************************************************************)
(* What an interrupt does to the registers of the task it comes upon:      *)
(* kernel_entry and kernel_exit (exception.S), cpu_switch_to and           *)
(* ret_from_fork (switch.S), and the context that create_task() lays out   *)
(* for them (task.c, kernel.h), store by store on the tasks' pages.        *)
(*                                                                         *)
(* The path is not interrupted itself: OneFrameWhenPrompt of module Kernel *)
(* says when that is so.  Which task is next is Scheduler's matter: here   *)
(* it is any.  The compiled C code between the assembler keeps to the      *)
(* procedure call standard: it preserves x19 to x29 and SP, may leave      *)
(* anything in the other registers, and uses CFrame bytes below SP.        *)
(***************************************************************************)
EXTENDS Integers

CONSTANTS
  NTasks,               \* tasks that kernel_main() creates, itself included
  CFrame,               \* bytes of stack that the C code takes
  PAGE_SIZE             \* 4096 in the source

\* Context, C code, frame and the words of the task's own fit in a page.
ASSUME RegistersAssumption ==
  /\ NTasks \in Nat \ {0}
  /\ CFrame \in Nat /\ CFrame >= 96 /\ CFrame % 16 = 0
  /\ PAGE_SIZE \in Nat /\ PAGE_SIZE >= CFrame + 512

VARIABLES
  x,                    \* x0 to x30
  sp,                   \* SP
  ip, psr,              \* address and condition flags of the running code
  elr, spsr,            \* ELR_EL1, SPSR_EL1
  mem,                  \* the words stored, by address
  running,              \* `current`, the slot of the running task
  pc,                   \* for each task, where its code is or is suspended
  own                   \* for each task, which values its code has in its registers

vars == <<x, sp, ip, psr, elr, spsr, mem, running, pc, own>>

Tasks == 1 .. NTasks
X == 0 .. 30
CalleeSaved == 19 .. 29

\* A word is what put it there: a kind and two numbers.
Junk == <<"junk", 0, 0>>
Zero == <<"zero", 0, 0>>
InSchedule == <<"schedule", 0, 0>>
RET_FROM_FORK == <<"ret_from_fork", 0, 0>>
Entry(t) == <<"entry", t, 0>>
Address(a) == <<"address", a, 0>>

\* Task t has the page that begins here; the boot stack lies below all of them.
Page(t) == t * PAGE_SIZE
StackTop(t) == IF t = 1 THEN Page(1) ELSE Page(t) + PAGE_SIZE

\* What the code of t has in register i, in its flags, and is at, in its state v.
Value(t, i, v) == <<"x", t, 2 * i + v>>
Flags(t, v) == <<"flags", t, v>>
Code(t, v) == <<"code", t, v>>

\* Two words on its stack belong to the code of t.
TaskSp(t) == StackTop(t) - 16
Locals(t, v) ==
  [a \in {TaskSp(t), TaskSp(t) + 8} |-> <<"local", t, 2 * (a - TaskSp(t)) + v>>]

-----------------------------------------------------------------------------
(* Memory *)

\* m behind stores of 8 bytes: each destroys the words that it overlaps.
Stored(m, words) ==
  LET hit == UNION {a - 7 .. a + 7 : a \in DOMAIN words}
  IN [a \in (DOMAIN m \ hit) \cup DOMAIN words |->
        IF a \in DOMAIN words THEN words[a] ELSE m[a]]

Load(m, a) == IF a \in DOMAIN m THEN m[a] ELSE Junk

\* C code has used the stack below SP.
UsedBelow(m, s) == [a \in DOMAIN m \ (s - CFrame .. s - 1) |-> m[a]]

\* C code has used the registers that it need not preserve.
Clobbered(r) == [i \in X |-> IF i \in CalleeSaved THEN r[i] ELSE Junk]

-----------------------------------------------------------------------------
(* create_task() *)

\* struct cpu_context, the first member of struct task_struct
cpu_context == <<"x19", "x20", "x21", "x22", "x23", "x24", "x25", "x26", "x27",
                 "x28", "fp", "sp", "pc">>

FieldAt(t, f) == Page(t) + 8 * (f - 1)

NewContext(t) ==
  [a \in {FieldAt(t, f) : f \in 1 .. 13} |->
     LET field == cpu_context[(a - Page(t)) \div 8 + 1]
     IN CASE field = "sp"  -> Address(Page(t) + PAGE_SIZE)
          [] field = "pc"  -> RET_FROM_FORK
          [] field = "x19" -> IF t = 1 THEN Zero ELSE Entry(t)
          [] OTHER -> Zero]

\* kernel_main() as the first task, unmasked, behind all its create_task() calls.
Init ==
  /\ running = 1
  /\ pc = [t \in Tasks |-> IF t = 1 THEN "task" ELSE "fork"]
  /\ own = [t \in Tasks |-> 0]
  /\ x = [i \in X |-> Value(1, i, 0)]
  /\ sp = TaskSp(1) /\ ip = Code(1, 0) /\ psr = Flags(1, 0)
  /\ elr = Zero /\ spsr = Zero
  /\ mem = [a \in DOMAIN Locals(1, 0)
                  \cup UNION {DOMAIN NewContext(t) : t \in Tasks} |->
              IF a \in DOMAIN Locals(1, 0) THEN Locals(1, 0)[a]
              ELSE NewContext(CHOOSE t \in Tasks : a \in DOMAIN NewContext(t))[a]]

At(label) == pc[running] = label

Goto(label) == pc' = [pc EXCEPT ![running] = label]

-----------------------------------------------------------------------------
(* The task's code and the interrupt *)

\* The running task goes on: other values in its registers, flags and stack.
TaskRuns ==
  /\ At("task")
  /\ own' = [own EXCEPT ![running] = 1 - @]
  /\ x' = [i \in X |-> Value(running, i, own'[running])]
  /\ ip' = Code(running, own'[running])
  /\ psr' = Flags(running, own'[running])
  /\ mem' = Stored(mem, Locals(running, own'[running]))
  /\ UNCHANGED <<sp, elr, spsr, running, pc>>

TakeInterrupt ==
  /\ At("task")
  /\ elr' = ip /\ spsr' = psr
  /\ Goto("entry")
  /\ UNCHANGED <<x, sp, ip, psr, mem, running, own>>

FrameSize_16Slots == 16 * 16

FrameSize == 277

\* Where the frame holds x0 to x30 and, at 31 and 32, SPSR and ELR: of every stp the
\* pair lies at 16 times its slot.
InFrame(i) == IF i = 31 THEN 16 * 16 ELSE IF i = 32 THEN 16 * 16 + 8 ELSE 8 * i

Saved_Swapped(i) == IF i = 31 THEN elr ELSE IF i = 32 THEN spsr ELSE x[i]

Saved(i) == IF i = 31 THEN spsr ELSE IF i = 32 THEN elr ELSE x[i]

KernelEntry ==
  /\ At("entry")
  /\ sp' = sp - FrameSize
  /\ mem' = Stored(mem,
       [a \in {sp' + InFrame(i) : i \in 0 .. 32} |->
          Saved(CHOOSE i \in 0 .. 32 : a = sp' + InFrame(i))])
  /\ x' = [x EXCEPT ![21] = spsr, ![22] = elr]
  /\ Goto("do_irq")
  /\ UNCHANGED <<ip, psr, elr, spsr, running, own>>

\* mrs x0, the call of do_irq(), and as much of check_resched() as always runs.
DoIrq ==
  /\ At("do_irq")
  /\ x' = Clobbered(x)
  /\ psr' = Junk
  /\ mem' = UsedBelow(mem, sp)
  /\ \/ Goto("exit")
     \/ Goto("check")
  /\ UNCHANGED <<sp, ip, elr, spsr, running, own>>

\* SPSR and ELR by way of x21 and x22, then the registers, SP and eret.
KernelExit ==
  /\ At("exit")
  /\ LET frame(i) == Load(mem, sp + InFrame(i))
     IN /\ spsr' = frame(31) /\ elr' = frame(32)
        /\ x' = [i \in X |-> frame(i)]
  /\ sp' = sp + FrameSize
  /\ psr' = spsr' /\ ip' = elr'
  /\ Goto("task")
  /\ UNCHANGED <<mem, running, own>>

-----------------------------------------------------------------------------
(* The context switch *)

\* check_resched() and schedule() have saved what they use, down to the call.
CallSwitch ==
  /\ At("check")
  /\ sp' = sp - CFrame
  /\ mem' = Stored(mem, [a \in {sp' + 8 * (i - 19) : i \in 19 .. 30} |->
                           x[(a - sp') \div 8 + 19]])
  /\ x' = [i \in X |-> IF i = 30 THEN InSchedule ELSE Junk]
  /\ Goto("switch")
  /\ UNCHANGED <<ip, psr, elr, spsr, running, own>>

\* Where cpu_switch_to has x19 to x30 and, at 31, SP.
InContext(i) ==
  IF i = 30 THEN 16 * 6 ELSE IF i = 31 THEN 16 * 5 + 8 ELSE 8 * (i - 19)

CpuSwitchTo ==
  /\ At("switch")
  /\ \E next \in Tasks \ {running} :
       LET saved == Stored(mem,
             [a \in {Page(running) + InContext(i) : i \in 19 .. 31} |->
                LET i == CHOOSE i \in 19 .. 31 : a = Page(running) + InContext(i)
                IN IF i = 31 THEN Address(sp) ELSE x[i]])
           context(i) == Load(saved, Page(next) + InContext(i))
       IN /\ mem' = saved
          /\ x' = [i \in X |-> IF i \in 19 .. 30 THEN context(i) ELSE
                               IF i = 9 THEN context(31) ELSE x[i]]
          /\ sp' = context(31)[2]
          /\ running' = next
          /\ pc' = [pc EXCEPT ![running] = "resume",
                              ![next] = IF x'[30] = RET_FROM_FORK THEN "fork" ELSE
                                        IF x'[30] = InSchedule THEN "back" ELSE "wild"]
  /\ UNCHANGED <<ip, psr, elr, spsr, own>>

\* schedule() and check_resched() restore what they saved and return.
ScheduleReturns ==
  /\ At("back")
  /\ x' = [i \in X |-> IF i \in 19 .. 30 THEN Load(mem, sp + 8 * (i - 19)) ELSE Junk]
  /\ mem' = UsedBelow(mem, sp + CFrame)
  /\ sp' = sp + CFrame
  /\ Goto("exit")
  /\ UNCHANGED <<ip, psr, elr, spsr, running, own>>

\* blr x19; the task's code begins on the stack it finds.
RetFromFork ==
  /\ At("fork")
  /\ LET begins == x[19] = Entry(running) IN Goto(IF begins THEN "task" ELSE "wild")
  /\ x' = [i \in X |-> Value(running, i, own[running])]
  /\ sp' = sp - 16
  /\ ip' = Code(running, own[running]) /\ psr' = Flags(running, own[running])
  /\ mem' = Stored(mem, [a \in {sp', sp' + 8} |->
                           <<"local", running, 2 * (a - sp') + own[running]>>])
  /\ UNCHANGED <<elr, spsr, running, own>>

-----------------------------------------------------------------------------
Next ==
  \/ TaskRuns \/ TakeInterrupt
  \/ KernelEntry \/ DoIrq \/ KernelExit
  \/ CallSwitch \/ CpuSwitchTo \/ ScheduleReturns \/ RetFromFork

Spec == Init /\ [][Next]_vars

-----------------------------------------------------------------------------
(* Properties *)

\* No switch or first start leaves the program ("wild"), and SP is an address.
TypeOK ==
  /\ DOMAIN x = X
  /\ sp \in Nat
  /\ running \in Tasks
  /\ pc \in [Tasks -> {"fork", "task", "entry", "do_irq", "exit", "check",
                        "switch", "resume", "back"}]
  /\ own \in [Tasks -> 0 .. 1]

\* Task code that goes on behind interrupts and switches finds every register, its
\* flags, SP and its stack as it left them, and itself where it was.
FindsItsState ==
  At("task") =>
    /\ \A i \in X : x[i] = Value(running, i, own[running])
    /\ ip = Code(running, own[running])
    /\ psr = Flags(running, own[running])
    /\ sp = TaskSp(running)
    /\ \A a \in DOMAIN Locals(running, 0) :
         Load(mem, a) = Locals(running, own[running])[a]

\* What a suspended task needs is in place while others run: the context of a task
\* that has not begun as create_task() wrote it, and of any other the address of its
\* frame, whose ELR leads to its code.
SuspendedIsKept ==
  \A t \in Tasks \ {running} :
    IF pc[t] = "fork" THEN \A a \in DOMAIN NewContext(t) : Load(mem, a) = NewContext(t)[a]
    ELSE /\ Load(mem, FieldAt(t, 13)) = InSchedule
         /\ LET frame == Load(mem, FieldAt(t, 12))[2] + CFrame
            IN /\ frame = TaskSp(t) - FrameSize
               /\ Load(mem, frame + InFrame(32)) = Code(t, own[t])
=============================================================================
