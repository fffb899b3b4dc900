---------------------------- MODULE KernelProofs ----------------------------
(***************************************************************************)
(* Proofs about module Kernel: its inductive invariant, the safety         *)
(* invariants it implies, and that the scheduler implements RoundRobin.    *)
(***************************************************************************)
EXTENDS Kernel, TLAPS

USE SchedulerAssumption, KernelAssumption

-----------------------------------------------------------------------------
(* The search of schedule() *)

\* The search of schedule() finds the task with the most left, the first of them.
LEMMA LongestIs ==
  ASSUME NEW c, NEW t \in Live, task_count \in Nat,
         \A u \in Live : c[u] \in Nat,
         \A u \in Live : c[u] <= c[t] /\ (u < t => c[u] < c[t])
  PROVE  Longest(c) = t
<1> DEFINE First(s) == \A u \in Live : /\ c[u] <= c[s]
                                       /\ u < s => c[u] < c[s]
<1>1. ASSUME NEW s \in Live, First(s)
      PROVE  s = t
  BY <1>1 DEF Live
<1>2. First(t)
  OBVIOUS
<1> QED
  BY <1>1, <1>2 DEF Longest

\* The tasks that create_task() has made are in the first slots of task[].
LEMMA LiveAreSlots == TypeOK => task_count \in Nat /\ Live \subseteq Slots
  BY DEF TypeOK, SchedTypeOK, Live, Slots

\* The task that gets the turn after the running one.
Successor == IF current = task_count THEN 1 ELSE current + 1

\* In a state of the round in which the running task has used up its slice,
\* schedule() picks its successor and recharges the slices at the end of a round.
LEMMA NextInRound ==
  ASSUME TypeOK, BootInv, SliceInv, current # NULL, counter[current] = 0
  PROVE  /\ Successor \in Live
         /\ Longest(Charged(counter)) = Successor
         /\ Charged(counter) = IF current = task_count
                               THEN [t \in Slots |-> IF t \in Live THEN Priority
                                                     ELSE counter[t]]
                               ELSE counter
<1> DEFINE c == Charged(counter)
<1>1. /\ current \in Live
      /\ task_count \in Nat /\ task_count <= NR_TASKS
      /\ \A t \in Live : /\ t \in Slots
                         /\ counter[t] \in Nat
                         /\ t < current => counter[t] = 0
                         /\ t > current => counter[t] = Priority
  BY DEF TypeOK, SchedTypeOK, BootInv, SliceInv, Live, Slots, NULL
<1>2. CASE current = task_count
  <2>1. \A t \in Live : counter[t] = 0
    BY <1>1, <1>2 DEF Live
  <2>2. c = [t \in Slots |-> IF t \in Live THEN Priority ELSE counter[t]]
    <3>1. c = Recharged(counter)
      BY <2>1 DEF Charged, Exhausted
    <3>2. \A t \in Live : (counter[t] \div 2) + Priority = Priority
      BY <2>1
    <3> QED
      BY <3>1, <3>2 DEF Recharged
  <2>3. Successor = 1 /\ 1 \in Live
    BY <1>1, <1>2 DEF Successor, Live
  <2>4. \A u \in Live : c[u] = Priority
    BY <1>1, <2>2
  <2>5. Longest(c) = 1
    <3>1. \A u \in Live : c[u] \in Nat
      BY <2>4
    <3>2. \A u \in Live : c[u] <= c[1] /\ (u < 1 => c[u] < c[1])
      BY <2>3, <2>4 DEF Live
    <3> QED
      BY <1>1, <2>3, <3>1, <3>2, LongestIs
  <2> QED
    BY <1>2, <2>2, <2>3, <2>5
<1>3. CASE current # task_count
  <2>1. Successor = current + 1 /\ Successor \in Live
    BY <1>1, <1>3 DEF Successor, Live
  <2>2. counter[Successor] = Priority
    BY <1>1, <2>1 DEF Live
  <2>3. c = counter
    BY <2>1, <2>2 DEF Charged, Exhausted
  <2>4. \A u \in Live : /\ c[u] <= c[Successor]
                        /\ u < Successor => c[u] < c[Successor]
    <3> SUFFICES ASSUME NEW u \in Live
                 PROVE  /\ c[u] <= c[Successor]
                        /\ u < Successor => c[u] < c[Successor]
      OBVIOUS
    <3>1. u < current \/ u = current \/ u > current
      BY <1>1 DEF Live
    <3>2. CASE u > current
      BY <1>1, <2>1, <2>2, <2>3, <3>2 DEF Live
    <3>3. CASE u = current \/ u < current
      BY <1>1, <2>1, <2>2, <2>3, <3>3 DEF Live
    <3> QED
      BY <3>1, <3>2, <3>3
  <2>5. Longest(c) = Successor
    BY <1>1, <2>1, <2>3, <2>4, LongestIs
  <2> QED
    BY <1>3, <2>1, <2>3, <2>5
<1> QED
  BY <1>2, <1>3

-----------------------------------------------------------------------------
(* The inductive invariant *)

\* IndInv holds when boot.S enters kernel_main().
LEMMA IndInvInit == Init => IndInv
<1> SUFFICES ASSUME Init PROVE IndInv
  OBVIOUS
<1>1. TypeOK
  <2>1. SchedTypeOK
    BY DEF Init, SchedInit, SchedTypeOK
  <2>2. elr \in Context
    BY DEF Init, Slots, Context, Interruptible
  <2>3. pc \in [Slots -> Labels] /\ stack \in [Slots -> Seq(Context)]
    BY DEF Init, Labels
  <2>4. boot \in 0 .. NTasks + 2
    BY DEF Init
  <2>5. masked \in BOOLEAN /\ line \in BOOLEAN /\ active \in BOOLEAN
    BY DEF Init
  <2> QED
    BY <2>1, <2>2, <2>3, <2>4, <2>5 DEF TypeOK
<1>2. BootInv /\ SliceInv /\ MaskInv /\ FrameInv
  BY DEF Init, SchedInit, BootInv, SliceInv, MaskInv, FrameInv, Live, Slots, At,
     NULL
<1> QED
  BY <1>1, <1>2 DEF IndInv

\* The lowest n frames of a stack.
LEMMA Lowest ==
  ASSUME NEW S, NEW s \in Seq(S), NEW n \in Nat, n <= Len(s)
  PROVE  /\ SubSeq(s, 1, n) \in Seq(S) /\ Len(SubSeq(s, 1, n)) = n
         /\ \A i \in 1 .. n : SubSeq(s, 1, n)[i] = s[i]
  OBVIOUS

\* kernel_exit pops one frame; those below it stay.
LEMMA Popped ==
  ASSUME NEW S, NEW s \in Seq(S), s # <<>>, NEW r, r = SubSeq(s, 1, Len(s) - 1)
  PROVE  /\ r \in Seq(S) /\ Len(r) = Len(s) - 1 /\ Len(s) \in Nat
         /\ \A i \in 1 .. Len(r) : r[i] = s[i]
<1> DEFINE n == Len(s) - 1
<1>1. Len(s) \in Nat /\ n \in Nat /\ n <= Len(s)
  OBVIOUS
<1>2. r \in Seq(S) /\ Len(r) = n /\ \A i \in 1 .. n : r[i] = s[i]
  BY <1>1, Lowest, Zenon
<1> QED
  BY <1>1, <1>2, Zenon

\* Every step of the boot code, of the timer and of the interrupt path keeps IndInv.
LEMMA IndInvStep == IndInv /\ [Next]_vars => IndInv'
<1> SUFFICES ASSUME TypeOK, BootInv, SliceInv, MaskInv, FrameInv, [Next]_vars
             PROVE  IndInv'
  BY DEF IndInv
<1>1. CASE BootIdle
  <2>1. TypeOK'
    BY <1>1
       DEF BootIdle, CreateTask, Goto, Slots, TypeOK, SchedTypeOK, BootInv, Labels
  <2>2. BootInv'
    BY <1>1
       DEF BootIdle, CreateTask, Goto, At, Slots, TypeOK, BootInv, MaskInv, Live
  <2>3. SliceInv'
    BY <1>1 DEF BootIdle, CreateTask, Slots, NULL, TypeOK, SchedTypeOK, BootInv,
       SliceInv, Live
  <2>4. MaskInv'
    BY <1>1 DEF BootIdle, At, BootInv, MaskInv
  <2>5. FrameInv'
    <3>1. \A t \in Slots : pc[t] = "fork" /\ stack[t] = <<>>
      BY <1>1 DEF BootIdle, BootInv, FrameInv, Live, NULL, Slots
    <3>2. pc' = [pc EXCEPT ![1] = "task"] /\ stack' = stack /\ current' = 1 /\ 1 \in Slots
      BY <1>1 DEF BootIdle, Goto, Slots
    <3>3. pc'[1] = "task" /\ \A t \in Slots \ {1} : pc'[t] = "fork"
      BY <3>1, <3>2 DEF TypeOK
    <3> QED
      BY <3>1, <3>2, <3>3 DEF FrameInv, At
  <2> QED
    BY <2>1, <2>2, <2>3, <2>4, <2>5 DEF IndInv
<1>2. CASE BootCreate
  <2>1. TypeOK'
    <3>1. boot + 1 \in 0 .. NTasks + 2 /\ boot < NTasks
      BY <1>2 DEF BootCreate, TypeOK
    <3>2. CASE CreateTaskFails
      BY <1>2, <3>1, <3>2
         DEF BootCreate, CreateTaskFails, schedVars, TypeOK, SchedTypeOK
    <3>3. CASE CreateTask /\ UNCHANGED current
      <4>1. task_count + 1 \in Slots /\ task_count + 1 \in 0 .. NR_TASKS
        BY <1>2, <3>1 DEF BootCreate, BootInv, Slots, TypeOK, SchedTypeOK
      <4>2. SchedTypeOK'
        BY <3>3, <4>1 DEF CreateTask, TypeOK, SchedTypeOK
      <4> QED
        BY <1>2, <3>1, <4>2 DEF BootCreate, TypeOK
    <3> QED
      BY <1>2, <3>2, <3>3 DEF BootCreate
  <2>2. BootInv'
    <3>1. /\ boot \in 1 .. NTasks - 1 /\ boot' = boot + 1
          /\ current' = current /\ masked' = masked /\ pc' = pc
      BY <1>2 DEF BootCreate, CreateTaskFails, schedVars
    <3>2. task_count' \in {task_count, task_count + 1}
      BY <1>2 DEF BootCreate, CreateTask, CreateTaskFails, schedVars
    <3>3. task_count \in Nat /\ NTasks \in Nat
      BY <3>1 DEF TypeOK, SchedTypeOK
    <3>4. /\ current \in 1 .. task_count /\ task_count <= boot
          /\ masked /\ current = 1 /\ pc[1] = "task"
      BY <3>1 DEF BootInv, Live
    <3> QED
      BY <3>1, <3>2, <3>3, <3>4 DEF BootInv, Live
  <2>3. SliceInv'
    <3>1. CASE CreateTaskFails
      BY <1>2, <3>1 DEF BootCreate, CreateTaskFails, schedVars, SliceInv, At, Live
    <3>2. CASE CreateTask /\ UNCHANGED current
      <4>1. /\ task_count + 1 \in Slots /\ current \in Live /\ current < task_count + 1
            /\ task_count \in Nat
            /\ counter' = [counter EXCEPT ![task_count + 1] = Priority]
            /\ flags' = [flags EXCEPT ![task_count + 1] = FALSE]
            /\ task_count' = task_count + 1
            /\ UNCHANGED <<current, pc>>
        BY <1>2, <3>2
           DEF BootCreate, CreateTask, BootInv, Live, Slots, TypeOK, SchedTypeOK
      <4>2. \A t \in Live' : t = task_count + 1 \/ t \in Live
        BY <4>1 DEF Live
      <4>3. \A t \in Slots : /\ counter'[t] = IF t = task_count + 1 THEN Priority
                                             ELSE counter[t]
                             /\ flags'[t] = IF t = task_count + 1 THEN FALSE ELSE flags[t]
        BY <4>1 DEF TypeOK, SchedTypeOK
      <4>4. current \in Slots /\ current # task_count + 1 /\ Live \subseteq Slots
        BY <4>1, LiveAreSlots DEF Live
      <4>5. \A t \in Live' : /\ t < current => counter'[t] = 0
                             /\ t > current => counter'[t] = Priority
        <5>1. ASSUME NEW t \in Live, t # task_count + 1, t \in Slots
              PROVE  /\ t < current => counter'[t] = 0
                     /\ t > current => counter'[t] = Priority
          BY <4>3, <5>1 DEF SliceInv
        <5>2. \A t \in Live : t # task_count + 1 /\ t \in Slots
          BY <4>1, <4>4 DEF Live
        <5>3. counter'[task_count + 1] = Priority
          BY <4>1, <4>3
        <5>4. ~ (task_count + 1 < current)
          <6>1. current \in Nat /\ current < task_count + 1 /\ task_count \in Nat
            BY <4>1 DEF Live
          <6> QED
            BY <6>1
        <5> QED
          BY <4>2, <5>1, <5>2, <5>3, <5>4
      <4>6. \A t \in Slots : flags'[t] <=> (t = current /\ counter'[t] = 0)
        BY <4>3, <4>4 DEF SliceInv
      <4> QED
        BY <4>1, <4>3, <4>4, <4>5, <4>6 DEF SliceInv, At
    <3> QED
      BY <1>2, <3>1, <3>2 DEF BootCreate
  <2>4. MaskInv'
    BY <1>2 DEF BootCreate, At, BootInv, MaskInv
  <2>5. FrameInv'
    <3>1. /\ UNCHANGED <<current, pc, stack, elr>>
          /\ Live \subseteq Live'
      BY <1>2 DEF BootCreate, CreateTask, CreateTaskFails, schedVars, Live, TypeOK,
         SchedTypeOK
    <3> QED
      BY <3>1 DEF FrameInv, At
  <2> QED
    BY <2>1, <2>2, <2>3, <2>4, <2>5 DEF IndInv
<1>3. CASE BootTimer
  <2>1. TypeOK'
    <3>1. boot' \in 0 .. NTasks + 2
      BY <1>3 DEF BootTimer, TypeOK
    <3>2. SchedTypeOK' /\ UNCHANGED <<masked, pc, stack, elr, line, active>>
      BY <1>3 DEF BootTimer, schedVars, SchedTypeOK, TypeOK
    <3> QED
      BY <3>1, <3>2 DEF TypeOK
  <2>2. BootInv'
    BY <1>3 DEF BootTimer, schedVars, BootInv, Live
  <2>3. SliceInv'
    BY <1>3 DEF BootTimer, At, schedVars, SliceInv, Live
  <2>4. MaskInv'
    BY <1>3 DEF BootTimer, At, BootInv, MaskInv
  <2>5. FrameInv'
    BY <1>3 DEF BootTimer, At, schedVars, FrameInv, Live
  <2> QED
    BY <2>1, <2>2, <2>3, <2>4, <2>5 DEF IndInv
<1>4. CASE BootUnmask
  <2>1. TypeOK'
    <3>1. boot' \in 0 .. NTasks + 2
      BY <1>4 DEF BootUnmask, TypeOK
    <3>2. masked' \in BOOLEAN /\ UNCHANGED <<pc, stack, elr, line, active>>
      BY <1>4 DEF BootUnmask
    <3>3. SchedTypeOK'
      BY <1>4 DEF BootUnmask, schedVars, TypeOK, SchedTypeOK
    <3> QED
      BY <3>1, <3>2, <3>3 DEF TypeOK
  <2>2. BootInv'
    BY <1>4 DEF BootUnmask, schedVars, BootInv, Live
  <2>3. SliceInv'
    BY <1>4 DEF BootUnmask, At, schedVars, SliceInv, Live
  <2>4. MaskInv'
    BY <1>4 DEF BootUnmask, At, schedVars, NULL, BootInv, MaskInv, Interruptible
  <2>5. FrameInv'
    BY <1>4 DEF BootUnmask, At, schedVars, FrameInv, Live
  <2> QED
    BY <2>1, <2>2, <2>3, <2>4, <2>5 DEF IndInv
<1>5. CASE TimerExpires
  <2>1. TypeOK'
    BY <1>5 DEF TimerExpires, schedVars, TypeOK, SchedTypeOK
  <2>2. BootInv'
    BY <1>5 DEF TimerExpires, schedVars, BootInv, Live
  <2>3. SliceInv'
    BY <1>5 DEF TimerExpires, At, schedVars, SliceInv, Live
  <2>4. MaskInv'
    BY <1>5 DEF TimerExpires, At, schedVars, MaskInv
  <2>5. FrameInv'
    BY <1>5 DEF TimerExpires, At, schedVars, FrameInv, Live
  <2> QED
    BY <2>1, <2>2, <2>3, <2>4, <2>5 DEF IndInv
<1>6. CASE TakeInterrupt
  <2>1. TypeOK'
    <3>1. current \in Slots /\ pc[current] \in Interruptible
      BY <1>6 DEF TakeInterrupt, MaskInv, At, TypeOK, SchedTypeOK
    <3>2. elr' \in Context
      BY <1>6, <3>1 DEF TakeInterrupt, Context
    <3>3. pc' \in [Slots -> Labels]
      BY <1>6 DEF TakeInterrupt, Goto, Labels, TypeOK
    <3> QED
      BY <1>6, <3>2, <3>3 DEF TakeInterrupt, schedVars, TypeOK, SchedTypeOK
  <2>2. BootInv'
    BY <1>6 DEF TakeInterrupt, schedVars, BootInv, Live
  <2>3. SliceInv'
    <3>1. pc[current] \in Interruptible /\ current \in Slots
      BY <1>6 DEF TakeInterrupt, MaskInv, At, TypeOK, SchedTypeOK
    <3>2. counter[current] # 0
      BY <3>1 DEF SliceInv, At, Interruptible, NULL, Slots
    <3> QED
      BY <1>6, <3>1, <3>2 DEF TakeInterrupt, schedVars, SliceInv, Live
  <2>4. MaskInv'
    BY <1>6 DEF TakeInterrupt, MaskInv
  <2>5. FrameInv'
    BY <1>6 DEF TakeInterrupt, Goto, At, schedVars, FrameInv, Live
  <2> QED
    BY <2>1, <2>2, <2>3, <2>4, <2>5 DEF IndInv
<1>7. CASE KernelEntry
  <2>1. TypeOK'
    <3>1. current \in Slots
      BY <1>7 DEF KernelEntry, At, TypeOK, SchedTypeOK
    <3>2. Append(stack[current], elr) \in Seq(Context)
      BY <3>1 DEF TypeOK
    <3>3. stack' \in [Slots -> Seq(Context)]
      BY <1>7, <3>1, <3>2 DEF KernelEntry, TypeOK
    <3> QED
      BY <1>7, <3>3 DEF KernelEntry, Goto, Labels, schedVars, TypeOK, SchedTypeOK
  <2>2. BootInv'
    BY <1>7 DEF KernelEntry, At, schedVars, BootInv, Live
  <2>3. SliceInv'
    BY <1>7 DEF KernelEntry, At, schedVars, SliceInv, Live
  <2>4. MaskInv'
    BY <1>7 DEF KernelEntry, Goto, At, schedVars, TypeOK, SchedTypeOK, MaskInv,
       Interruptible
  <2>5. FrameInv'
    <3> DEFINE s == stack[current]
    <3>1. current \in Slots /\ s \in Seq(Context) /\ current # NULL
      BY <1>7 DEF KernelEntry, At, TypeOK, SchedTypeOK
    <3>2. stack'[current] = Append(s, elr) /\ pc'[current] = "do_irq"
      BY <1>7, <3>1 DEF KernelEntry, Goto, TypeOK
    <3>3. \A t \in Slots \ {current} : stack'[t] = stack[t] /\ pc'[t] = pc[t]
      BY <1>7 DEF KernelEntry, Goto, TypeOK
    <3>4. Append(s, elr) # <<>> /\ Len(Append(s, elr)) = Len(s) + 1
      BY <3>1
    <3>5. \A i \in 1 .. Len(s) + 1 : Append(s, elr)[i][2] = "exit" => i >= 2
      <4>1. \A i \in 1 .. Len(s) : Append(s, elr)[i] = s[i] /\ (s[i][2] = "exit" => i >= 2)
        BY <3>1 DEF FrameInv
      <4>2. Append(s, elr)[Len(s) + 1] = elr /\ (elr[2] = "exit" => Len(s) >= 1) /\ Len(s) \in Nat
        BY <1>7, <3>1 DEF KernelEntry, FrameInv
      <4> QED
        BY <4>1, <4>2
    <3>6. UNCHANGED <<current, task_count>>
      BY <1>7 DEF KernelEntry, schedVars
    <3>7. \A t \in Slots : \A i \in 1 .. Len(stack'[t]) : stack'[t][i][2] = "exit" => i >= 2
      BY <3>2, <3>3, <3>4, <3>5 DEF FrameInv
    <3>8. \A t \in Slots \ {current} :
            \/ pc'[t] = "fork" /\ stack'[t] = <<>>
            \/ t \in Live /\ pc'[t] = "resume" /\ stack'[t] # <<>>
      BY <3>3 DEF FrameInv
    <3> QED
      BY <3>2, <3>4, <3>6, <3>7, <3>8 DEF FrameInv, At, Live
  <2> QED
    BY <2>1, <2>2, <2>3, <2>4, <2>5 DEF IndInv
<1>8. CASE TimerHandler
  <2>1. TypeOK'
    <3>1. current \in Slots /\ counter[current] \in 0 .. Word - 1
      BY <1>8 DEF TimerHandler, At, TypeOK, SchedTypeOK
    <3>2. counter' \in [Slots -> 0 .. Word - 1]
      BY <1>8, <3>1
         DEF TimerHandler, SchedulerTick, Decremented, TypeOK, SchedTypeOK
    <3> QED
      BY <1>8, <3>1, <3>2
         DEF TimerHandler, SchedulerTick, Goto, Labels, TypeOK, SchedTypeOK
  <2>2. BootInv'
    BY <1>8 DEF TimerHandler, SchedulerTick, At, BootInv, Live
  <2>3. SliceInv'
    <3> DEFINE left == counter[current] - 1
    <3>1. /\ current \in Slots /\ current # NULL
          /\ counter[current] \in Nat /\ counter[current] <= Priority
          /\ counter[current] # 0 /\ ~ flags[current]
      BY <1>8 DEF TimerHandler, At, SliceInv, Slots, TypeOK, SchedTypeOK
    <3>2. /\ counter' = [counter EXCEPT ![current] = left]
          /\ flags' = [flags EXCEPT ![current] = (left = 0)]
          /\ pc' = [pc EXCEPT ![current] = "eoi"]
          /\ UNCHANGED <<task_count, current>>
      BY <1>8, <3>1
         DEF TimerHandler, SchedulerTick, Decremented, Goto, TypeOK, SchedTypeOK
    <3>3. \A t \in Live : (t < current \/ t > current) => counter'[t] = counter[t]
      BY <3>1, <3>2 DEF TypeOK, SchedTypeOK, Slots, Live
    <3>4. \A t \in Slots : flags'[t] <=> (t = current /\ counter'[t] = 0)
      BY <3>1, <3>2 DEF TypeOK, SchedTypeOK, SliceInv
    <3>5. left <= Priority /\ counter'[current] = left /\ At("eoi")'
      BY <3>1, <3>2 DEF TypeOK, SchedTypeOK, At
    <3> QED
      BY <3>2, <3>3, <3>4, <3>5 DEF SliceInv, Live
  <2>4. MaskInv'
    BY <1>8 DEF TimerHandler, Goto, SchedulerTick, At, MaskInv, Interruptible
  <2>5. FrameInv'
    BY <1>8 DEF TimerHandler, Goto, SchedulerTick, At, FrameInv, Live
  <2> QED
    BY <2>1, <2>2, <2>3, <2>4, <2>5 DEF IndInv
<1>9. CASE EndOfInterrupt
  <2>1. TypeOK'
    BY <1>9 DEF EndOfInterrupt, Goto, schedVars, TypeOK, SchedTypeOK, Labels
  <2>2. BootInv'
    BY <1>9 DEF EndOfInterrupt, At, schedVars, BootInv, Live
  <2>3. SliceInv'
    BY <1>9 DEF EndOfInterrupt, Goto, At, schedVars, SliceInv, Live
  <2>4. MaskInv'
    BY <1>9 DEF EndOfInterrupt, At, MaskInv, Interruptible
  <2>5. FrameInv'
    BY <1>9 DEF EndOfInterrupt, Goto, At, schedVars, FrameInv, Live
  <2> QED
    BY <2>1, <2>2, <2>3, <2>4, <2>5 DEF IndInv
<1>10. CASE CheckReturns
  <2>1. TypeOK'
    BY <1>10 DEF CheckReturns, Goto, CheckReschedReturns, FlagCleared, TypeOK,
       SchedTypeOK, Labels
  <2>2. BootInv'
    BY <1>10 DEF CheckReturns, CheckReschedReturns, At, BootInv, Live
  <2>3. SliceInv'
    <3>1. current \in Slots /\ current # NULL /\ ~ flags[current]
      BY <1>10 DEF CheckReturns, CheckReschedReturns, MustSchedule, PreemptCount,
         At, TypeOK, SchedTypeOK
    <3>2. flags' = flags
      BY <1>10, <3>1
         DEF CheckReturns, CheckReschedReturns, FlagCleared, TypeOK, SchedTypeOK
    <3>3. counter[current] # 0
      BY <3>1 DEF SliceInv
    <3> QED
      BY <1>10, <3>2, <3>3 DEF CheckReturns, CheckReschedReturns, SliceInv, Live
  <2>4. MaskInv'
    BY <1>10 DEF CheckReturns, At, MaskInv, Interruptible
  <2>5. FrameInv'
    BY <1>10 DEF CheckReturns, Goto, CheckReschedReturns, At, FrameInv, Live
  <2> QED
    BY <2>1, <2>2, <2>3, <2>4, <2>5 DEF IndInv
<1>11. CASE SwitchTask
  <2>a. /\ Successor \in Live
        /\ current \in Live /\ current \in Slots /\ current # NULL
        /\ counter[current] = 0
        /\ current' = Successor
        /\ counter' = IF current = task_count
                      THEN [t \in Slots |-> IF t \in Live THEN Priority ELSE counter[t]]
                      ELSE counter
        /\ flags' = [flags EXCEPT ![current] = FALSE]
        /\ pc' = [pc EXCEPT ![current] = "resume"]
        /\ UNCHANGED <<pages, task_count>>
    <3>1. /\ current # NULL /\ flags[current] /\ current \in Slots
          /\ current' = Longest(Charged(counter)) /\ counter' = Charged(counter)
          /\ flags' = [flags EXCEPT ![current] = FALSE]
          /\ pc' = [pc EXCEPT ![current] = "resume"]
          /\ UNCHANGED <<pages, task_count>>
      BY <1>11 DEF SwitchTask, CheckReschedSchedules, MustSchedule, FlagCleared,
                   Schedule, Goto, At, TypeOK, SchedTypeOK
    <3>2. counter[current] = 0
      BY <3>1 DEF SliceInv
    <3>3. current \in Live
      BY <3>1 DEF BootInv, TypeOK
    <3> QED
      BY <3>1, <3>2, <3>3, NextInRound
  <2>1. TypeOK'
    <3>1. SchedTypeOK'
      <4>1. counter' \in [Slots -> 0 .. Word - 1]
        BY <2>a DEF TypeOK, SchedTypeOK
      <4>2. flags' \in [Slots -> BOOLEAN]
        BY <2>a DEF TypeOK, SchedTypeOK
      <4>3. current' \in Slots
        BY <2>a, LiveAreSlots
      <4> QED
        BY <2>a, <4>1, <4>2, <4>3 DEF TypeOK, SchedTypeOK
    <3>2. UNCHANGED <<boot, stack, elr, line, active>> /\ masked' \in BOOLEAN
      BY <1>11 DEF SwitchTask
    <3> QED
      BY <2>a, <3>1, <3>2 DEF TypeOK, Labels
  <2>2. BootInv'
    <3>1. boot \notin 1 .. NTasks + 1
      BY <1>11 DEF SwitchTask, At, BootInv
    <3> QED
      BY <1>11, <2>a, <3>1 DEF SwitchTask, BootInv, Live, TypeOK
  <2>3. SliceInv'
    <3>1. \A t \in Live : /\ t < Successor => counter'[t] = 0
                          /\ t > Successor => counter'[t] = Priority
      BY <2>a DEF SliceInv, Successor, Live, Slots, TypeOK, SchedTypeOK
    <3>2. counter'[Successor] = Priority
      BY <2>a DEF SliceInv, Successor, Live, Slots, TypeOK, SchedTypeOK
    <3>3. \A t \in Slots : flags'[t] = FALSE
      BY <2>a DEF SliceInv, TypeOK, SchedTypeOK
    <3>4. Live' = Live /\ Priority <= Priority /\ Priority # 0
      BY <2>a DEF Live
    <3>5. \A t \in Live' : /\ t < current' => counter'[t] = 0
                           /\ t > current' => counter'[t] = Priority
      BY <2>a, <3>1, <3>4
    <3>6. \A t \in Slots : flags'[t] <=> (t = current' /\ counter'[t] = 0)
      BY <2>a, <3>2, <3>3, <3>4
    <3> QED
      BY <2>a, <3>2, <3>4, <3>5, <3>6 DEF SliceInv, Live, NULL
  <2>4. MaskInv'
    BY <1>11 DEF SwitchTask, At, MaskInv
  <2>5. FrameInv'
    <3>1. stack[current] # <<>> /\ stack' = stack
      BY <1>11 DEF SwitchTask, FrameInv
    <3>2. pc'[current] = "resume" /\ \A t \in Slots \ {current} : pc'[t] = pc[t]
      BY <2>a DEF TypeOK
    <3>3. \A t \in Slots : \/ pc'[t] = "fork" /\ stack'[t] = <<>>
                           \/ t \in Live /\ pc'[t] = "resume" /\ stack'[t] # <<>>
      BY <2>a, <3>1, <3>2 DEF FrameInv
    <3>4. current' \in Slots /\ (pc'[current'] = "fork" \/ pc'[current'] = "resume")
      BY <2>a, <3>3, LiveAreSlots
    <3>5. /\ ~ At("do_irq")' /\ ~ At("eoi")' /\ ~ At("check")' /\ ~ At("exit")'
          /\ ~ At("entry")' /\ ~ At("eret")'
          /\ At("resume")' => stack'[current'] # <<>>
      BY <3>3, <3>4 DEF At
    <3>6. \A t \in Slots : \A i \in 1 .. Len(stack'[t]) : stack'[t][i][2] = "exit" => i >= 2
      BY <3>1 DEF FrameInv
    <3> QED
      BY <2>a, <3>3, <3>5, <3>6 DEF FrameInv, Live
  <2> QED
    BY <2>1, <2>2, <2>3, <2>4, <2>5 DEF IndInv
<1>12. CASE ScheduleReturns
  <2>1. TypeOK'
    BY <1>12 DEF ScheduleReturns, Goto, schedVars, TypeOK, SchedTypeOK, Labels
  <2>2. BootInv'
    BY <1>12 DEF ScheduleReturns, At, schedVars, BootInv, Live
  <2>3. SliceInv'
    BY <1>12 DEF ScheduleReturns, At, schedVars, SliceInv, Live
  <2>4. MaskInv'
    BY <1>12 DEF ScheduleReturns, Goto, At, schedVars, TypeOK, SchedTypeOK,
       MaskInv, Interruptible
  <2>5. FrameInv'
    BY <1>12 DEF ScheduleReturns, Goto, At, schedVars, FrameInv, Live
  <2> QED
    BY <2>1, <2>2, <2>3, <2>4, <2>5 DEF IndInv
<1>13. CASE RetFromFork
  <2>1. TypeOK'
    BY <1>13 DEF RetFromFork, Goto, schedVars, TypeOK, SchedTypeOK, Labels
  <2>2. BootInv'
    BY <1>13 DEF RetFromFork, At, schedVars, BootInv, Live
  <2>3. SliceInv'
    BY <1>13 DEF RetFromFork, At, schedVars, SliceInv, Live
  <2>4. MaskInv'
    BY <1>13 DEF RetFromFork, Goto, At, schedVars, TypeOK, SchedTypeOK, MaskInv,
       Interruptible
  <2>5. FrameInv'
    BY <1>13 DEF RetFromFork, Goto, At, schedVars, FrameInv, Live
  <2> QED
    BY <2>1, <2>2, <2>3, <2>4, <2>5 DEF IndInv
<1>14. CASE KernelExit
  <2>1. TypeOK'
    <3>1. current \in Slots /\ stack[current] # <<>> /\ stack[current] \in Seq(Context)
      BY <1>14 DEF KernelExit, FrameInv, At, TypeOK, SchedTypeOK
    <3>2. stack[current][Len(stack[current])] \in Context
      BY <3>1
    <3> QED
      BY <1>14, <3>1, <3>2
         DEF KernelExit, Goto, Labels, schedVars, TypeOK, SchedTypeOK
  <2>2. BootInv'
    BY <1>14 DEF KernelExit, At, schedVars, BootInv, Live
  <2>3. SliceInv'
    BY <1>14 DEF KernelExit, At, schedVars, SliceInv, Live
  <2>4. MaskInv'
    BY <1>14 DEF KernelExit, Goto, At, schedVars, MaskInv, Interruptible
  <2>5. FrameInv'
    BY <1>14 DEF KernelExit, Goto, At, schedVars, TypeOK, FrameInv, Live
  <2> QED
    BY <2>1, <2>2, <2>3, <2>4, <2>5 DEF IndInv
<1>15. CASE Eret
  <2> DEFINE s == stack[current]
             lost == s = <<>> \/ elr[1] # current
  <2>a. /\ current \in Slots /\ current # NULL /\ s \in Seq(Context)
        /\ pc[current] = "eret" /\ elr[2] \in Interruptible
        /\ pc' = [pc EXCEPT ![current] = IF lost THEN "wild" ELSE elr[2]]
        /\ stack' = [stack EXCEPT ![current] = IF lost THEN s ELSE SubSeq(s, 1, Len(s) - 1)]
        /\ masked' = FALSE
        /\ UNCHANGED <<schedVars, boot, elr, line, active>>
    BY <1>15 DEF Eret, Goto, At, Context, TypeOK, SchedTypeOK
  <2>b. UNCHANGED <<pages, task_count, counter, flags, current>>
    BY <2>a DEF schedVars
  <2>c. pc'[current] = (IF lost THEN "wild" ELSE elr[2])
    BY <2>a DEF TypeOK
  <2>1. TypeOK'
    <3>1. stack' \in [Slots -> Seq(Context)]
      <4>1. s # <<>> => SubSeq(s, 1, Len(s) - 1) \in Seq(Context)
        BY <2>a
      <4> QED
        BY <2>a, <4>1 DEF TypeOK
    <3>2. pc' \in [Slots -> Labels]
      BY <2>a DEF TypeOK, Labels, Interruptible
    <3> QED
      BY <2>a, <2>b, <3>1, <3>2 DEF TypeOK, SchedTypeOK
  <2>2. BootInv'
    BY <2>a, <2>b, <2>c DEF BootInv, Live
  <2>3. SliceInv'
    BY <2>a, <2>b, <2>c DEF SliceInv, At, Live
  <2>4. MaskInv'
    <3>1. pc'[current] \in Interruptible \cup {"wild"}
      BY <2>a, <2>c
    <3> QED
      BY <2>a, <2>b, <3>1 DEF MaskInv, At
  <2>5. FrameInv'
    <3>1. CASE lost
      BY <2>a, <2>b, <2>c, <3>1 DEF FrameInv, At, Live, TypeOK
    <3>2. CASE ~ lost
      <4> DEFINE r == SubSeq(s, 1, Len(s) - 1)
      <4>1. /\ stack'[current] = r
            /\ \A t \in Slots \ {current} : stack'[t] = stack[t] /\ pc'[t] = pc[t]
            /\ pc'[current] = elr[2]
        <5>1. stack \in [Slots -> Seq(Context)] /\ pc \in [Slots -> Labels]
          BY DEF TypeOK
        <5>2. stack' = [stack EXCEPT ![current] = r] /\ current \in Slots
          BY <2>a, <3>2
        <5>3. pc' = [pc EXCEPT ![current] = elr[2]]
          BY <2>a, <3>2
        <5> HIDE DEF s, r, lost
        <5> QED
          BY <5>1, <5>2, <5>3
      <4>2. /\ r \in Seq(Context) /\ Len(r) = Len(s) - 1 /\ Len(s) \in Nat
            /\ \A i \in 1 .. Len(r) : r[i] = s[i]
        <5>1. s # <<>>
          BY <3>2
        <5>2. s \in Seq(Context)
          BY <2>a
        <5> QED
          BY <5>1, <5>2, Popped
      <4>3. \A i \in 1 .. Len(r) : r[i][2] = "exit" => i >= 2
        BY <2>a, <4>2 DEF FrameInv
      <4>4. elr[2] = "exit" => Len(s) >= 2
        BY <2>a DEF FrameInv, At
      <4>5. elr[2] = "exit" => r # <<>>
        <5>1. Len(r) = Len(s) - 1
          BY <4>2
        <5> HIDE DEF s, r
        <5>2. elr[2] = "exit" => Len(r) # 0
          BY <4>4, <5>1
        <5> QED
          BY <5>2
      <4>6. \A t \in Slots : \A i \in 1 .. Len(stack'[t]) : stack'[t][i][2] = "exit" => i >= 2
        BY <4>1, <4>3 DEF FrameInv
      <4>7. \A t \in Slots \ {current} :
              \/ pc'[t] = "fork" /\ stack'[t] = <<>>
              \/ t \in Live /\ pc'[t] = "resume" /\ stack'[t] # <<>>
        BY <4>1 DEF FrameInv
      <4>8. At("eret")' /\ elr[2] = "exit" => FALSE
        BY <2>b, <4>1 DEF At
      <4> QED
        BY <2>a, <2>b, <4>1, <4>5, <4>6, <4>7, <4>8
           DEF FrameInv, At, Interruptible, Live
    <3> QED
      BY <3>1, <3>2
  <2> QED
    BY <2>1, <2>2, <2>3, <2>4, <2>5 DEF IndInv
<1>16. CASE UNCHANGED vars
  BY <1>16 DEF IndInv, vars, schedVars, cpuVars, TypeOK, SchedTypeOK, BootInv,
     SliceInv, MaskInv, FrameInv, At, Live
<1> QED
  BY <1>1, <1>2, <1>3, <1>4, <1>5, <1>6, <1>7, <1>8, <1>9, <1>10, <1>11, <1>12,
     <1>13, <1>14, <1>15, <1>16 DEF Next, Boot, InterruptPath

-----------------------------------------------------------------------------
(* What follows from it *)

\* The kernel never leaves IndInv.
THEOREM Invariance == Spec => []IndInv
<1> QED
  BY IndInvInit, IndInvStep, PTL DEF Spec

\* Every variable keeps its type; no slice, frame or ELR value leaves its range.
THEOREM TypeCorrect == Spec => []TypeOK
<1>1. IndInv => TypeOK
  BY DEF IndInv
<1> QED
  BY <1>1, Invariance, PTL

\* A tick never finds the running task's slice used up: counter-- never wraps.
THEOREM NoUnderflow == Spec => []TickFindsSlice
<1>1. IndInv => TickFindsSlice
  <2> SUFFICES ASSUME IndInv, At("entry") \/ At("do_irq")
               PROVE  counter[current] > 0
    BY DEF TickFindsSlice
  <2>1. current \in Slots /\ counter[current] \in Nat
    BY DEF IndInv, TypeOK, SchedTypeOK, At
  <2>2. counter[current] # 0
    BY DEF IndInv, SliceInv, At
  <2> QED
    BY <2>1, <2>2
<1> QED
  BY <1>1, Invariance, PTL

\* The tasks that are not running can be resumed by a switch.
THEOREM SwitchTargets == Spec => []OthersSuspended
<1>1. IndInv => OthersSuspended
  BY DEF IndInv, TypeOK, SchedTypeOK, FrameInv, OthersSuspended, Live, Slots
<1> QED
  BY <1>1, Invariance, PTL

\* No interrupt is active across a context switch.
THEOREM EndsInterrupt == Spec => []EndedBeforeSwitch
<1>1. IndInv => EndedBeforeSwitch
  BY DEF IndInv, MaskInv, EndedBeforeSwitch
<1> QED
  BY <1>1, Invariance, PTL

-----------------------------------------------------------------------------
(* Refinement *)

\* An initial state of the kernel is an initial state of RoundRobin.
LEMMA RefinesInit == Init => Abstract!Init
BY DEF Init, SchedInit, Abstract!Init

\* A step of the kernel is a step of RoundRobin or leaves its variables alone.
LEMMA RefinesStep == IndInv /\ [Next]_vars => [Abstract!Next]_(Abstract!vars)
<1> USE DEF Abstract!vars
<1> SUFFICES ASSUME IndInv, [Next]_vars
             PROVE  [Abstract!Next]_(Abstract!vars)
  OBVIOUS
<1> DEFINE Same == UNCHANGED <<task_count, current, counter>>
<1>1. CASE BootIdle
  <2>1. /\ current = NULL /\ task_count = 0 /\ current' = 1 /\ task_count' = 1
        /\ counter'[1] = Priority
    BY <1>1 DEF BootIdle, CreateTask, IndInv, BootInv, TypeOK, SchedTypeOK, Slots
  <2> QED
    BY <2>1 DEF Abstract!Next, Abstract!Admit, NULL
<1>2. CASE BootCreate
  <2>1. CASE CreateTaskFails
    BY <1>2, <2>1 DEF BootCreate, CreateTaskFails, schedVars
  <2>2. CASE CreateTask /\ UNCHANGED current
    <3>1. current \in Live /\ current # NULL /\ current # task_count + 1
      BY <1>2 DEF BootCreate, IndInv, BootInv, TypeOK, Live, NULL, SchedTypeOK
    <3>2. task_count' = task_count + 1 /\ counter'[current] = counter[current]
      BY <2>2, <3>1 DEF CreateTask, IndInv, TypeOK, SchedTypeOK, Slots
    <3> QED
      BY <2>2, <3>1, <3>2 DEF Abstract!Next, Abstract!Admit
  <2> QED
    BY <1>2, <2>1, <2>2 DEF BootCreate
<1>3. CASE TimerHandler
  <2>1. /\ current \in Slots /\ current # NULL /\ counter[current] \in Nat
        /\ counter[current] # 0 /\ task_count > 0
    BY <1>3
       DEF TimerHandler, At, IndInv, TypeOK, SchedTypeOK, SliceInv, BootInv, Live
  <2>2. counter'[current] = counter[current] - 1 /\ UNCHANGED <<task_count, current>>
    BY <1>3, <2>1
       DEF TimerHandler, SchedulerTick, Decremented, IndInv, TypeOK, SchedTypeOK
  <2> QED
    BY <2>1, <2>2 DEF Abstract!Next, Abstract!Tick
<1>4. CASE SwitchTask
  <2>1. /\ current # NULL /\ counter[current] = 0 /\ current \in Live
        /\ current' = Longest(Charged(counter)) /\ counter' = Charged(counter)
        /\ task_count' = task_count
    BY <1>4 DEF SwitchTask, CheckReschedSchedules, MustSchedule, Schedule, At,
                IndInv, TypeOK, SchedTypeOK, SliceInv, BootInv
  <2>2. current' = Successor /\ Successor \in Live /\ counter'[Successor] = Priority
    <3>1. /\ Successor \in Live /\ Successor \in Slots
          /\ counter' = IF current = task_count
                        THEN [t \in Slots |-> IF t \in Live THEN Priority ELSE counter[t]]
                        ELSE counter
          /\ current' = Successor
      BY <2>1, NextInRound, LiveAreSlots DEF IndInv
    <3>2. CASE current = task_count
      BY <3>1, <3>2
    <3>3. CASE current # task_count
      <4>1. Successor > current
        BY <2>1, <3>3 DEF Successor, Live
      <4>2. counter[Successor] = Priority
        BY <3>1, <4>1 DEF IndInv, SliceInv
      <4> QED
        BY <3>1, <3>3, <4>2
    <3> QED
      BY <3>1, <3>2, <3>3
  <2> QED
    BY <2>1, <2>2 DEF Abstract!Next, Abstract!Rotate, Successor, Live, NULL,
       IndInv, TypeOK, SchedTypeOK
<1>5. CASE CheckReturns
  BY <1>5 DEF CheckReturns, CheckReschedReturns
<1>6. CASE \/ BootTimer \/ BootUnmask \/ TimerExpires \/ TakeInterrupt \/ KernelEntry
           \/ EndOfInterrupt \/ ScheduleReturns \/ RetFromFork \/ KernelExit \/ Eret
  <2>1. UNCHANGED schedVars
    BY <1>6 DEF BootTimer, BootUnmask, TimerExpires, TakeInterrupt, KernelEntry,
                EndOfInterrupt, ScheduleReturns, RetFromFork, KernelExit, Eret
  <2> QED
    BY <2>1 DEF schedVars
<1>7. CASE UNCHANGED vars
  BY <1>7 DEF vars, schedVars
<1> QED
  BY <1>1, <1>2, <1>3, <1>4, <1>5, <1>6, <1>7 DEF Next, Boot, InterruptPath

\* For every number of tasks and every slice the scheduler implements RoundRobin.
THEOREM Refinement == Spec => ImplementsRoundRobin
<1> QED
  BY RefinesInit, RefinesStep, Invariance, PTL
     DEF Spec, ImplementsRoundRobin, Abstract!Spec

-----------------------------------------------------------------------------
(***************************************************************************)
(* A prompt interrupt path: as long as no tick comes within it             *)
(* (PromptTick) every interrupt returns to where it came from, with one    *)
(* frame on the stack at most.                                             *)
(***************************************************************************)

\* PromptInv holds at the start: no task has been interrupted.
LEMMA PromptInvInit == Init => PromptInv
BY DEF Init, SchedInit, PromptInv, At

\* No step breaks it, unless a tick comes within the interrupt path.
LEMMA PromptInvStep ==
  ASSUME IndInv, PromptInv, [Next]_vars, PromptTick'
  PROVE  PromptInv'
<1> DEFINE Own(t) == << <<t, "task">> >>
           Empty == {"fork", "task", "entry"}
<1>0. /\ pc \in [Slots -> Labels] /\ stack \in [Slots -> Seq(Context)]
      /\ current \in Slots \cup {NULL} /\ NULL \notin Slots
      /\ \A t \in Slots : stack[t] = IF pc[t] \in Empty THEN <<>> ELSE Own(t)
      /\ line => At("task") \/ At("entry") \/ At("do_irq")
      /\ ~ At("wild")
      /\ At("entry") \/ At("eret") => elr = <<current, "task">>
  BY DEF IndInv, TypeOK, SchedTypeOK, PromptInv, Slots, NULL
<1>1. CASE BootIdle
  <2>1. /\ \A t \in Slots : pc[t] = "fork"
        /\ current' = 1 /\ 1 \in Slots /\ ~ line
        /\ pc' = [pc EXCEPT ![1] = "task"] /\ UNCHANGED <<stack, elr, line>>
    BY <1>0, <1>1
       DEF BootIdle, Goto, At, IndInv, BootInv, FrameInv, Live, NULL, Slots
  <2> QED
    BY <1>0, <2>1 DEF PromptInv, At
<1>2. CASE BootCreate \/ BootTimer \/ BootUnmask
  <2>1. UNCHANGED <<current, pc, stack, elr, line>>
    BY <1>2 DEF BootCreate, BootTimer, BootUnmask, CreateTask, CreateTaskFails,
                schedVars
  <2> QED
    BY <2>1 DEF PromptInv, At
<1>3. CASE TimerExpires
  <2>1. UNCHANGED <<current, pc, stack, elr>>
    BY <1>3 DEF TimerExpires, schedVars
  <2>2. At("task") \/ At("entry") \/ At("do_irq")
    <3>1. line' /\ ~ At("wild")'
      BY <1>0, <1>3, <2>1 DEF TimerExpires, At
    <3> QED
      BY <2>1, <3>1 DEF PromptTick, At
  <2> QED
    BY <2>1, <2>2 DEF PromptInv, At
<1>4. CASE TakeInterrupt
  <2>1. /\ At("task") /\ current \in Slots
        /\ elr' = <<current, "task">> /\ pc' = [pc EXCEPT ![current] = "entry"]
        /\ UNCHANGED <<current, stack, line>>
    BY <1>0, <1>4 DEF TakeInterrupt, Goto, schedVars, IndInv, MaskInv, At,
                      Interruptible
  <2> QED
    BY <1>0, <2>1 DEF PromptInv, At
<1>5. CASE KernelEntry
  <2>1. /\ At("entry") /\ current \in Slots
        /\ stack' = [stack EXCEPT ![current] = Append(@, elr)]
        /\ pc' = [pc EXCEPT ![current] = "do_irq"]
        /\ UNCHANGED <<current, elr, line>>
    BY <1>0, <1>5 DEF KernelEntry, Goto, schedVars, At
  <2>2. Append(<<>>, <<current, "task">>) = Own(current)
    OBVIOUS
  <2>3. stack'[current] = Own(current)
    BY <1>0, <2>1, <2>2 DEF At
  <2> QED
    BY <1>0, <2>1, <2>3 DEF PromptInv, At
<1>6. CASE TimerHandler
  <2>1. /\ At("do_irq") /\ current \in Slots /\ ~ line'
        /\ pc' = [pc EXCEPT ![current] = "eoi"]
        /\ UNCHANGED <<current, stack, elr>>
    BY <1>0, <1>6 DEF TimerHandler, SchedulerTick, Goto, At
  <2> QED
    BY <1>0, <2>1 DEF PromptInv, At
<1>7. CASE EndOfInterrupt \/ CheckReturns \/ ScheduleReturns \/ RetFromFork
  <2>1. \E label \in {"check", "exit", "task"} :
          /\ current \in Slots /\ ~ line
          /\ label = "task" <=> pc[current] = "fork"
          /\ pc[current] \in {"eoi", "check", "resume", "fork"}
          /\ pc' = [pc EXCEPT ![current] = label]
          /\ UNCHANGED <<current, stack, elr, line>>
    BY <1>0, <1>7 DEF EndOfInterrupt, CheckReturns, CheckReschedReturns,
                      ScheduleReturns, RetFromFork, Goto, schedVars, At
  <2> QED
    BY <1>0, <2>1 DEF PromptInv, At
<1>8. CASE SwitchTask
  <2>1. /\ pc[current] = "check" /\ current \in Slots /\ ~ line
        /\ pc' = [pc EXCEPT ![current] = "resume"]
        /\ current' \in Slots
        /\ UNCHANGED <<stack, elr, line>>
    <3>1. /\ At("check") /\ counter[current] = 0 /\ current # NULL
          /\ current' = Longest(Charged(counter))
      BY <1>8 DEF SwitchTask, CheckReschedSchedules, MustSchedule, Schedule, At,
                  IndInv, SliceInv, TypeOK, SchedTypeOK
    <3>2. Longest(Charged(counter)) \in Live
      BY <3>1, NextInRound DEF IndInv
    <3> QED
      BY <1>0, <1>8, <3>1, <3>2
         DEF SwitchTask, Goto, At, IndInv, TypeOK, SchedTypeOK, Live, Slots
  <2>2. pc'[current'] \in {"fork", "resume"}
    BY <1>0, <2>1 DEF IndInv, FrameInv
  <2> QED
    BY <1>0, <2>1, <2>2 DEF PromptInv, At
<1>9. CASE KernelExit
  <2>1. /\ At("exit") /\ current \in Slots
        /\ elr' = stack[current][Len(stack[current])]
        /\ pc' = [pc EXCEPT ![current] = "eret"]
        /\ UNCHANGED <<current, stack, line>>
    BY <1>0, <1>9 DEF KernelExit, Goto, schedVars, At
  <2>2. stack[current] = Own(current) /\ ~ line
    BY <1>0, <2>1 DEF At
  <2>3. Len(Own(current)) = 1 /\ Own(current)[1] = <<current, "task">>
    OBVIOUS
  <2>4. elr' = <<current, "task">>
    BY <2>1, <2>2, <2>3
  <2> QED
    BY <1>0, <2>1, <2>2, <2>4 DEF PromptInv, At
<1>10. CASE Eret
  <2>1. At("eret") /\ current \in Slots /\ stack[current] = Own(current)
    BY <1>0, <1>10 DEF Eret, At
  <2>2. elr = <<current, "task">> /\ ~ line /\ Own(current) # <<>>
    BY <1>0, <2>1 DEF At
  <2>3. SubSeq(Own(current), 1, Len(Own(current)) - 1) = <<>>
    OBVIOUS
  <2>4. /\ pc' = [pc EXCEPT ![current] = "task"]
        /\ stack' = [stack EXCEPT ![current] = <<>>]
        /\ UNCHANGED <<current, elr, line>>
    BY <1>10, <2>1, <2>2, <2>3 DEF Eret, Goto, schedVars
  <2> QED
    BY <1>0, <2>1, <2>2, <2>4 DEF PromptInv, At
<1>11. CASE UNCHANGED vars
  BY <1>11 DEF vars, schedVars, cpuVars, PromptInv, At
<1> QED
  BY <1>1, <1>2, <1>3, <1>4, <1>5, <1>6, <1>7, <1>8, <1>9, <1>10, <1>11
     DEF Next, Boot, InterruptPath

\* As long as no tick comes within the interrupt path PromptInv holds.
THEOREM PromptInvariance == Spec => ([]PromptTick => []PromptInv)
<1>1. IndInv /\ PromptInv /\ PromptTick' /\ [Next]_vars => PromptInv'
  BY PromptInvStep
<1> QED
  BY <1>1, PromptInvInit, Invariance, PTL DEF Spec

\* schedule.c:89 does no harm as long as no tick comes within the interrupt path: the
\* eret of kernel_exit goes to the address that kernel_entry saved.
THEOREM PromptReturns == Spec => ReturnsWhenPrompt
<1>1. IndInv /\ PromptInv => ReturnsToInterrupted
  <2> SUFFICES ASSUME IndInv, PromptInv, At("eret") PROVE ReturnsToInterrupted
    BY DEF ReturnsToInterrupted
  <2>1. stack[current] = << <<current, "task">> >> /\ elr = <<current, "task">>
    BY DEF IndInv, TypeOK, SchedTypeOK, PromptInv, At
  <2> QED
    BY <2>1 DEF ReturnsToInterrupted
<1> QED
  BY <1>1, Invariance, PromptInvariance, PTL DEF ReturnsWhenPrompt

\* One frame at most is then on the stack that shares its page with the task_struct,
\* however many interrupts and switches there are.
THEOREM PromptStack == Spec => OneFrameWhenPrompt
<1>1. PromptInv => OneFrame
  <2> SUFFICES ASSUME PromptInv, NEW t \in Slots PROVE Len(stack[t]) <= 1
    BY DEF OneFrame
  <2>1. stack[t] = <<>> \/ stack[t] = << <<t, "task">> >>
    BY DEF PromptInv
  <2>2. Len(<<>>) = 0 /\ Len(<< <<t, "task">> >>) = 1
    OBVIOUS
  <2> QED
    BY <2>1, <2>2
<1> QED
  BY <1>1, PromptInvariance, PTL DEF OneFrameWhenPrompt
=============================================================================
