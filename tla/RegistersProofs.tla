-------------------------- MODULE RegistersProofs --------------------------
(***************************************************************************)
(* For any number of tasks and any page that their stacks fit in: a task   *)
(* finds its registers, flags, stack and place as it left them, whatever   *)
(* interrupts and switches came between.                                   *)
(***************************************************************************)
EXTENDS Registers, TLAPS

USE RegistersAssumption

-----------------------------------------------------------------------------
(* The inductive invariant *)

\* SP of t in do_irq(), and in schedule().
IrqSp(t) == TaskSp(t) - FrameSize
SwitchSp(t) == IrqSp(t) - CFrame

\* Its two words are where the code of t left them.
HasLocals(t) ==
  \A a \in {TaskSp(t), TaskSp(t) + 8} : Load(mem, a) = Locals(t, own[t])[a]

\* What the code of t had in register i, its flags at 31 and its address at 32.
Kept(t, v, i) ==
  IF i = 31 THEN Flags(t, v) ELSE IF i = 32 THEN Code(t, v) ELSE Value(t, i, v)

HasFrame(t) ==
  \A i \in 0 .. 32 : Load(mem, IrqSp(t) + InFrame(i)) = Kept(t, own[t], i)

HasNewContext(t) ==
  \A a \in DOMAIN NewContext(t) : Load(mem, a) = NewContext(t)[a]

HasContext(t) ==
  /\ Load(mem, FieldAt(t, 12)) = Address(SwitchSp(t))
  /\ Load(mem, FieldAt(t, 13)) = InSchedule

\* What is in memory for task t, by where it is.
InMemory(t) ==
  /\ pc[t] # "fork" => HasLocals(t)
  /\ pc[t] \in {"do_irq", "exit", "check", "switch", "resume", "back"} => HasFrame(t)
  /\ pc[t] = "fork" /\ t # running => HasNewContext(t)
  /\ pc[t] = "resume" => HasContext(t)

InRegisters(t) ==
  /\ pc[t] \in {"task", "entry"} =>
       (\A i \in X : x[i] = Value(t, i, own[t])) /\ sp = TaskSp(t)
  /\ pc[t] = "task" => ip = Code(t, own[t]) /\ psr = Flags(t, own[t])
  /\ pc[t] = "entry" => elr = Code(t, own[t]) /\ spsr = Flags(t, own[t])
  /\ pc[t] \in {"do_irq", "exit", "check"} => sp = IrqSp(t)
  /\ pc[t] \in {"switch", "back"} => sp = SwitchSp(t)
  /\ pc[t] = "switch" => x[30] = InSchedule
  /\ pc[t] = "fork" => sp = Page(t) + PAGE_SIZE /\ x[19] = Entry(t)

Inv ==
  /\ TypeOK
  /\ \A t \in Tasks \ {running} : pc[t] \in {"fork", "resume"}
  /\ pc[running] # "resume" /\ pc[1] # "fork"
  /\ \A t \in Tasks : InMemory(t)
  /\ InRegisters(running)

-----------------------------------------------------------------------------
(* Who has which addresses *)

\* Where t has words: its context, and what it uses of its stack.
ContextArea(t) == Page(t) .. Page(t) + 96
StackArea(t) == SwitchSp(t) .. StackTop(t) - 8
Area(t) == ContextArea(t) \cup StackArea(t)

\* A store to b does not reach the word at a.
Apart(a, b) == a < b - 7 \/ a > b + 7

LEMMA PageIs ==
  ASSUME NEW t \in Tasks
  PROVE  /\ Page(t) \in Nat /\ Page(t) >= PAGE_SIZE /\ StackTop(t) \in Nat
         /\ t = 1 => StackTop(t) = Page(1) /\ Page(1) = PAGE_SIZE
         /\ t # 1 => StackTop(t) = Page(t) + PAGE_SIZE /\ Page(t) >= Page(1) + PAGE_SIZE
         /\ TaskSp(t) = StackTop(t) - 16 /\ IrqSp(t) = StackTop(t) - 293
         /\ SwitchSp(t) = StackTop(t) - 293 - CFrame
         /\ StackTop(t) >= PAGE_SIZE
<1>1. t \in Nat /\ t >= 1 /\ 1 \in Tasks
  BY DEF Tasks
<1>2. Page(1) = PAGE_SIZE /\ Page(t) \in Nat /\ Page(t) >= PAGE_SIZE
  BY <1>1 DEF Page
<1>3. t # 1 => Page(t) >= Page(1) + PAGE_SIZE
  BY <1>1 DEF Page
<1> QED
  BY <1>2, <1>3 DEF StackTop, TaskSp, IrqSp, SwitchSp, FrameSize

LEMMA PagesApart ==
  ASSUME NEW t \in Tasks, NEW u \in Tasks, t < u
  PROVE  Page(u) >= Page(t) + PAGE_SIZE
<1>1. t \in Nat /\ u \in Nat /\ u >= t + 1
  BY DEF Tasks
<1>2. u * PAGE_SIZE >= (t + 1) * PAGE_SIZE
  BY <1>1
<1>3. (t + 1) * PAGE_SIZE = t * PAGE_SIZE + PAGE_SIZE
  BY <1>1
<1> QED
  BY <1>2, <1>3 DEF Page

\* No two tasks share a word, nor do a context and a stack.
LEMMA AreasApart ==
  ASSUME NEW t \in Tasks, NEW u \in Tasks, NEW a \in Area(t), NEW b \in Area(u),
         t # u \/ (a \in ContextArea(t) /\ b \in StackArea(u))
               \/ (a \in StackArea(t) /\ b \in ContextArea(u))
  PROVE  Apart(a, b)
<1>1. t \in Nat /\ u \in Nat /\ t >= 1 /\ u >= 1
  BY DEF Tasks
<1>2. ASSUME NEW s \in Tasks, NEW r \in Tasks, s < r
      PROVE  /\ Page(r) >= Page(s) + PAGE_SIZE /\ r # 1
             /\ StackTop(r) = Page(r) + PAGE_SIZE /\ StackTop(s) <= Page(s) + PAGE_SIZE
  <2>1. s \in Nat /\ r \in Nat /\ s >= 1 /\ r # 1
    BY <1>2 DEF Tasks
  <2> QED
    BY <1>2, <2>1, PageIs, PagesApart
<1>3. CASE t < u
  BY <1>2, <1>3, PageIs DEF Area, ContextArea, StackArea, Apart
<1>4. CASE u < t
  BY <1>2, <1>4, PageIs DEF Area, ContextArea, StackArea, Apart
<1>5. CASE t = u
  BY <1>5, PageIs DEF Area, ContextArea, StackArea, Apart
<1> QED
  BY <1>1, <1>3, <1>4, <1>5

-----------------------------------------------------------------------------
(* Memory *)

\* A word that no store reaches.
Clear(a, D) == \A b \in D : Apart(a, b)

LEMMA StoredIs ==
  ASSUME NEW m, NEW words, DOMAIN words \subseteq Nat, NEW a \in Nat
  PROVE  /\ a \in DOMAIN words => Load(Stored(m, words), a) = words[a]
         /\ Clear(a, DOMAIN words) => Load(Stored(m, words), a) = Load(m, a)
<1> DEFINE hit == UNION {b - 7 .. b + 7 : b \in DOMAIN words}
           D == (DOMAIN m \ hit) \cup DOMAIN words
<1>1. /\ DOMAIN Stored(m, words) = D
      /\ \A b \in D : Stored(m, words)[b] = IF b \in DOMAIN words THEN words[b] ELSE m[b]
  BY DEF Stored
<1>2. CASE a \in DOMAIN words
  <2>1. ~ Clear(a, DOMAIN words)
    BY <1>2 DEF Clear, Apart
  <2> QED
    BY <1>1, <1>2, <2>1 DEF Load
<1>3. CASE a \notin DOMAIN words /\ Clear(a, DOMAIN words)
  <2>1. a \notin hit
    BY <1>3 DEF Clear, Apart
  <2>2. a \in D <=> a \in DOMAIN m
    BY <1>3, <2>1
  <2> QED
    BY <1>1, <1>3, <2>2 DEF Load
<1> QED
  BY <1>2, <1>3

LEMMA UsedBelowIs ==
  ASSUME NEW m, NEW s, NEW a, a \notin s - CFrame .. s - 1
  PROVE  Load(UsedBelow(m, s), a) = Load(m, a)
BY DEF UsedBelow, Load

\* Where the words of a task are.
LEMMA Places ==
  ASSUME NEW t \in Tasks
  PROVE  /\ Area(t) \subseteq Nat
         /\ {TaskSp(t), TaskSp(t) + 8} \subseteq StackArea(t)
         /\ \A i \in 0 .. 32 : /\ IrqSp(t) + InFrame(i) \in StackArea(t)
                               /\ IrqSp(t) + InFrame(i) \in IrqSp(t) .. IrqSp(t) + 264
         /\ DOMAIN NewContext(t) \subseteq ContextArea(t)
         /\ FieldAt(t, 12) = Page(t) + 88 /\ FieldAt(t, 13) = Page(t) + 96
         /\ {FieldAt(t, 12), FieldAt(t, 13)} \subseteq ContextArea(t)
<1>1. \A i \in 0 .. 32 : InFrame(i) \in 0 .. 264
  BY DEF InFrame
<1>2. Area(t) \subseteq Nat
  BY PageIs DEF Area, ContextArea, StackArea
<1>3. {TaskSp(t), TaskSp(t) + 8} \subseteq StackArea(t)
  BY PageIs DEF StackArea
<1>4. \A i \in 0 .. 32 : IrqSp(t) + InFrame(i) \in IrqSp(t) .. IrqSp(t) + 264
  <2>1. \A k \in 0 .. 264 : IrqSp(t) + k \in IrqSp(t) .. IrqSp(t) + 264
    BY PageIs
  <2> QED
    BY <1>1, <2>1
<1>5. IrqSp(t) .. IrqSp(t) + 264 \subseteq StackArea(t)
  BY PageIs DEF StackArea
<1>6. \A f \in 1 .. 13 : FieldAt(t, f) \in ContextArea(t)
  BY PageIs DEF FieldAt, ContextArea
<1>7. DOMAIN NewContext(t) = {FieldAt(t, f) : f \in 1 .. 13}
  BY DEF NewContext
<1>8. FieldAt(t, 12) = Page(t) + 88 /\ FieldAt(t, 13) = Page(t) + 96
  BY DEF FieldAt
<1>9. {FieldAt(t, 12), FieldAt(t, 13)} \subseteq ContextArea(t)
  BY <1>6
<1> QED
  BY <1>2, <1>3, <1>4, <1>5, <1>6, <1>7, <1>8, <1>9

-----------------------------------------------------------------------------
(* A task that is not part of a step *)

Undisturbed(t) == \A a \in Area(t) : Load(mem, a)' = Load(mem, a)

LEMMA Untouched ==
  ASSUME NEW t \in Tasks, InMemory(t), Undisturbed(t), pc'[t] = pc[t], own'[t] = own[t],
         t # running
  PROVE  InMemory(t)'
<1>1. ContextArea(t) \subseteq Area(t) /\ StackArea(t) \subseteq Area(t)
  BY DEF Area
<1>2. HasLocals(t) => HasLocals(t)'
  BY <1>1, Places DEF HasLocals, Undisturbed
<1>3. HasFrame(t) => HasFrame(t)'
  BY <1>1, Places DEF HasFrame, Undisturbed
<1>4. HasNewContext(t) => HasNewContext(t)'
  BY <1>1, Places DEF HasNewContext, Undisturbed
<1>5. HasContext(t) => HasContext(t)'
  BY <1>1, Places DEF HasContext, Undisturbed
<1> QED
  BY <1>2, <1>3, <1>4, <1>5 DEF InMemory

\* Stores of task r leave the words of the others alone.
LEMMA StoredElsewhere ==
  ASSUME NEW r \in Tasks, NEW words, DOMAIN words \subseteq Area(r),
         mem' = Stored(mem, words), NEW t \in Tasks, t # r
  PROVE  Undisturbed(t)
<1> SUFFICES ASSUME NEW a \in Area(t)
             PROVE  Load(mem, a)' = Load(mem, a)
  BY DEF Undisturbed
<1>1. a \in Nat /\ DOMAIN words \subseteq Nat
  BY Places
<1>2. Clear(a, DOMAIN words)
  BY AreasApart DEF Clear
<1>3. Load(Stored(mem, words), a) = Load(mem, a)
  BY <1>1, <1>2, StoredIs
<1> QED
  BY <1>3 DEF Load

\* So does the C code that runs below its frame.
LEMMA UsedElsewhere ==
  ASSUME NEW r \in Tasks, mem' = UsedBelow(mem, IrqSp(r)), NEW t \in Tasks
  PROVE  /\ t # r => Undisturbed(t)
         /\ \A a : a \notin SwitchSp(r) .. IrqSp(r) - 1 => Load(mem, a)' = Load(mem, a)
<1>1. ASSUME NEW a, a \notin SwitchSp(r) .. IrqSp(r) - 1
      PROVE  Load(mem, a)' = Load(mem, a)
  <2>1. a \notin IrqSp(r) - CFrame .. IrqSp(r) - 1
    BY <1>1 DEF SwitchSp
  <2>2. Load(UsedBelow(mem, IrqSp(r)), a) = Load(mem, a)
    BY <2>1, UsedBelowIs
  <2> QED
    BY <2>2 DEF Load
<1>2. ASSUME t # r, NEW a \in Area(t)
      PROVE  a \notin SwitchSp(r) .. IrqSp(r) - 1
  <2> SUFFICES ASSUME a \in SwitchSp(r) .. IrqSp(r) - 1
               PROVE  FALSE
    OBVIOUS
  <2>1. a \in StackArea(r) /\ a \in Area(r) /\ a \in Nat
    BY PageIs, Places DEF StackArea, Area
  <2>2. Apart(a, a)
    BY <1>2, <2>1, AreasApart
  <2> QED
    BY <2>1, <2>2 DEF Apart
<1> QED
  BY <1>1, <1>2 DEF Undisturbed

-----------------------------------------------------------------------------
(* Every step *)

\* A step that leaves `running` and the other tasks alone.
LEMMA OthersStay ==
  ASSUME Inv, running' = running, \A t \in Tasks \ {running} : Undisturbed(t),
         NEW label \in {"task", "entry", "do_irq", "exit", "check", "switch", "back"},
         pc' = [pc EXCEPT ![running] = label],
         \A t \in Tasks \ {running} : own'[t] = own[t],
         own' \in [Tasks -> 0 .. 1], DOMAIN x' = X, sp' \in Nat,
         InMemory(running)', InRegisters(running)'
  PROVE  Inv'
<1>1. running \in Tasks /\ pc'[running] = label /\ \A t \in Tasks \ {running} : pc'[t] = pc[t]
  BY DEF Inv, TypeOK
<1>2. \A t \in Tasks \ {running} : InMemory(t)'
  BY <1>1, Untouched DEF Inv
<1>3. TypeOK'
  BY DEF Inv, TypeOK
<1>4. pc'[1] # "fork"
  BY <1>1 DEF Inv, Tasks
<1>5. InRegisters(running)' /\ InMemory(running)'
  OBVIOUS
<1>6. \A t \in Tasks : InMemory(t)'
  BY <1>2, <1>5
<1>7. \A t \in Tasks \ {running'} : pc'[t] \in {"fork", "resume"}
  BY <1>1 DEF Inv
<1> QED
  BY <1>1, <1>3, <1>4, <1>6, <1>7 DEF Inv

LEMMA StepTaskRuns ==
  ASSUME Inv, TaskRuns
  PROVE  Inv'
<1>1. PICK t, v : t = running /\ v = own'[running]
  OBVIOUS
<1>2. /\ t \in Tasks /\ pc[t] = "task" /\ running' = t /\ pc' = [pc EXCEPT ![running] = "task"]
      /\ own \in [Tasks -> 0 .. 1] /\ sp = TaskSp(t) /\ sp' = TaskSp(t)
  BY <1>1 DEF Inv, TypeOK, InRegisters, TaskRuns, At
<1>3. own' \in [Tasks -> 0 .. 1] /\ \A u \in Tasks \ {running} : own'[u] = own[u]
  BY <1>1, <1>2 DEF TaskRuns
<1>4. mem' = Stored(mem, Locals(t, v))
  BY <1>1 DEF TaskRuns
<1>5. DOMAIN Locals(t, v) = {TaskSp(t), TaskSp(t) + 8}
  BY DEF Locals
<1>6. DOMAIN Locals(t, v) \subseteq Area(t) /\ DOMAIN Locals(t, v) \subseteq Nat
  BY <1>2, <1>5, Places DEF Area
<1>7. \A u \in Tasks \ {running} : Undisturbed(u)
  BY <1>1, <1>2, <1>4, <1>6, StoredElsewhere
<1>8. HasLocals(t)'
  <2> SUFFICES ASSUME NEW a \in {TaskSp(t), TaskSp(t) + 8}
               PROVE  Load(mem, a)' = Locals(t, v)[a]
    BY <1>1, <1>2 DEF HasLocals
  <2>1. Load(Stored(mem, Locals(t, v)), a) = Locals(t, v)[a]
    BY <1>5, <1>6, StoredIs
  <2> QED
    BY <1>4, <2>1 DEF Load
<1>9. InMemory(t)'
  BY <1>2, <1>8 DEF InMemory
<1>10. InRegisters(t)'
  BY <1>1, <1>2 DEF InRegisters, TaskRuns
<1>11. DOMAIN x' = X /\ sp' \in Nat
  BY <1>2 DEF Inv, TypeOK, TaskRuns
<1> QED
  BY <1>1, <1>2, <1>3, <1>7, <1>9, <1>10, <1>11, OthersStay

LEMMA StepTakeInterrupt ==
  ASSUME Inv, TakeInterrupt
  PROVE  Inv'
<1>1. PICK t : t = running
  OBVIOUS
<1>2. /\ t \in Tasks /\ pc[t] = "task" /\ running' = t /\ pc' = [pc EXCEPT ![running] = "entry"]
      /\ own' = own /\ own \in [Tasks -> 0 .. 1] /\ mem' = mem
  BY <1>1 DEF Inv, TypeOK, TakeInterrupt, At, Goto
<1>3. InMemory(t) /\ InRegisters(t)
  BY <1>1, <1>2 DEF Inv
<1>4. \A u \in Tasks \ {running} : Undisturbed(u)
  BY <1>2 DEF Undisturbed, Load
<1>5. pc'[t] = "entry"
  BY <1>1, <1>2 DEF Inv, TypeOK
<1>6. InMemory(t)'
  BY <1>2, <1>3, <1>5 DEF InMemory, HasLocals, Load
<1>7. InRegisters(t)'
  BY <1>2, <1>3, <1>5 DEF InRegisters, TakeInterrupt
<1>8. DOMAIN x' = X /\ sp' \in Nat
  BY DEF Inv, TypeOK, TakeInterrupt
<1> QED
  BY <1>1, <1>2, <1>4, <1>6, <1>7, <1>8, OthersStay

\* No two registers have the same place in the frame.
LEMMA FrameIs ==
  ASSUME NEW s \in Nat
  PROVE  /\ \A i, j \in 0 .. 32 : s + InFrame(i) = s + InFrame(j) => i = j
         /\ \A i \in 0 .. 32 : s + InFrame(i) \in Nat /\ InFrame(i) \in 0 .. 264
<1>1. \A i \in 0 .. 32 : InFrame(i) = IF i <= 30 THEN 8 * i ELSE 8 * i + 8
  BY DEF InFrame
<1> QED
  BY <1>1

LEMMA StepKernelEntry ==
  ASSUME Inv, KernelEntry
  PROVE  Inv'
<1>1. PICK t : t = running
  OBVIOUS
<1>2. /\ t \in Tasks /\ pc[t] = "entry" /\ running' = t /\ pc' = [pc EXCEPT ![running] = "do_irq"]
      /\ own' = own /\ own \in [Tasks -> 0 .. 1] /\ pc'[t] = "do_irq"
  BY <1>1 DEF Inv, TypeOK, KernelEntry, At, Goto
<1>3. InMemory(t) /\ InRegisters(t)
  BY <1>1, <1>2 DEF Inv
<1>4. sp' = IrqSp(t) /\ sp' \in Nat
  BY <1>2, <1>3, PageIs DEF InRegisters, KernelEntry, IrqSp
<1>5. \A i \in 0 .. 32 : Saved(i) = Kept(t, own[t], i)
  BY <1>2, <1>3 DEF InRegisters, Saved, Kept, X
<1> DEFINE slots == {IrqSp(t) + InFrame(i) : i \in 0 .. 32}
           stores(s) == [a \in {s + InFrame(i) : i \in 0 .. 32} |->
                           Saved(CHOOSE i \in 0 .. 32 : a = s + InFrame(i))]
           words == stores(IrqSp(t))
<1>6. mem' = Stored(mem, words)
  <2>1. mem' = Stored(mem, stores(sp'))
    BY Zenon DEF KernelEntry
  <2> HIDE DEF stores
  <2> QED
    BY <1>4, <2>1
<1>7. /\ DOMAIN words = slots /\ slots \subseteq Area(t)
      /\ slots \subseteq Nat /\ DOMAIN words \subseteq Nat
  BY <1>2, Places DEF Area
<1>8. \A i \in 0 .. 32 : words[IrqSp(t) + InFrame(i)] = Kept(t, own[t], i)
  <2> SUFFICES ASSUME NEW i \in 0 .. 32
               PROVE  words[IrqSp(t) + InFrame(i)] = Kept(t, own[t], i)
    OBVIOUS
  <2>1. PICK j : j = CHOOSE k \in 0 .. 32 : IrqSp(t) + InFrame(i) = IrqSp(t) + InFrame(k)
    OBVIOUS
  <2>2. j \in 0 .. 32 /\ IrqSp(t) + InFrame(i) = IrqSp(t) + InFrame(j)
    BY <2>1
  <2>3. IrqSp(t) \in Nat
    BY <1>4
  <2>4. j = i
    BY <2>2, <2>3, FrameIs
  <2>5. words[IrqSp(t) + InFrame(i)] = Saved(j)
    BY <2>1
  <2> QED
    BY <1>5, <2>4, <2>5
<1> HIDE DEF slots, words
<1>9. \A u \in Tasks \ {running} : Undisturbed(u)
  BY <1>1, <1>2, <1>6, <1>7, StoredElsewhere
<1>10. HasFrame(t)'
  <2> SUFFICES ASSUME NEW i \in 0 .. 32
               PROVE  Load(mem, IrqSp(t) + InFrame(i))' = Kept(t, own[t], i)
    BY <1>2 DEF HasFrame
  <2>1. PICK a : a = IrqSp(t) + InFrame(i)
    OBVIOUS
  <2>2. a \in DOMAIN words /\ a \in Nat /\ DOMAIN words \subseteq Nat
    BY <1>7, <2>1 DEF slots
  <2>3. a \in DOMAIN words => Load(Stored(mem, words), a) = words[a]
    BY <2>2, StoredIs
  <2> QED
    BY <1>6, <1>8, <2>1, <2>2, <2>3 DEF Load
<1>11. HasLocals(t)'
  <2> SUFFICES ASSUME NEW a \in {TaskSp(t), TaskSp(t) + 8}
               PROVE  Load(mem, a)' = Locals(t, own[t])[a]
    BY <1>2 DEF HasLocals
  <2>1. a \in Nat /\ a >= IrqSp(t) + 277 /\ IrqSp(t) \in Nat
    BY <1>2, <1>4, PageIs
  <2>2. \A b \in slots : b \in IrqSp(t) .. IrqSp(t) + 264
    BY <1>2, Places DEF slots
  <2>3. Clear(a, DOMAIN words)
    <3>1. \A b \in slots : Apart(a, b)
      BY <2>1, <2>2 DEF Apart
    <3> QED
      BY <1>7, <3>1 DEF Clear
  <2>4. Load(Stored(mem, words), a) = Load(mem, a)
    BY <1>7, <2>1, <2>3, StoredIs
  <2>5. Load(mem, a) = Locals(t, own[t])[a]
    BY <1>2, <1>3 DEF InMemory, HasLocals
  <2> QED
    BY <1>6, <2>4, <2>5 DEF Load
<1>12. InMemory(t)'
  BY <1>2, <1>10, <1>11 DEF InMemory
<1>13. InRegisters(t)'
  BY <1>2, <1>4 DEF InRegisters
<1>14. DOMAIN x' = X
  BY DEF Inv, TypeOK, KernelEntry
<1> QED
  BY <1>1, <1>2, <1>4, <1>9, <1>12, <1>13, <1>14, OthersStay

\* C code below the frame leaves the frame and the words of the task's own alone.
LEMMA BelowFrame ==
  ASSUME NEW t \in Tasks, InMemory(t), mem' = UsedBelow(mem, IrqSp(t)), own'[t] = own[t],
         pc[t] \in {"do_irq", "back"}, pc'[t] \in {"exit", "check"}
  PROVE  InMemory(t)'
<1>1. IrqSp(t) \in Nat
  BY PageIs
<1>2. \A a : a \notin SwitchSp(t) .. IrqSp(t) - 1 => Load(mem, a)' = Load(mem, a)
  BY UsedElsewhere
<1>3. HasFrame(t)'
  <2> SUFFICES ASSUME NEW i \in 0 .. 32
               PROVE  Load(mem, IrqSp(t) + InFrame(i))' = Kept(t, own[t], i)
    BY DEF HasFrame
  <2>1. PICK a : a = IrqSp(t) + InFrame(i)
    OBVIOUS
  <2>2. a \in IrqSp(t) .. IrqSp(t) + 264
    BY <2>1, Places
  <2>3. a \notin SwitchSp(t) .. IrqSp(t) - 1
    BY <1>1, <2>2
  <2>4. Load(mem, a)' = Load(mem, a)
    BY <1>2, <2>3
  <2>5. Load(mem, a) = Kept(t, own[t], i)
    BY <2>1 DEF InMemory, HasFrame
  <2> QED
    BY <2>1, <2>4, <2>5 DEF Load
<1>4. HasLocals(t)'
  <2> SUFFICES ASSUME NEW a \in {TaskSp(t), TaskSp(t) + 8}
               PROVE  Load(mem, a)' = Locals(t, own[t])[a]
    BY DEF HasLocals
  <2>1. a \in Nat /\ a >= IrqSp(t)
    BY PageIs
  <2>2. a \notin SwitchSp(t) .. IrqSp(t) - 1
    BY <1>1, <2>1
  <2>3. Load(mem, a)' = Load(mem, a)
    BY <1>2, <2>2
  <2>4. Load(mem, a) = Locals(t, own[t])[a]
    BY DEF InMemory, HasLocals
  <2> QED
    BY <2>3, <2>4
<1> QED
  BY <1>3, <1>4 DEF InMemory

LEMMA StepDoIrq ==
  ASSUME Inv, DoIrq
  PROVE  Inv'
<1>1. PICK t : t = running
  OBVIOUS
<1>2. PICK label : label \in {"exit", "check"} /\ Goto(label)
  BY DEF DoIrq
<1>3. /\ t \in Tasks /\ pc[t] = "do_irq" /\ running' = t /\ pc' = [pc EXCEPT ![running] = label]
      /\ own' = own /\ own \in [Tasks -> 0 .. 1] /\ pc'[t] = label
  BY <1>1, <1>2 DEF Inv, TypeOK, DoIrq, At, Goto
<1>4. InMemory(t) /\ InRegisters(t)
  BY <1>1, <1>3 DEF Inv
<1>5. sp = IrqSp(t) /\ sp' = IrqSp(t) /\ IrqSp(t) \in Nat
  BY <1>3, <1>4, PageIs DEF InRegisters, DoIrq
<1>6. mem' = UsedBelow(mem, IrqSp(t))
  BY <1>5 DEF DoIrq
<1>7. \A u \in Tasks \ {running} : Undisturbed(u)
  BY <1>1, <1>3, <1>6, UsedElsewhere
<1>8. InMemory(t)'
  BY <1>2, <1>3, <1>4, <1>6, BelowFrame
<1>9. InRegisters(t)'
  BY <1>2, <1>3, <1>5 DEF InRegisters
<1>10. DOMAIN x' = X
  BY DEF DoIrq, Clobbered
<1> QED
  BY <1>1, <1>2, <1>3, <1>5, <1>7, <1>8, <1>9, <1>10, OthersStay

LEMMA StepKernelExit ==
  ASSUME Inv, KernelExit
  PROVE  Inv'
<1>1. PICK t : t = running
  OBVIOUS
<1>2. /\ t \in Tasks /\ pc[t] = "exit" /\ running' = t /\ pc' = [pc EXCEPT ![running] = "task"]
      /\ own' = own /\ own \in [Tasks -> 0 .. 1] /\ mem' = mem /\ pc'[t] = "task"
  BY <1>1 DEF Inv, TypeOK, KernelExit, At, Goto
<1>3. InMemory(t) /\ InRegisters(t)
  BY <1>1, <1>2 DEF Inv
<1>4. sp = IrqSp(t) /\ sp' = TaskSp(t) /\ TaskSp(t) \in Nat
  <2>1. sp = IrqSp(t) /\ sp' = sp + FrameSize
    BY <1>2, <1>3 DEF InRegisters, KernelExit
  <2> QED
    BY <1>2, <2>1, PageIs DEF FrameSize
<1>5. \A i \in 0 .. 32 : Load(mem, sp + InFrame(i)) = Kept(t, own[t], i)
  BY <1>2, <1>3, <1>4 DEF InMemory, HasFrame
<1>6. \A i \in X : x'[i] = Value(t, i, own[t])
  <2>1. \A i \in X : x'[i] = Load(mem, sp + InFrame(i))
    BY DEF KernelExit
  <2>2. \A i \in X : i \in 0 .. 32 /\ Kept(t, own[t], i) = Value(t, i, own[t])
    BY DEF X, Kept
  <2> QED
    BY <1>5, <2>1, <2>2
<1>7. psr' = Flags(t, own[t]) /\ ip' = Code(t, own[t])
  <2>1. psr' = Load(mem, sp + InFrame(31)) /\ ip' = Load(mem, sp + InFrame(32))
    BY DEF KernelExit
  <2> QED
    BY <1>5, <2>1 DEF Kept
<1>8. \A u \in Tasks \ {running} : Undisturbed(u)
  BY <1>2 DEF Undisturbed, Load
<1>9. InMemory(t)'
  BY <1>2, <1>3 DEF InMemory, HasLocals, Load
<1>10. InRegisters(t)'
  BY <1>2, <1>4, <1>6, <1>7 DEF InRegisters
<1>11. DOMAIN x' = X
  BY DEF KernelExit
<1> QED
  BY <1>1, <1>2, <1>4, <1>8, <1>9, <1>10, <1>11, OthersStay

LEMMA StepCallSwitch ==
  ASSUME Inv, CallSwitch
  PROVE  Inv'
<1>1. PICK t : t = running
  OBVIOUS
<1>2. /\ t \in Tasks /\ pc[t] = "check" /\ running' = t /\ pc' = [pc EXCEPT ![running] = "switch"]
      /\ own' = own /\ own \in [Tasks -> 0 .. 1] /\ pc'[t] = "switch"
  BY <1>1 DEF Inv, TypeOK, CallSwitch, At, Goto
<1>3. InMemory(t) /\ InRegisters(t)
  BY <1>1, <1>2 DEF Inv
<1>4. sp' = SwitchSp(t) /\ sp' \in Nat /\ IrqSp(t) = SwitchSp(t) + CFrame
  BY <1>2, <1>3, PageIs DEF InRegisters, CallSwitch, SwitchSp
<1> DEFINE slots == {SwitchSp(t) + 8 * (i - 19) : i \in 19 .. 30}
           stores(s) == [a \in {s + 8 * (i - 19) : i \in 19 .. 30} |->
                           x[(a - s) \div 8 + 19]]
           words == stores(SwitchSp(t))
<1>5. mem' = Stored(mem, words)
  <2>1. mem' = Stored(mem, stores(sp'))
    BY Zenon DEF CallSwitch
  <2> HIDE DEF stores
  <2> QED
    BY <1>4, <2>1
<1>6. \A a \in slots : a \in SwitchSp(t) .. SwitchSp(t) + 88
  BY <1>4
<1>7. /\ DOMAIN words = slots /\ slots \subseteq Area(t)
      /\ slots \subseteq Nat /\ DOMAIN words \subseteq Nat
  <2>1. SwitchSp(t) .. SwitchSp(t) + 88 \subseteq StackArea(t)
    BY <1>2, <1>4, PageIs DEF StackArea
  <2>2. slots \subseteq Area(t)
    BY <1>6, <2>1 DEF Area
  <2> QED
    BY <1>2, <2>2, Places
<1> HIDE DEF slots, words, stores
<1>8. \A u \in Tasks \ {running} : Undisturbed(u)
  BY <1>1, <1>2, <1>5, <1>7, StoredElsewhere
<1>9. ASSUME NEW a \in Nat, a >= IrqSp(t)
      PROVE  Load(mem, a)' = Load(mem, a)
  <2>1. \A b \in slots : Apart(a, b)
    BY <1>4, <1>6, <1>9 DEF Apart
  <2>2. Clear(a, DOMAIN words)
    BY <1>7, <2>1 DEF Clear
  <2>3. DOMAIN words \subseteq Nat
    BY <1>7
  <2>4. Clear(a, DOMAIN words) => Load(Stored(mem, words), a) = Load(mem, a)
    BY <2>3, StoredIs
  <2> QED
    BY <1>5, <2>2, <2>4 DEF Load
<1>10. HasFrame(t)'
  <2> SUFFICES ASSUME NEW i \in 0 .. 32
               PROVE  Load(mem, IrqSp(t) + InFrame(i))' = Kept(t, own[t], i)
    BY <1>2 DEF HasFrame
  <2>1. PICK a : a = IrqSp(t) + InFrame(i)
    OBVIOUS
  <2>2. a \in IrqSp(t) .. IrqSp(t) + 264
    BY <1>2, <2>1, Places
  <2>3. a \in Nat /\ a >= IrqSp(t)
    BY <1>4, <2>2
  <2>4. Load(mem, a)' = Load(mem, a)
    BY <1>9, <2>3
  <2>5. Load(mem, a) = Kept(t, own[t], i)
    BY <1>2, <1>3, <2>1 DEF InMemory, HasFrame
  <2> QED
    BY <2>1, <2>4, <2>5 DEF Load
<1>11. HasLocals(t)'
  <2> SUFFICES ASSUME NEW a \in {TaskSp(t), TaskSp(t) + 8}
               PROVE  Load(mem, a)' = Locals(t, own[t])[a]
    BY <1>2 DEF HasLocals
  <2>1. a \in Nat /\ a >= IrqSp(t)
    BY <1>2, PageIs
  <2>2. Load(mem, a)' = Load(mem, a)
    BY <1>9, <2>1
  <2>3. Load(mem, a) = Locals(t, own[t])[a]
    BY <1>2, <1>3 DEF InMemory, HasLocals
  <2> QED
    BY <2>2, <2>3
<1>12. InMemory(t)'
  BY <1>2, <1>10, <1>11 DEF InMemory
<1>13. x'[30] = InSchedule /\ DOMAIN x' = X
  BY DEF CallSwitch, X
<1>14. InRegisters(t)'
  BY <1>2, <1>4, <1>13 DEF InRegisters
<1> QED
  BY <1>1, <1>2, <1>4, <1>8, <1>12, <1>13, <1>14, OthersStay

LEMMA StepScheduleReturns ==
  ASSUME Inv, ScheduleReturns
  PROVE  Inv'
<1>1. PICK t : t = running
  OBVIOUS
<1>2. /\ t \in Tasks /\ pc[t] = "back" /\ running' = t /\ pc' = [pc EXCEPT ![running] = "exit"]
      /\ own' = own /\ own \in [Tasks -> 0 .. 1] /\ pc'[t] = "exit"
  BY <1>1 DEF Inv, TypeOK, ScheduleReturns, At, Goto
<1>3. InMemory(t) /\ InRegisters(t)
  BY <1>1, <1>2 DEF Inv
<1>4. sp + CFrame = IrqSp(t) /\ sp' = IrqSp(t) /\ IrqSp(t) \in Nat
  <2>1. sp = SwitchSp(t) /\ sp' = sp + CFrame
    BY <1>2, <1>3 DEF InRegisters, ScheduleReturns
  <2> QED
    BY <1>2, <2>1, PageIs DEF SwitchSp
<1>5. mem' = UsedBelow(mem, IrqSp(t))
  BY <1>4 DEF ScheduleReturns
<1>6. \A u \in Tasks \ {running} : Undisturbed(u)
  BY <1>1, <1>2, <1>5, UsedElsewhere
<1>7. InMemory(t)'
  BY <1>2, <1>3, <1>5, BelowFrame
<1>8. InRegisters(t)'
  BY <1>2, <1>4 DEF InRegisters
<1>9. DOMAIN x' = X
  BY DEF ScheduleReturns
<1> QED
  BY <1>1, <1>2, <1>4, <1>6, <1>7, <1>8, <1>9, OthersStay

LEMMA StepRetFromFork ==
  ASSUME Inv, RetFromFork
  PROVE  Inv'
<1>1. PICK t : t = running
  OBVIOUS
<1>2. /\ t \in Tasks /\ pc[t] = "fork" /\ running' = t /\ own' = own
      /\ own \in [Tasks -> 0 .. 1] /\ t # 1
  BY <1>1 DEF Inv, TypeOK, RetFromFork, At
<1>3. sp = Page(t) + PAGE_SIZE /\ x[19] = Entry(t)
  BY <1>1, <1>2 DEF Inv, InRegisters
<1>4. pc' = [pc EXCEPT ![running] = "task"] /\ pc'[t] = "task"
  BY <1>1, <1>2, <1>3 DEF Inv, TypeOK, RetFromFork, Goto
<1>5. sp' = TaskSp(t) /\ TaskSp(t) \in Nat
  <2>1. sp' = sp - 16
    BY DEF RetFromFork
  <2> QED
    BY <1>2, <1>3, <2>1, PageIs
<1> DEFINE words == Locals(t, own[t])
<1>6. mem' = Stored(mem, words)
  <2> DEFINE stores(s) == [a \in {s, s + 8} |-> <<"local", running, 2 * (a - s) + own[running]>>]
  <2>1. mem' = Stored(mem, stores(sp'))
    BY Zenon DEF RetFromFork
  <2>2. stores(TaskSp(t)) = words
    BY <1>1, Zenon DEF Locals
  <2> HIDE DEF stores
  <2> QED
    BY <1>5, <2>1, <2>2
<1>7. DOMAIN words = {TaskSp(t), TaskSp(t) + 8}
  BY DEF Locals
<1>8. DOMAIN words \subseteq Area(t) /\ DOMAIN words \subseteq Nat
  BY <1>2, <1>7, Places DEF Area
<1> HIDE DEF words
<1>9. \A u \in Tasks \ {running} : Undisturbed(u)
  BY <1>1, <1>2, <1>6, <1>8, StoredElsewhere
<1>10. HasLocals(t)'
  <2> SUFFICES ASSUME NEW a \in {TaskSp(t), TaskSp(t) + 8}
               PROVE  Load(mem, a)' = words[a]
    BY <1>2 DEF HasLocals, words
  <2>1. Load(Stored(mem, words), a) = words[a]
    BY <1>7, <1>8, StoredIs
  <2> QED
    BY <1>6, <2>1 DEF Load
<1>11. InMemory(t)'
  BY <1>4, <1>10 DEF InMemory
<1>12. InRegisters(t)'
  BY <1>1, <1>2, <1>4, <1>5 DEF InRegisters, RetFromFork
<1>13. DOMAIN x' = X
  BY DEF RetFromFork
<1> QED
  BY <1>1, <1>2, <1>4, <1>5, <1>9, <1>11, <1>12, <1>13, OthersStay

\* What cpu_switch_to finds where create_task() laid out a context.
LEMMA NewContextIs ==
  ASSUME NEW t \in Tasks
  PROVE  /\ {FieldAt(t, 1), FieldAt(t, 12), FieldAt(t, 13)} \subseteq DOMAIN NewContext(t)
         /\ NewContext(t)[FieldAt(t, 12)] = Address(Page(t) + PAGE_SIZE)
         /\ NewContext(t)[FieldAt(t, 13)] = RET_FROM_FORK
         /\ t # 1 => NewContext(t)[FieldAt(t, 1)] = Entry(t)
<1>1. \A f \in 1 .. 13 : (FieldAt(t, f) - Page(t)) \div 8 + 1 = f
  BY PageIs DEF FieldAt
<1>2. \A f \in 1 .. 13 :
        /\ FieldAt(t, f) \in DOMAIN NewContext(t)
        /\ NewContext(t)[FieldAt(t, f)] =
             LET field == cpu_context[f]
             IN CASE field = "sp"  -> Address(Page(t) + PAGE_SIZE)
                  [] field = "pc"  -> RET_FROM_FORK
                  [] field = "x19" -> IF t = 1 THEN Zero ELSE Entry(t)
                  [] OTHER -> Zero
  BY <1>1 DEF NewContext
<1>3. cpu_context[1] = "x19" /\ cpu_context[12] = "sp" /\ cpu_context[13] = "pc"
  BY DEF cpu_context
<1> QED
  BY <1>2, <1>3

\* cpu_switch_to writes the context of the task that it leaves...
LEMMA ContextStored ==
  ASSUME Inv, NEW t \in Tasks, NEW words, mem' = Stored(mem, words),
         DOMAIN words = {Page(t) + InContext(i) : i \in 19 .. 31},
         \A i \in 19 .. 31 :
           words[Page(t) + InContext(i)] = IF i = 31 THEN Address(SwitchSp(t)) ELSE x[i],
         x[30] = InSchedule
  PROVE  /\ HasContext(t)'
         /\ \A a \in StackArea(t) : Load(mem, a)' = Load(mem, a)
         /\ \A u \in Tasks \ {t} : Undisturbed(u)
<1>1. \A i \in 19 .. 31 : InContext(i) \in 0 .. 96
  BY DEF InContext
<1>2. DOMAIN words \subseteq ContextArea(t)
  <2>1. \A k \in 0 .. 96 : Page(t) + k \in ContextArea(t)
    BY PageIs DEF ContextArea
  <2> QED
    BY <1>1, <2>1
<1>3. DOMAIN words \subseteq Area(t) /\ DOMAIN words \subseteq Nat
  BY <1>2, Places DEF Area
<1>4. \A u \in Tasks \ {t} : Undisturbed(u)
  BY <1>3, StoredElsewhere
<1>5. ASSUME NEW a \in StackArea(t)
      PROVE  Load(mem, a)' = Load(mem, a)
  <2>1. a \in Area(t) /\ a \in Nat
    BY <1>5, Places DEF Area
  <2>2. Clear(a, DOMAIN words)
    BY <1>2, <1>3, <2>1, AreasApart DEF Clear
  <2>3. Clear(a, DOMAIN words) => Load(Stored(mem, words), a) = Load(mem, a)
    BY <1>3, <2>1, StoredIs
  <2> QED
    BY <2>2, <2>3 DEF Load
<1>6. ASSUME NEW a \in DOMAIN words
      PROVE  Load(mem, a)' = words[a]
  <2>1. a \in Nat
    BY <1>3
  <2>2. a \in DOMAIN words => Load(Stored(mem, words), a) = words[a]
    BY <1>3, <2>1, StoredIs
  <2> QED
    BY <2>2 DEF Load
<1>7. FieldAt(t, 12) = Page(t) + InContext(31) /\ FieldAt(t, 13) = Page(t) + InContext(30)
  BY Places DEF InContext
<1>8. FieldAt(t, 12) \in DOMAIN words /\ FieldAt(t, 13) \in DOMAIN words
  BY <1>7
<1>9. words[FieldAt(t, 12)] = Address(SwitchSp(t)) /\ words[FieldAt(t, 13)] = InSchedule
  BY <1>7
<1>10. HasContext(t)'
  BY <1>6, <1>8, <1>9 DEF HasContext
<1> QED
  BY <1>4, <1>5, <1>10

\* ...and loads that of the next one, which began or was switched from.
LEMMA ContextLoaded ==
  ASSUME Inv, NEW t \in Tasks \ {running}, Undisturbed(t)
  PROVE  LET context(i) == Load(mem, Page(t) + InContext(i))'
         IN \/ /\ pc[t] = "fork" /\ t # 1
               /\ context(19) = Entry(t) /\ context(30) = RET_FROM_FORK
               /\ context(31) = Address(Page(t) + PAGE_SIZE)
            \/ /\ pc[t] = "resume"
               /\ context(30) = InSchedule /\ context(31) = Address(SwitchSp(t))
<1> DEFINE context(i) == Load(mem, Page(t) + InContext(i))'
<1>1. t \in Tasks /\ t # running /\ pc[t] \in {"fork", "resume"} /\ InMemory(t) /\ pc[1] # "fork"
  BY DEF Inv
<1>2. \A a \in ContextArea(t) : Load(mem, a)' = Load(mem, a)
  BY DEF Undisturbed, Area
<1>3. /\ Page(t) + InContext(19) = FieldAt(t, 1)
      /\ Page(t) + InContext(30) = FieldAt(t, 13) /\ Page(t) + InContext(31) = FieldAt(t, 12)
  BY <1>1, Places DEF InContext, FieldAt
<1>4. {FieldAt(t, 1), FieldAt(t, 12), FieldAt(t, 13)} \subseteq ContextArea(t)
  BY <1>1, Places, NewContextIs
<1>5. /\ context(19) = Load(mem, FieldAt(t, 1))
      /\ context(30) = Load(mem, FieldAt(t, 13)) /\ context(31) = Load(mem, FieldAt(t, 12))
  BY <1>2, <1>3, <1>4 DEF Load
<1> HIDE DEF context
<1>6. CASE pc[t] = "fork"
  <2>1. HasNewContext(t) /\ t # 1
    BY <1>1, <1>6 DEF InMemory
  <2>2. /\ Load(mem, FieldAt(t, 1)) = NewContext(t)[FieldAt(t, 1)]
        /\ Load(mem, FieldAt(t, 12)) = NewContext(t)[FieldAt(t, 12)]
        /\ Load(mem, FieldAt(t, 13)) = NewContext(t)[FieldAt(t, 13)]
    BY <1>1, <2>1, NewContextIs DEF HasNewContext
  <2>3. /\ context(19) = Entry(t) /\ context(30) = RET_FROM_FORK
        /\ context(31) = Address(Page(t) + PAGE_SIZE)
    BY <1>1, <1>5, <2>1, <2>2, NewContextIs
  <2> QED
    BY <1>6, <2>1, <2>3 DEF context
<1>7. CASE pc[t] = "resume"
  <2>1. HasContext(t)
    BY <1>1, <1>7 DEF InMemory
  <2>2. context(30) = InSchedule /\ context(31) = Address(SwitchSp(t))
    BY <1>5, <2>1 DEF HasContext
  <2> QED
    BY <1>7, <2>2 DEF context
<1> QED
  BY <1>1, <1>6, <1>7

LEMMA StepCpuSwitchTo ==
  ASSUME Inv, CpuSwitchTo
  PROVE  Inv'
<1>1. PICK t : t = running
  OBVIOUS
<1>2. /\ t \in Tasks /\ pc[t] = "switch" /\ own' = own /\ own \in [Tasks -> 0 .. 1]
      /\ sp = SwitchSp(t) /\ x[30] = InSchedule
  BY <1>1 DEF Inv, TypeOK, CpuSwitchTo, At, InRegisters
<1> DEFINE words == [a \in {Page(running) + InContext(i) : i \in 19 .. 31} |->
                LET i == CHOOSE i \in 19 .. 31 : a = Page(running) + InContext(i)
                IN IF i = 31 THEN Address(sp) ELSE x[i]]
           context(n, i) == Load(Stored(mem, words), Page(n) + InContext(i))
<1>3. PICK n \in Tasks \ {running} :
        /\ mem' = Stored(mem, words)
        /\ x' = [i \in X |-> IF i \in 19 .. 30 THEN context(n, i) ELSE
                             IF i = 9 THEN context(n, 31) ELSE x[i]]
        /\ sp' = context(n, 31)[2]
        /\ running' = n
        /\ pc' = [pc EXCEPT ![running] = "resume",
                            ![n] = IF x'[30] = RET_FROM_FORK THEN "fork" ELSE
                                   IF x'[30] = InSchedule THEN "back" ELSE "wild"]
  BY Zenon DEF CpuSwitchTo
<1>4. \A i \in 19 .. 31 :
        words[Page(t) + InContext(i)] = IF i = 31 THEN Address(SwitchSp(t)) ELSE x[i]
  <2> SUFFICES ASSUME NEW i \in 19 .. 31
               PROVE  words[Page(t) + InContext(i)] = IF i = 31 THEN Address(sp) ELSE x[i]
    BY <1>2
  <2>1. PICK j : j = CHOOSE k \in 19 .. 31 : Page(t) + InContext(i) = Page(t) + InContext(k)
    OBVIOUS
  <2>2. j \in 19 .. 31 /\ Page(t) + InContext(i) = Page(t) + InContext(j)
    BY <2>1
  <2>3. j = i
    BY <1>2, <2>2, PageIs DEF InContext
  <2>4. words[Page(t) + InContext(i)] = IF j = 31 THEN Address(sp) ELSE x[j]
    BY <1>1, <2>1
  <2> QED
    BY <2>3, <2>4
<1>5. DOMAIN words = {Page(t) + InContext(i) : i \in 19 .. 31}
  BY <1>1
<1> HIDE DEF words
<1>6. /\ HasContext(t)'
      /\ \A a \in StackArea(t) : Load(mem, a)' = Load(mem, a)
      /\ \A u \in Tasks \ {t} : Undisturbed(u)
  BY <1>2, <1>3, <1>4, <1>5, ContextStored
<1>7. \A i : context(n, i) = Load(mem, Page(n) + InContext(i))'
  BY <1>3 DEF Load
<1> HIDE DEF context
<1>8. n \in Tasks /\ n # t /\ running' = n
  BY <1>1, <1>3
<1>9. \/ /\ pc[n] = "fork" /\ n # 1
         /\ context(n, 19) = Entry(n) /\ context(n, 30) = RET_FROM_FORK
         /\ context(n, 31) = Address(Page(n) + PAGE_SIZE)
      \/ /\ pc[n] = "resume"
         /\ context(n, 30) = InSchedule /\ context(n, 31) = Address(SwitchSp(n))
  BY <1>1, <1>6, <1>7, <1>8, ContextLoaded
<1>10. x'[30] = context(n, 30) /\ x'[19] = context(n, 19) /\ DOMAIN x' = X
  BY <1>3 DEF X
<1>11. sp' = context(n, 31)[2]
  BY <1>3
<1>12. /\ pc' \in [Tasks -> {"fork", "back", "resume", "task", "entry", "do_irq", "exit",
                              "check", "switch"}]
       /\ pc'[t] = "resume" /\ \A u \in Tasks \ {t, n} : pc'[u] = pc[u]
       /\ pc'[n] = IF pc[n] = "fork" THEN "fork" ELSE "back"
  <2>1. pc'[n] = IF x'[30] = RET_FROM_FORK THEN "fork" ELSE
                 IF x'[30] = InSchedule THEN "back" ELSE "wild"
    BY <1>1, <1>2, <1>3, <1>8 DEF Inv, TypeOK
  <2>2. InSchedule # RET_FROM_FORK
    BY DEF InSchedule, RET_FROM_FORK
  <2>3. pc'[n] = IF pc[n] = "fork" THEN "fork" ELSE "back"
    BY <1>9, <1>10, <2>1, <2>2
  <2>4. /\ pc \in [Tasks -> {"fork", "task", "entry", "do_irq", "exit", "check",
                             "switch", "resume", "back"}]
        /\ \E w : pc' = [pc EXCEPT ![t] = "resume", ![n] = w]
    BY <1>1, <1>3 DEF Inv, TypeOK
  <2> QED
    BY <1>2, <1>8, <2>3, <2>4
<1>13. sp' \in Nat /\ sp' = IF pc[n] = "fork" THEN Page(n) + PAGE_SIZE ELSE SwitchSp(n)
  <2>1. \A a : Address(a)[2] = a
    BY DEF Address
  <2> QED
    BY <1>8, <1>9, <1>11, <2>1, PageIs
<1>14. InMemory(t)'
  <2>1. HasLocals(t) /\ HasFrame(t)
    BY <1>1, <1>2 DEF Inv, InMemory
  <2>2. HasLocals(t)'
    BY <1>2, <1>6, <2>1, Places DEF HasLocals
  <2>3. HasFrame(t)'
    BY <1>2, <1>6, <2>1, Places DEF HasFrame
  <2> QED
    BY <1>6, <1>8, <1>12, <2>2, <2>3 DEF InMemory
<1>15. InMemory(n)'
  <2>1. InMemory(n) /\ pc[n] \in {"fork", "resume"} /\ Undisturbed(n)
    BY <1>1, <1>6, <1>8 DEF Inv
  <2>2. CASE pc[n] = "fork"
    BY <1>8, <1>12, <2>2 DEF InMemory
  <2>3. CASE pc[n] = "resume"
    <3>1. HasLocals(n) /\ HasFrame(n)
      BY <2>1, <2>3 DEF InMemory
    <3>2. StackArea(n) \subseteq Area(n)
      BY DEF Area
    <3>3. HasLocals(n)'
      BY <1>2, <1>8, <2>1, <3>1, <3>2, Places DEF HasLocals, Undisturbed
    <3>4. HasFrame(n)'
      BY <1>2, <1>8, <2>1, <3>1, <3>2, Places DEF HasFrame, Undisturbed
    <3> QED
      BY <1>12, <2>3, <3>3, <3>4 DEF InMemory
  <2> QED
    BY <2>1, <2>2, <2>3
<1>16. \A u \in Tasks : InMemory(u)'
  <2>1. ASSUME NEW u \in Tasks \ {t, n}
        PROVE  InMemory(u)'
    <3>1. u \in Tasks /\ u # running /\ InMemory(u) /\ Undisturbed(u)
      BY <1>1, <1>6 DEF Inv
    <3>2. pc'[u] = pc[u] /\ own'[u] = own[u]
      BY <1>2, <1>12
    <3> QED
      BY <3>1, <3>2, Untouched
  <2> QED
    BY <1>14, <1>15, <2>1
<1>17. InRegisters(n)'
  BY <1>8, <1>9, <1>10, <1>12, <1>13 DEF InRegisters
<1>18. TypeOK'
  BY <1>2, <1>8, <1>10, <1>12, <1>13 DEF TypeOK
<1>19. \A u \in Tasks \ {n} : pc'[u] \in {"fork", "resume"}
  BY <1>1, <1>8, <1>12 DEF Inv
<1>20. pc'[n] # "resume" /\ pc'[1] # "fork"
  BY <1>1, <1>8, <1>9, <1>12 DEF Inv, Tasks
<1> QED
  BY <1>8, <1>16, <1>17, <1>18, <1>19, <1>20 DEF Inv

LEMMA InvInit ==
  ASSUME Init
  PROVE  Inv
<1>1. 1 \in Tasks
  BY DEF Tasks
<1>2. /\ running = 1 /\ own = [t \in Tasks |-> 0]
      /\ pc = [t \in Tasks |-> IF t = 1 THEN "task" ELSE "fork"]
  BY DEF Init
<1> DEFINE contexts == UNION {DOMAIN NewContext(t) : t \in Tasks}
           chosen(a) == CHOOSE t \in Tasks : a \in DOMAIN NewContext(t)
<1>3. mem = [a \in DOMAIN Locals(1, 0) \cup contexts |->
               IF a \in DOMAIN Locals(1, 0) THEN Locals(1, 0)[a]
               ELSE NewContext(chosen(a))[a]]
  BY Zenon DEF Init
<1>4. DOMAIN Locals(1, 0) = {TaskSp(1), TaskSp(1) + 8}
  BY DEF Locals
<1>5. HasLocals(1)
  <2>1. own[1] = 0
    BY <1>1, <1>2
  <2> QED
    BY <1>3, <1>4, <2>1 DEF HasLocals, Load
<1>6. ASSUME NEW t \in Tasks, t # 1
      PROVE  HasNewContext(t)
  <2> SUFFICES ASSUME NEW a \in DOMAIN NewContext(t)
               PROVE  Load(mem, a) = NewContext(t)[a]
    BY DEF HasNewContext
  <2>1. a \in Area(t) /\ a \in Nat
    BY Places DEF Area
  <2>2. \A u \in Tasks \ {t} : a \notin Area(u)
    <3> SUFFICES ASSUME NEW u \in Tasks, u # t, a \in Area(u)
                 PROVE  FALSE
      OBVIOUS
    <3>1. Apart(a, a)
      BY <2>1, AreasApart
    <3> QED
      BY <2>1, <3>1 DEF Apart
  <2>3. a \notin DOMAIN Locals(1, 0)
    BY <1>1, <1>4, <1>6, <2>2, Places DEF Area
  <2>4. \A u \in Tasks : a \in DOMAIN NewContext(u) => u = t
    BY <2>2, Places DEF Area
  <2>5. chosen(a) = t
    BY <2>4
  <2>6. a \in contexts
    OBVIOUS
  <2> HIDE DEF chosen, contexts
  <2> QED
    BY <1>3, <2>3, <2>5, <2>6 DEF Load
<1> HIDE DEF contexts, chosen
<1>7. \A t \in Tasks : InMemory(t)
  <2> SUFFICES ASSUME NEW t \in Tasks
               PROVE  InMemory(t)
    OBVIOUS
  <2>1. CASE t = 1
    BY <1>1, <1>2, <1>5, <2>1 DEF InMemory
  <2>2. CASE t # 1
    BY <1>2, <1>6, <2>2 DEF InMemory
  <2> QED
    BY <2>1, <2>2
<1>8. TaskSp(1) \in Nat
  BY <1>1, PageIs
<1>9. TypeOK
  BY <1>1, <1>2, <1>8 DEF Init, TypeOK
<1>10. InRegisters(1)
  BY <1>1, <1>2 DEF Init, InRegisters
<1> QED
  BY <1>1, <1>2, <1>7, <1>9, <1>10 DEF Inv

LEMMA InvStep ==
  ASSUME Inv, [Next]_vars
  PROVE  Inv'
<1>1. CASE UNCHANGED vars
  BY <1>1 DEF vars, Inv, TypeOK, InMemory, HasLocals, HasFrame, HasNewContext, HasContext,
              InRegisters, Load
<1>2. CASE Next
  BY <1>2, StepTaskRuns, StepTakeInterrupt, StepKernelEntry, StepDoIrq, StepKernelExit,
     StepCallSwitch, StepCpuSwitchTo, StepScheduleReturns, StepRetFromFork DEF Next
<1> QED
  BY <1>1, <1>2

-----------------------------------------------------------------------------
(* The theorems *)

\* What each task has in its registers, on its stack, in its frame and in its context,
\* by how far exception.S and switch.S have come with it.
THEOREM Invariance == Spec => []Inv
<1>1. Init => Inv
  BY InvInit
<1>2. Inv /\ [Next]_vars => Inv'
  BY InvStep
<1> QED
  BY <1>1, <1>2, PTL DEF Spec

\* ret_from_fork finds the entry of its task and cpu_switch_to an address to go on at
\* that this code put there: nothing leads out of the program, and SP is an address.
THEOREM TypeCorrect == Spec => []TypeOK
<1>1. Inv => TypeOK
  BY DEF Inv
<1> QED
  BY <1>1, Invariance, PTL

\* A task that goes on behind kernel_exit has the registers, flags, SP, stack and
\* program counter with which the interrupt came upon it.
THEOREM StateRestored == Spec => []FindsItsState
<1>1. Inv => FindsItsState
  <2> SUFFICES ASSUME Inv, At("task")
               PROVE  /\ \A i \in X : x[i] = Value(running, i, own[running])
                      /\ ip = Code(running, own[running])
                      /\ psr = Flags(running, own[running])
                      /\ sp = TaskSp(running)
                      /\ \A a \in DOMAIN Locals(running, 0) :
                           Load(mem, a) = Locals(running, own[running])[a]
    BY DEF FindsItsState
  <2>1. running \in Tasks /\ pc[running] = "task" /\ InRegisters(running) /\ InMemory(running)
    BY DEF Inv, TypeOK, At
  <2>2. DOMAIN Locals(running, 0) = {TaskSp(running), TaskSp(running) + 8}
    BY DEF Locals
  <2>3. HasLocals(running)
    BY <2>1 DEF InMemory
  <2>4. \A a \in DOMAIN Locals(running, 0) :
          Load(mem, a) = Locals(running, own[running])[a]
    BY <2>2, <2>3 DEF HasLocals
  <2> QED
    BY <2>1, <2>4 DEF InRegisters
<1> QED
  BY <1>1, Invariance, PTL

\* While others run, a task that waits for cpu_switch_to has the context and the frame
\* that it needs to go on, whoever runs on the pages beside its own.
THEOREM SuspendedKept == Spec => []SuspendedIsKept
<1>1. Inv => SuspendedIsKept
  <2> SUFFICES ASSUME Inv, NEW t \in Tasks \ {running}
               PROVE  IF pc[t] = "fork"
                      THEN \A a \in DOMAIN NewContext(t) : Load(mem, a) = NewContext(t)[a]
                      ELSE /\ Load(mem, FieldAt(t, 13)) = InSchedule
                           /\ LET frame == Load(mem, FieldAt(t, 12))[2] + CFrame
                              IN /\ frame = TaskSp(t) - FrameSize
                                 /\ Load(mem, frame + InFrame(32)) = Code(t, own[t])
    BY DEF SuspendedIsKept
  <2>1. t \in Tasks /\ t # running /\ InMemory(t) /\ pc[t] \in {"fork", "resume"}
    BY DEF Inv
  <2>2. CASE pc[t] = "fork"
    BY <2>1, <2>2 DEF InMemory, HasNewContext
  <2>3. CASE pc[t] = "resume"
    <3>1. HasContext(t) /\ HasFrame(t)
      BY <2>1, <2>3 DEF InMemory
    <3>2. Load(mem, FieldAt(t, 12))[2] + CFrame = IrqSp(t)
      <4>1. Load(mem, FieldAt(t, 12))[2] = SwitchSp(t)
        BY <3>1 DEF HasContext, Address
      <4> QED
        BY <2>1, <4>1, PageIs DEF SwitchSp
    <3>3. Load(mem, IrqSp(t) + InFrame(32)) = Code(t, own[t])
      BY <3>1 DEF HasFrame, Kept
    <3> QED
      BY <2>3, <3>1, <3>2, <3>3 DEF HasContext, IrqSp
  <2> QED
    BY <2>1, <2>2, <2>3
<1> QED
  BY <1>1, Invariance, PTL
=============================================================================
