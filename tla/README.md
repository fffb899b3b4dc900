# TLA+ models of aarch64-os-from-scratch

The kernel boots on one core of QEMU's `virt` board, builds its page tables,
sets up a GICv3 and the ARM timer and switches between three tasks on timer
ticks. These modules model it from its source; TLC checks small instances, and
TLAPS proves every safety property that a passing run checks, and every refinement,
for all values of the constants. Liveness is model-checked.

## The system

| component | state | operations | hard because |
|---|---|---|---|
| tasks and scheduler (`task.c`, `schedule.c`) | `task[]`, `current`, counter and flags of each task | `create_task`, `scheduler_tick`, `check_resched`, `schedule` | unsigned counters, a flag cleared before it is acted on, a recharge that must not disturb the order |
| interrupt path (`exception.S`, `switch.S`, `arm_timer.c`) | PSTATE, ELR, the frames and contexts of each task | `kernel_entry`, `do_irq`, `cpu_switch_to`, `ret_from_fork`, `kernel_exit` | interrupts unmasked on the way out, frames of several tasks in flight, thirty offsets that must agree |
| interrupt dispatch (`irq.c`) | `irq_desc_list` | `request_irq`, `enable_irq`, `disable_irq`, `do_irq` | the interrupt comes between a driver's steps, or is gone when it is read |
| interrupt controller (`gicv3.c`) | GIC registers | init, mask, unmask, set_type, EOI | whatever firmware left, words and bits computed from an INTID |
| page allocator (`pmm.c`) | a list in the free pages | init, get, free | a page in two hands destroys the list or a page table |
| page tables (`vmm.c`, `mmu.S`, `boot.S`) | four-level tables, TTBR0, TTBR1, TLB | `create_mapping`, `setup_page_tables`, `ioremap`, the switch | the code runs through the tables it changes, pages run out in mid-walk |
| kernel heap (`free_list.c`) | a sorted list in one page | init, malloc, free | splitting, merging in two directions, fragmentation |
| queues (`queue.c`) | rings of pointers | push, pop, remove, insert | half-linked elements, queues not initialised |
| console (`uart.c`, `printk.c`) | the UART's FIFO and base | `printk`, `uart_putc`, `uart_ioremap` | tasks and the tick print at once without a lock; unmapped for a while at boot |
| spin lock (`spinlock.h`) | one word, the mask | lock, unlock | unlock always unmasks, the word is never read; no caller |

Interaction: the timer's interrupt enters through the vector, `do_irq` calls
`timer_handler`, which calls `scheduler_tick`, which prints once a second; on
the way out `check_resched` may switch tasks. `kernel_main` calls everything
else once, with interrupts masked. Pages go from `pmm` to page tables, task
structures and the heap.

What must be true of each: a task gets whole turns in order, is resumed only
where it was suspended and finds its registers and stack as it left them; an
interrupt returns to where it came from, is handled with a complete descriptor
and is ended; the driver's stores do to the controller what dispatch relies on;
every page has one owner; what is mapped stays mapped, RAM always and the
console whenever the kernel prints; heap blocks tile their page; queues are
FIFO; a printed line is whole; a lock's sections are atomic.

## Modules

| module | models | state |
|---|---|---|
| `RoundRobin` | what the scheduler promises (abstract) | turn, ticks left |
| `Scheduler` | `task.c`, `schedule.c` | task table; slot i is `task[i - 1]`, `NULL` is 0 |
| `Kernel` (extends `Scheduler`) | `kernel_main` from `task_init` on, the interrupt path | `pc` and frames per task, ELR, masking, the timer's line |
| `Registers` | `exception.S`, `switch.S`, `struct cpu_context` and the context `create_task` writes, store by store | x0 to x30, SP, ELR, SPSR, memory by byte address |
| `Heap`, `FreeList` | kmalloc: what it promises, what it does | headers by address |
| `Fifo`, `Queue` | queues: what they promise, what they do | `p_prev`, `p_next` |
| `Pmm` | `pmm.c` | the words of every free page, the list's root |
| `AddressSpace` | what the page tables promise (abstract) | a map of pages |
| `Vmm` (extends `Pmm`) | `vmm.c`, `mmu.S`, boot's tables, `uart_ioremap` | the tables are in `Pmm`'s pages; registers, TLB |
| `MCVmm` | values for `Vmm`'s constants | |
| `Gic` | `gicv3.c` and the controller it programs, by INTID | sets of INTIDs, one for each kind of bit |
| `Irq` (extends `Gic`) | `irq.c`, drivers, devices, the path through `do_irq` | descriptors, where driver and CPU are |
| `GicTrigger` | `gicv3_irq_set_type` | ICFGR registers as sets of bits |
| `GicRegisters` (extends `GicTrigger`) | `gicv3.c` store by store: addresses, loops, the controller's answer | `Gic`'s state, the loop variable, the last stores |
| `Console` | `printk.c`, `uart.c` and their callers: `kernel_main`, two tasks, the tick | what each caller has still to put, what has gone out, the FIFO's room; `RoundRobin` for whose turn it is |
| `SpinLock`, `LockClients` | `spinlock.h`; tasks that use it | mask and words; where each task is in a section, what it read |
| `KernelProofs`, `RegistersProofs`, `FreeListProofs`, `VmmProofs`, `IrqProofs`, `GicRegistersProofs`, `ConsoleProofs` | theorems about the module each is named after | |
| `LibraryProofs` | theorems about what has no caller yet: `Queue` and `LockClients` | |

Operators carry the names of the functions they model. Names with an underscore
and a suffix (`SwitchTask_PrevIsNext`) are what the definition without it would
be with a plausible bug; no specification uses them, and they show that a
property can fail. `TypeOK` of each module says what its variables range over;
where it says more than that, or a theorem needs it, a run checks it.

**Three views of one interrupt.** `Kernel` has the frames and where each returns
to, with an interrupt possible wherever PSTATE.I is clear. `Registers` has what
is in the frames, byte by byte, for a path that is not interrupted itself, which
is what `OneFrameWhenPrompt` of `Kernel` is about. `Irq` has what `do_irq`
does with the controller. `Console` uses `RoundRobin`, which `Kernel` is shown to
implement, for whose turn it is.

**Two views of the controller.** `Irq` is checked and proved over `Gic`, where an
operation is what it does to the INTIDs. `GicRegisters` is where these operations
are loops of stores to addresses; `ImplementsGic` says that the stores amount to
`Gic`'s operations.

**Atomicity.** While PSTATE.I is set nothing interleaves with the code, so a
masked stretch is one step for each change of state that a property can see.
Where I is clear, an interrupt may come at every label: in task code, at `exit`
(back from `schedule()`, before `kernel_exit` writes ELR) and at `eret`. The pop
of the registers and `eret` itself are one step, because popping the frame and
leaving differ only in how a further interrupt would find the stack pointer.
`create_mapping` takes one step for each level, the loops of the heap one for
each list element, `request_irq` one for each store, `uart_putc` one for the
check and one for the write, `spin_lock` and `spin_unlock` one for the mask and
one for the word.

**Abstracted data.** Page attributes other than normal and device are left out. A
page is a few words (`PTRS`), each with what the kernel or the MMU reads in it.
Pages handed to clients keep their contents. A run of ordinary characters of a
format counts as one, its newline included, and a line of a task has two, so that
it can be cut. A word in `Registers` is who put it there. Of `kernel_main`'s lines `Console` has
one that is printed masked and one that is not.

## Runs

Bounds are constants of each cfg.

| run | asks | instance | states |
|---|---|---|---|
| `kernel` | scheduler and interrupt safety, `IndInv`, refinement of `RoundRobin`; returns, frames and liveness when ticks come one by one | `main.c:98` in effect; 3 tasks in 4 slots, slices of 3, a word of 8, ticks at any time, 3 frames per stack, 1 to 3 free pages | 335768 |
| `kernel_late_return` | finding | as `kernel` | |
| `kernel_masked` | finding | as `kernel`, `main.c:98` as committed | 18 |
| `registers` | registers, stack and contexts across interrupts and switches | 3 tasks, 96 bytes of C frames, pages of 4096 | 744 |
| `irq` | dispatch | INTIDs 0, 30, 31, 32, 1019; drivers of three | 5120 |
| `gic_registers` | addresses of the stores, refinement of `Gic`, neighbours' triggers, the end of the initialisation | INTIDs 0, 31, 32, 63, 1019 followed; mask and unmask also of 16 and 1020; set_type of 15, 31, 32, 33, 1021 | 140746 |
| `gic_trigger_edge` | finding | set_type of 14, 15, 30 to 33 | |
| `console` | lines whole, the tick's line whole, calls return | a FIFO of 1 or a UART that sends at once, slices of 1, a line every second tick, 1 second | 99979 |
| `spin_lock` | atomic sections, what the word tells | 3 tasks, 2 locks, values modulo 3, no nesting | 297 |
| `free_list` | the heap | 128 bytes, requests of 1, 17 and 40 | 48288 |
| `queue` | the queues | 2 queues, 3 elements | 574 |
| `vmm` | boot and `ioremap` | 4 entries a table, 16 pages of RAM, 3 of them the image; the boot's calls and 1 more; 4 pages that the TLB may cache | 1171 |

Why the bounds are enough:

- *Kernel.* With 3 tasks a turn passes to a next task, wraps, and skips none;
  a slice of 3 is neither used up by one tick nor all of the round; with 1 to 3
  pages a `create_task` may fail. `Word` = 8 is large enough for a recharged
  slice and small enough that a wrapped counter is another one. Three frames
  nest every kind of return once over another. The theorems hold for all values.
- *Registers.* Sizes and offsets are the source's. With 3 tasks one is running,
  one suspended and one not yet begun; each task's values change between two, so
  that a register restored from the frame before shows. `CFrame` is what the
  compiled C code takes at least for its calls.
- *Irq, GicRegisters.* An SGI, PPIs at the ends of their range, the first and
  last INTID of a word, and 1019, the last of the last word, which a loop that
  ends early would miss; 1020 and 1021 are out of range; 15, for set_type, is where
  the driver's PPIs begin and the architecture's do not.
- *Console.* A FIFO of one is the hardest: any character fills it. Slices of 1
  switch at every tick, and every second tick prints, so that a task's line is
  cut by the tick, by another task, and by both. The seconds are a counter that
  nothing but the tick's line reads, and go over the last one again and again.
- *LockClients.* Two tasks contend while a third is out; two locks show that a
  section of one does not disturb the other. The theorems have no bound.
- *FreeList.* Eight places for a block: a request takes 2, 3 or 4 of them, so
  that splitting, whole blocks, holes between blocks, merging on both sides and
  refusal all occur; 17 is just over the alignment.
- *Vmm.* The tables have the source's four levels and every index takes more
  than one value. `MCRequests` cross a page, ask for nothing, or need another
  table. Pages run out when clients take them: `NewTableFaults` fires. A page of a
  device, in either half, loses its translation at one of the two switches, so that
  `TlbFresh` fails without the flush of either; `DDR_END` is the last byte of RAM,
  so that `PagesAccounted` and `RamMapped` fail if the loops miss the last page.

`main.c:98` has the call that unmasks interrupts as a comment; the constant
`UnmaskAtBoot` says whether it is in effect. As committed it is `FALSE`: nothing is
ever interrupted, no created task runs (`kernel_masked`), and every property about
interrupts is empty. `kernel`, `kernel_late_return` and `console` therefore set it to
`TRUE`, and what they show is about the kernel with that line in effect; the
theorems hold for both. The runs of `Kernel` turn deadlock checking off: with three
frames on a stack the bound `MaxNest` stops further interrupts, a CPU lost at a wrong
address stops, and so does the masked kernel, in its `wfi` loop.

### Fairness

- `Kernel`: the CPU keeps executing, the timer keeps counting, a pending unmasked
  interrupt is taken. Nothing is assumed of the tasks: being preempted is up to
  the timer. The code does not keep a tick from coming upon the interrupt path, so
  nothing of that kind is assumed of the behaviours; three properties have it as
  their condition instead: `PromptTick`, a tick that waits came while task code ran,
  which is so when the path takes less than the timer's millisecond. `NoStarvation`
  also has the condition that interrupts are unmasked at some time. Without
  `PromptTick` interrupts can nest without end, and liveness fails with the safety of
  the return (`kernel_late_return`).
- `Console`: the interrupt path goes on and ticks keep coming (weak); the UART
  keeps sending (weak); a task that runs again and again, by `NoStarvation`,
  gets a step done (strong: it may be interrupted before each). `PrintkReturns`
  claims an end of a task's `printk` only for a UART that sends at once: with a
  FIFO the others may have filled it each time that the task looks.
- `FreeList`: a call that has begun keeps running.
- `Irq`, `GicRegisters`: `gicv3_init` and the interrupt path keep running, the CPU
  takes what stays signalled, the redistributor wakes up when told to. Drivers
  and devices are not fair.

## Findings

1. `schedule()` unmasks inside the interrupt path (`schedule.c:89`), so that
   `kernel_exit` is not atomic: a tick behind its write of ELR makes it return to
   itself (`kernel_late_return`). Latent as committed: with `main.c:98` a comment no
   interrupt is taken.
2. Interrupts are never unmasked (`main.c:98`, a comment): tasks A and B are created
   and never run, and the first tick stays pending (`kernel_masked`).
3. `gicv3_irq_set_type` writes the request's code, not the field's value
   (`gic_trigger_edge`). No caller uses it yet. Level (4) also spills into the
   next INTID's field, but into its reserved bit: no trigger changes by that.

Met while modelling, with no run of their own:

- PPIs begin at INTID 16; `PPI_NO_MIN` is 15 (`gicv3_reg.h:78`). For INTID 15
  `gicv3_irq_set_type` computes (15 - 16) % 16, unsigned, which is 15, and rewrites
  the field of INTID 31 in GICR_ICFGR1 (`gicv3.c:127`). `OthersKeepTrigger` has this
  as its one exception, through `FieldOf`; without it the property fails. INTIDs 0
  to 14 it takes for SPIs and writes the distributor's reserved register 0.
- The frame is 277 bytes (`exception.S:24`) where the comment has 17 slots of 16;
  277 is enough, as `FindsItsState` shows, but no multiple of 16, which SP needs
  when SCTLR_EL1.SA is set.
- The first line has a lone `%` for its line number (`main.c:53`), and
  `irq.c:86` has `%02x`: `printk` prints both as they are, and the argument is
  left for the next directive. `LinesComplete` excepts the first line.
- With a finite FIFO a task's character may be lost: the tick, or another task,
  takes the room between `uart_putc`'s check and its write (`uart.c:41`).
  `LinesComplete` without its condition fails. QEMU's UART is never full.
- Nested locks lose their exclusion: the inner `spin_unlock` unmasks
  (`spinlock.h:44`). With `MaxHeld = 2` `ReadStaysValid` fails.
- `timer_handler` sets the next expiry relative to now (`arm_timer.c:41`), so that
  `system_ticks` falls behind by every interrupt's latency.

## Proofs

Every theorem holds for all values of the constants under the assumptions that the
modules name, and those of the last column.

| module | theorem | states | needs |
|---|---|---|---|
| `KernelProofs` | `Invariance` | `Spec => []IndInv` | |
| | `TypeCorrect` | `Spec => []TypeOK` | |
| | `NoUnderflow` | `Spec => []TickFindsSlice` | |
| | `SwitchTargets` | `Spec => []OthersSuspended` | |
| | `EndsInterrupt` | `Spec => []EndedBeforeSwitch` | |
| | `Refinement` | `Spec => ImplementsRoundRobin` | |
| | `PromptInvariance` | `Spec => ([]PromptTick => []PromptInv)` | |
| | `PromptReturns` | `Spec => ReturnsWhenPrompt` | |
| | `PromptStack` | `Spec => OneFrameWhenPrompt` | |
| `RegistersProofs` | `Invariance` | `Spec => []Inv` | |
| | `TypeCorrect` | `Spec => []TypeOK` | |
| | `StateRestored` | `Spec => []FindsItsState` | |
| | `SuspendedKept` | `Spec => []SuspendedIsKept` | |
| `FreeListProofs` | `TypeCorrect` | `Spec => []TypeOK` | |
| | `PageTiled` | `Spec => []Tiled` | |
| | `NeighboursMerged` | `Spec => []Coalesced` | |
| | `BlocksLargeEnough` | `Spec => []RoomForRequest` | |
| | `Refinement` | `Spec => ImplementsHeap` | |
| `VmmProofs` | `Invariance` | `Spec => []Inv` | |
| | `TypeCorrect` | `Spec => []TypeOK` | |
| | `OneOwner` | `Spec => []PagesAccounted` | |
| | `RamStaysMapped` | `Spec => []RamMapped` | |
| | `ConsoleStaysMapped` | `Spec => []ConsoleMapped` | |
| | `RegionsStayMapped` | `Spec => []RegionsMapped` | |
| | `TlbNeverStale` | `Spec => []TlbFresh` | |
| | `Refinement` | `Spec => ImplementsAddressSpace` | |
| `IrqProofs` | `IrqInvariance` | `Spec => []IrqInv` | |
| | `IrqTypeCorrect` | `Spec => []TypeOK` | |
| | `CompleteWhenEnabled` | `Spec => []EnabledIsComplete` | |
| | `DeliverableWhenRequested` | `Spec => []RequestedIsDeliverable` | |
| | `HandledWhenActive` | `Spec => []ActiveIsHandled` | |
| | `QuietWhenDisabled` | `Spec => []DisabledIsQuiet` | |
| `GicRegistersProofs` | `TriggerTypeCorrect` | `Spec => []TypeOK` (of `GicTrigger`) | |
| | `TriggersKept` | `Spec => OthersKeepTrigger` | |
| | `Invariance` | `DriverSpec => []IndInv` | |
| | `WordsMapped` | `DriverSpec => []StoresMapped` | |
| | `Refinement` | `DriverSpec => ImplementsGic` | |
| | `DriverKeepsTriggers` | `DriverSpec => OthersKeepTrigger` | |
| `ConsoleProofs` | `Invariance` | `Spec => []ConsoleInv` | |
| | `TypeCorrect` | `Spec => []TypeOK` | |
| | `LinesWhole` | `Spec => []LinesComplete` | |
| | `TickLineWhole` | `Spec => []TickLineComplete` | |
| `LibraryProofs` | `RingsStayWhole` | `Spec => []RingsAgree` | |
| | `Refinement` | `Spec => ImplementsFifo` | |
| | `SectionsAtomic` | `SectionSpec => []ReadStaysValid` | `MaxHeld = 1` |
| | `WordTells` | `SectionSpec => []WordTellsHeld` | `MaxHeld = 1` |

Where a proof goes along a list, a walk or a loop, it is by the least natural number
for which a claim fails (`LeastNat`, `NatClosed`), because the library's induction
theorems take an operator as a parameter. The models keep what a list or a table
holds in memory only; the invariants name it as a value that exists (a set of free
blocks, a tree of tables, a sequence for each queue), and lemmas show that what a
reader of the memory computes is that value.

*Kernel.* None of the properties is inductive alone. That a tick finds some slice
left needs to know where in the round the kernel is: `SliceInv` says that the
tasks before the running one have used up their slices, that those behind it have
theirs untouched, and that the running one's is 0 only from the tick that used
it up to the call of `schedule()`. That in turn needs the flag to be exactly
"the slice is 0", and the other tasks to be where a switch can resume them
(`FrameInv`), which needs masking (`MaskInv`) and the order of boot (`BootInv`).
`IndInv` is their conjunction, and run `kernel` checks it as an invariant too.
`LongestIs` characterises the search of `schedule()`, and `NextInRound` derives
from `SliceInv` that the task it finds is the next one in order, or the first
after a recharge. `RefinesInit` and `RefinesStep` map every step to one of
`RoundRobin` or a stutter: ticks to `Tick`, switches to `Rotate`, `create_task` to
`Admit`.

*Kernel, ticks one by one.* `ReturnsWhenPrompt` and `OneFrameWhenPrompt` say of every
behaviour with `[]PromptTick` that it returns to where it was interrupted and has one
frame at most on a stack. `PromptInv` says what is on each stack for each label
(nothing in task code, one frame with a task's address elsewhere), and that the
timer's line rises only where the path cannot be interrupted by it. It is
inductive together with `IndInv`, given `PromptTick` before and after the step.

*Irq.* `InitInv` says what `gicv3_init` has cleaned at each point of the boot,
`DescriptorInv` which descriptors are complete at each step of `request_irq`,
`EnabledInv` that only complete ones are enabled, `ActiveInv` that only the INTID
in `do_irq` is active. `LoopsCoverSpis` is the arithmetic of the driver's loops and
`OwnBit` that of its words and bits. Each action has a lemma of its own.

*GicTrigger.* `Field` is the arithmetic of one store: a value at the shift of one
INTID changes no trigger bit of another that can be configured, but for INTID 15,
whose store is to the field of INTID 31. The theorems are for any set of INTIDs.

*GicRegisters.* `Progress` says how far the loops of `gicv3_init` are: relative to
what the current function found (`before`), the INTIDs below the loop variable are
disabled, not pending and in group 1 (`Cleaned`), or at the driver's priority
(`Prioritised`), and all others are as they were; and the redistributor sleeps only
until the driver has waited for it. `IndInv` adds that only followed INTIDs are
enabled. A step within a function is a stutter of `Gic`, whose variables are read
from `before` meanwhile (`Unseen`); the function's last step is `Gic`'s action. The
lemmas on stores say which INTIDs a word or a byte of each bank is for, and that no
two banks overlap, for every INTID up to 1019.

*Registers.* `Inv` says for each label what the task has where: its values in the
registers (`InRegisters`); the thirty-three words of its frame, the words of its
new or saved context and its locals in memory (`InMemory`). The frames, contexts
and locals of two tasks are in different pages, and those of one do not overlap,
from `PAGE_SIZE >= CFrame + 512`: a page has room for the locals, the 277 bytes of
the frame, the C frames and, at its start, `struct task_struct`. Without such a bound
the stack runs into the structure.

*FreeList.* `HeapInv` says of the free list's set of blocks F that the list is
sorted by address, that F, the blocks held and the one being freed tile the page
(`Tiles`), that no two of F touch (`Apart`), and what a search under way has passed:
only blocks that are too small in `kmalloc_malloc`, only blocks before its own in
`kmalloc_free`. `Coalesced` alone is not inductive: that a freed block is merged with both
neighbours needs that the search has stopped between them. Refinement of
`Heap` needs the search part: a refusal is allowed only if no free stretch is long
enough, which follows because stretches are blocks of F.

*Vmm.* `Tree` describes the tables as a function N from level and path prefix to
pages: one root, no page in it twice, an entry for each child, and the leaves are
the map M. `Stack` is the free list as a sequence without repetition, `Owned` says
that each page is in exactly one of free list, tables and other hands; without it a
page that `create_mapping` takes could be a table already. `Mapping` says that M is
RAM up to `ram` and devices from `VMALLOC_START` up to `dev`, and `Progress` where
the loop around `create_mapping` and its walk are with respect to them, also when
pages run out in mid-walk. `LastPageIs` shows that the loops `addr < DDR_END` do the
last page and none behind it, as DDR_END is the last byte of RAM. N, F, `ram` and `dev` are quantified
existentially for each M; every step keeps M or adds its next page (`NextPage`),
which is `AddressSpace`'s only action. `RequestsAssumption` has what the code relies
on and does not check: the physical addresses given to `ioremap` are in the first
gigabyte, where the board has its devices; the UART's is the first call; and the
calls fit in the upper half, whose end `ioremap` never looks at.

*Console.* `OutputIs` derives from the recursive definition of what `printk` puts
that it satisfies its own equation, for a format for which a solution is given;
`PlainLine` and `NumberLine` give the solutions, and `NumberIs` shows that
`print_number` and the numeral that a reader expects agree for every number of two
digits. `ConsoleInv` says that the tick has nothing left to print where a task runs,
so that its room is not taken between `uart_putc`'s check and its write, and that a
UART that sends at once always has room; hence what is shown and what is to come
make up the text. The bound `Seconds <= 99` is that of the numerals.

*Spin lock.* `SectionInv` says that a task is in a section only masked and running,
and that what it read is what is there; `WordInv` that a word is 1 from the store
in `spin_lock` to the one in `spin_unlock`. Nesting breaks the first, which is why
`MaxHeld = 1` is assumed.

*Queue.* Agreement of the pointers is not inductive: `queue_pop` unlinks what the
root's `p_next` leads to, and nothing in `RingsAgree` says that this is not the
root of another queue. `Owned` does, by a function from nodes to the root of
their ring that both pointers respect; `RingInv` is both, with the types. For the
refinement, `Lists` gives each queue its sequence: no element in two of them or
twice in one, every linked element in one. `OneRing` shows that the sequence is
determined by the pointers, so that `Contents`, which reads them from the root, is
that sequence; `ListGrows` and `ListShrinks` are what the two pointer operations do
to it, and every operation of `queue.c` is one of these with `Fifo`'s counterpart.

Only model-checked: liveness (`NoStarvation`, `PendingIsServed`,
`CallsReturn`, `InitReturns`, `PrintkReturns`), because temporal reasoning with
fairness and `ENABLED` is beyond the prover. The findings are counterexamples, which
TLC shows.

## Not modelled

- The exception handlers of `exception.c`: the synchronous one prints and loops
  (`"panic"` in `Vmm`), the others have no source of exceptions.
- The timer's count and compare value: a tick may come at any time.
- The time a store to the controller takes: masking has its effect at once, while
  the driver never waits for RWP (register write pending), so that an interrupt may
  still come for a while behind `disable_irq`. Also GICD_IROUTER and active bits that
  firmware left: the driver does not touch them, the model has them clear.
- What a compiler may move: the `asm volatile` of `cpu.h:19-27` has no "memory"
  clobber, so that C allows accesses to move across the masking in `spin_lock`;
  `LockClients` has them in the order of the source.
- The order of the callers' characters on the wire: `LinesComplete` is about each
  caller's own, and others' may come between them. Of the message of `irq.c:86` no
  call is modelled: the timer has its handler before its interrupt is enabled.
- `kmalloc_init` without a page: it uses what `pmm_get_free_page` returns unchecked
  (`free_list.c:75`), and `FreeList` starts with the page there. Likewise
  `setup_page_tables`: `SetupAssumption` says that there are pages for the tables of
  RAM. (Without them it would write to physical page 0, which `boot_pgd` maps.)
- The field macros of `util.h` (`get_sft_num` and those on it have no caller, and
  its branches do not cover every mask); `memset` and the register access macros
  are parts of the steps that use them.
- A format that ends in `%`: no caller has one.
- Bytes of stack: `OneFrame` bounds the frames, the depth of C calls is `CFrame`.
- `system_ticks` wrapping, the linker script, the values of the system registers
  in `boot.S`, the loop that clears the BSS.
- More than one core: `boot.S` parks all but the first.

Assumed of the environment: a physical page 0 that reads as zero (empty flash,
which TTBR0 = 0 points to); compiled C code that keeps to the procedure call
standard; a client of the heap that frees what it holds, once, asks for far less
than 2^64 bytes, and never runs in an interrupt handler; a client of the queues
that pushes only what is in no queue; drivers that request their own INTID once.
`pmm_free_page`, `queue.c`, `spinlock.h`, `enable_irq`, `disable_irq` and `set_type`
have no callers in the kernel: the models call them as their interfaces allow.

## Plan

Done, in this order: `RoundRobin`, `Scheduler`, `Kernel` with `KernelProofs`;
`Heap`, `FreeList`; `Fifo`, `Queue`; `Pmm`, `AddressSpace`, `Vmm`; `Gic`, `Irq`,
`GicTrigger`; the proofs under `PromptTick`, `IrqProofs`, those of `GicTrigger`;
`SpinLock`, `LockClients` with proofs; `Console`; `Registers`; `GicRegisters`; the
rings of `Queue`; then the rest of the safety properties and the refinements:
`FreeListProofs`, `VmmProofs`, `RegistersProofs`, `GicRegistersProofs`, the contents
of `Queue`, `ConsoleProofs`.

Next:

1. `Irq` composed with `Kernel`: the timer's interrupt through the descriptors, and
   with it that the interrupt path of `Kernel` is the one whose dispatch is proved.
2. That `Registers`' path is `Kernel`'s under `PromptTick`, as a refinement.
