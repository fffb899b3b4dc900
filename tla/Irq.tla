-------------------------------- MODULE Irq --------------------------------
(***************************************************************************)
(* kernel/irq.c over the interrupt controller of module Gic: drivers that  *)
(* request, disable and enable interrupts in task code, and the interrupt  *)
(* path from the vector through do_irq() to eret, which may come between   *)
(* any two of a driver's steps.  What the timer's handler does then, and   *)
(* check_resched(), is module Kernel's matter.                             *)
(***************************************************************************)
EXTENDS Gic

CONSTANT
  Drivers               \* the INTIDs that drivers request, INTID 30 in the source

ASSUME IrqAssumption == Drivers \subseteq Intids

NULL == -1

VARIABLES
  booted,               \* steps of gicv3_init() done
  chip,                 \* has irq_desc_list[i].chip been set?
  handler, dev_id,      \* irq_desc_list[i], for each the INTID it was requested for
  driver,               \* what task code is doing: <<call, irq_no>>
  off,                  \* interrupts that drivers have disabled
  pc,                   \* "task", or where in the interrupt path the CPU is
  irq_no                \* do_irq()'s argument

vars == <<gicVars, booted, chip, handler, dev_id, driver, off, pc, irq_no>>

irqVars == <<chip, handler, dev_id>>
taskVars == <<booted, driver, off>>
cpuVars == <<pc, irq_no>>

IDLE == <<"none", NULL>>

SetsOK ==
  /\ enabled \subseteq Intids /\ latched \subseteq Intids /\ group1 \subseteq Intids
  /\ active \subseteq Intids /\ line \subseteq Intids /\ off \subseteq Intids

TablesOK ==
  /\ priority \in [Intids -> 0 .. 255]
  /\ chip \in [Intids -> BOOLEAN]
  /\ handler \in [Intids -> Intids \cup {NULL}]
  /\ dev_id \in [Intids -> Intids \cup {NULL}]

DriverOK == driver \in {"none", "handler", "dev_id", "unmask"} \X (Intids \cup {NULL})

PointsOK ==
  /\ waker \in {"asleep", "waking", "awake"}
  /\ forwarding \in BOOLEAN /\ cpuif \in BOOLEAN
  /\ booted \in 0 .. 4
  /\ pc \in {"task", "ack", "do_irq", "eoi", "exit"}
  /\ irq_no \in Intids \cup {NULL, SPURIOUS}

TypeOK == SetsOK /\ TablesOK /\ DriverOK /\ PointsOK

\* Firmware may have left any interrupt enabled, pending and in another group.
Init ==
  /\ \E used \in SUBSET Intids :
       /\ enabled = used /\ latched = used
       /\ group1 = Intids \ used
       /\ priority = [i \in Intids |-> IF i \in used THEN 255 ELSE 0]
  /\ active = {} /\ line = {}
  /\ waker \in {"asleep", "awake"}
  /\ forwarding = FALSE /\ cpuif = FALSE
  /\ booted = 0
  /\ chip = [i \in Intids |-> FALSE]
  /\ handler = [i \in Intids |-> NULL]
  /\ dev_id = [i \in Intids |-> NULL]
  /\ driver = IDLE /\ off = {}
  /\ pc = "task" /\ irq_no = NULL

InTask == pc = "task"

-----------------------------------------------------------------------------
(* gicv3_init(), with interrupts masked: nothing is taken before it is done *)

Running == booted = 4

BootStep_Repeated(n) ==
  /\ booted >= n
  /\ booted' = booted + 1

BootStep(n) ==
  /\ booted = n
  /\ booted' = n + 1

GicInit ==
  \/ /\ BootStep(0) /\ GicInitGlobal
     /\ UNCHANGED <<irqVars, driver, off, cpuVars>>
  \/ /\ BootStep(1) /\ GicWakeup
     /\ UNCHANGED <<irqVars, driver, off, cpuVars>>
  \/ /\ BootStep(2) /\ GicInitPerCore
     /\ UNCHANGED <<irqVars, driver, off, cpuVars>>

\* irq_set_chip(0, SPI_NO_MAX, &gicv3_chip)
IrqSetChip ==
  /\ BootStep(3)
  /\ chip' = [i \in Intids |-> i <= SPI_NO_MAX \/ chip[i]]
  /\ UNCHANGED <<gicVars, handler, dev_id, driver, off, cpuVars>>

-----------------------------------------------------------------------------
(* Task code: request_irq(), enable_irq(), disable_irq() *)

Call(call, i) == driver' = <<call, i>>

\* A driver requests its own interrupt, once.
RequestIrq(i) ==
  /\ Running /\ InTask /\ driver = IDLE
  /\ handler[i] = NULL
  /\ Call("handler", i)
  /\ UNCHANGED <<gicVars, irqVars, booted, off, cpuVars>>

SaveHandler ==
  /\ InTask /\ driver[1] = "handler"
  /\ handler' = [handler EXCEPT ![driver[2]] = driver[2]]
  /\ Call("dev_id", driver[2])
  /\ UNCHANGED <<gicVars, chip, dev_id, booted, off, cpuVars>>

SaveDevId_NotStored ==
  /\ InTask /\ driver[1] = "dev_id"
  /\ dev_id' = dev_id
  /\ GicIrqUnmask(driver[2])
  /\ Call("unmask", driver[2])
  /\ UNCHANGED <<chip, handler, booted, off, cpuVars>>

SaveDevId ==
  /\ InTask /\ driver[1] = "dev_id"
  /\ dev_id' = [dev_id EXCEPT ![driver[2]] = driver[2]]
  /\ Call("unmask", driver[2])
  /\ UNCHANGED <<gicVars, chip, handler, booted, off, cpuVars>>

RequestUnmasks ==
  /\ InTask /\ driver[1] = "unmask"
  /\ IF chip[driver[2]] THEN GicIrqUnmask(driver[2]) ELSE UNCHANGED gicVars
  /\ driver' = IDLE
  /\ UNCHANGED <<irqVars, booted, off, cpuVars>>

\* enable_irq() and disable_irq(), by a driver whose request has returned.
Requested(i) == InTask /\ driver = IDLE /\ handler[i] # NULL

EnableIrq(i) ==
  /\ Requested(i)
  /\ GicIrqUnmask(i)
  /\ off' = off \ {i}
  /\ UNCHANGED <<irqVars, booted, driver, cpuVars>>

DisableIrq(i) ==
  /\ Requested(i)
  /\ GicIrqMask(i)
  /\ off' = off \cup {i}
  /\ UNCHANGED <<irqVars, booted, driver, cpuVars>>

-----------------------------------------------------------------------------
(* The interrupt path *)

\* The CPU takes the interrupt; what it was taken for may be gone when IAR is read.
TakeIrq ==
  /\ Running /\ InTask
  /\ Signalled # {}
  /\ pc' = "ack"
  /\ UNCHANGED <<gicVars, irqVars, taskVars, irq_no>>

Acknowledge ==
  /\ pc = "ack"
  /\ \/ \E i \in Signalled : AcknowledgeIrq(i) /\ irq_no' = i
     \/ Signalled = {} /\ irq_no' = SPURIOUS /\ UNCHANGED gicVars
  /\ pc' = "do_irq"
  /\ UNCHANGED <<irqVars, taskVars>>

DoIrqSpurious ==
  /\ pc = "do_irq" /\ irq_no >= 1023
  /\ pc' = "exit"
  /\ UNCHANGED <<gicVars, irqVars, taskVars, irq_no>>

\* The handler attends to its device, which drops its line.
DoIrqHandles ==
  /\ pc = "do_irq" /\ irq_no < 1023
  /\ IF handler[irq_no] # NULL /\ irq_no \in line
     THEN DropLine(irq_no) ELSE UNCHANGED gicVars
  /\ pc' = "eoi"
  /\ UNCHANGED <<irqVars, taskVars, irq_no>>

DoIrqEoi ==
  /\ pc = "eoi"
  /\ IF chip[irq_no] THEN GicIrqEoi(irq_no) ELSE UNCHANGED gicVars
  /\ pc' = "exit"
  /\ UNCHANGED <<irqVars, taskVars, irq_no>>

KernelExit ==
  /\ pc = "exit"
  /\ pc' = "task"
  /\ irq_no' = NULL
  /\ UNCHANGED <<gicVars, irqVars, taskVars>>

-----------------------------------------------------------------------------
Boot == GicInit \/ IrqSetChip

DriverStep == SaveHandler \/ SaveDevId \/ RequestUnmasks

InterruptPath ==
  Acknowledge \/ DoIrqSpurious \/ DoIrqHandles \/ DoIrqEoi \/ KernelExit

Devices ==
  /\ \/ RedistributorWakes
     \/ \E i \in Drivers : RaiseLine(i) \/ DropLine(i)
  /\ UNCHANGED <<irqVars, taskVars, cpuVars>>

Next ==
  \/ Boot \/ DriverStep \/ TakeIrq \/ InterruptPath \/ Devices
  \/ \E i \in Drivers : RequestIrq(i) \/ EnableIrq(i) \/ DisableIrq(i)

Spec == Init /\ [][Next]_vars

\* The CPU keeps executing and takes an interrupt that stays signalled; the
\* redistributor wakes up when it is told to.
FairSpec ==
  /\ Spec
  /\ WF_vars(Boot) /\ WF_vars(InterruptPath) /\ WF_vars(TakeIrq)
  /\ WF_vars(RedistributorWakes /\ UNCHANGED <<irqVars, taskVars, cpuVars>>)

-----------------------------------------------------------------------------
(* Properties *)

\* Once gicv3_init() is done an interrupt is enabled only behind a complete
\* descriptor: whatever firmware left enabled is off, and request_irq() unmasks last,
\* so that no interrupt comes without its handler or with a dev_id not yet stored.
EnabledIsComplete ==
  Running => \A i \in enabled : handler[i] = i /\ dev_id[i] = i

\* An interrupt whose request_irq() has returned and that is not disabled can reach
\* the CPU: enabled, in group 1, and with a priority that passes ICC_PMR_EL1.
RequestedIsDeliverable ==
  \A i \in Drivers : handler[i] = i /\ i \notin off /\ driver[2] # i
    => i \in enabled /\ i \in group1 /\ priority[i] = PENDING_PRIORITY

\* What was acknowledged is the interrupt do_irq() handles, and is ended before the
\* CPU is back in task code; a spurious one leaves nothing active.
ActiveIsHandled ==
  active # {} => active = {irq_no} /\ pc \in {"do_irq", "eoi"}

\* Behind disable_irq() the handler does not run until enable_irq().
DisabledIsQuiet == pc \in {"do_irq", "eoi"} => irq_no \notin off

\* Whenever an enabled interrupt is pending a handler runs, unless it is withdrawn.
PendingIsServed == Running /\ Wanted # {} ~> pc = "eoi" \/ Wanted = {}
=============================================================================
