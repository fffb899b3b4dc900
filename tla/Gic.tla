-------------------------------- MODULE Gic --------------------------------
(***************************************************************************)
(* drivers/irq/gicv3.c and as much of the interrupt controller as it       *)
(* programs.  An interrupt is signalled to the CPU when it is pending,     *)
(* enabled, in group 1 and of a high enough priority, and none is active:  *)
(* all have the same priority, so an active one holds back the others.     *)
(* The registers are modelled by what their bits mean to an INTID; which   *)
(* register, word and bit the driver writes for an INTID is as in the code.*)
(***************************************************************************)
EXTENDS Integers, FiniteSets

CONSTANT Intids         \* the interrupts that the model follows

SPI_NO_MIN == 32
SPI_NO_MAX == 1020
PPI_NO_MAX == 31

\* What reading ICC_IAR1_EL1 gives when nothing is signalled.
SPURIOUS == 1023

ASSUME GicAssumption == Intids \subseteq 0 .. 1019

VARIABLES
  enabled,              \* GICR_ISENABLER0 and GICD_ISENABLER
  latched,              \* pending bits that stay set without the device's line
  group1,               \* GICR_IGROUPR0 and GICD_IGROUPR
  priority,             \* GICR_IPRIORITYR and GICD_IPRIORITYR
  active,               \* acknowledged and not ended
  waker,                \* GICR_WAKER: "asleep", "waking" or "awake"
  forwarding,           \* GICD_CTLR.EnableGrp1NS, with ARE_NS
  cpuif,                \* ICC_IGRPEN1_EL1 and ICC_PMR_EL1 let interrupts through
  line                  \* the lines that devices assert

gicVars == <<enabled, latched, group1, priority, active, waker, forwarding, cpuif, line>>

Private == {i \in Intids : i <= PPI_NO_MAX}

PENDING_PRIORITY == 160 \* 0xA0, which the driver gives to all

-----------------------------------------------------------------------------
(* The controller and the devices *)

Wanted == (line \cup latched) \cap enabled

Signalled ==
  IF forwarding /\ cpuif /\ active = {}
  THEN {i \in Wanted : i \in group1 /\ priority[i] < 255} ELSE {}

\* gicv3_acknowledge_irq() when i is the one that the controller presents.
AcknowledgeIrq(i) ==
  /\ i \in Signalled
  /\ active' = active \cup {i}
  /\ latched' = latched \ {i}
  /\ UNCHANGED <<enabled, group1, priority, waker, forwarding, cpuif, line>>

RaiseLine(i) ==
  /\ i \notin line
  /\ line' = line \cup {i}
  /\ UNCHANGED <<enabled, latched, group1, priority, active, waker, forwarding, cpuif>>

DropLine(i) ==
  /\ i \in line
  /\ line' = line \ {i}
  /\ UNCHANGED <<enabled, latched, group1, priority, active, waker, forwarding, cpuif>>

-----------------------------------------------------------------------------
(* gicv3_init_global(), gicv3_init_per_core() *)

\* The INTIDs in the words of `step` that a loop from SPI_NO_MIN writes.
LoopCovers(below, step) ==
  {i \in Intids : \E k \in 0 .. below \div step :
     /\ SPI_NO_MIN + k * step < below
     /\ i \in SPI_NO_MIN + k * step .. SPI_NO_MIN + k * step + step - 1}

GicInitGlobal_LastWordLeft ==
  LET cleaned == LoopCovers(SPI_NO_MAX - 32, 32)
  IN /\ enabled' = enabled \ cleaned
     /\ latched' = latched \ cleaned
     /\ group1' = group1 \cup cleaned
     /\ priority' = [i \in Intids |-> IF i \in LoopCovers(SPI_NO_MAX, 4)
                                      THEN PENDING_PRIORITY ELSE priority[i]]
     /\ forwarding' = TRUE
     /\ UNCHANGED <<active, waker, cpuif, line>>

\* All SPIs disabled, not pending, in group 1, then the distributor is enabled.
GicInitGlobal ==
  LET cleaned == LoopCovers(SPI_NO_MAX, 32)
  IN /\ enabled' = enabled \ cleaned
     /\ latched' = latched \ cleaned
     /\ group1' = group1 \cup cleaned
     /\ priority' = [i \in Intids |-> IF i \in LoopCovers(SPI_NO_MAX, 4)
                                      THEN PENDING_PRIORITY ELSE priority[i]]
     /\ forwarding' = TRUE
     /\ UNCHANGED <<active, waker, cpuif, line>>

GicWakeup ==
  /\ waker' = IF waker = "asleep" THEN "waking" ELSE waker
  /\ UNCHANGED <<enabled, latched, group1, priority, active, forwarding, cpuif, line>>

\* The redistributor clears ChildrenAsleep.
RedistributorWakes ==
  /\ waker = "waking"
  /\ waker' = "awake"
  /\ UNCHANGED <<enabled, latched, group1, priority, active, forwarding, cpuif, line>>

\* Behind the wait loop: the same for SGIs and PPIs, then the CPU interface.
GicInitPerCore ==
  /\ waker = "awake"
  /\ enabled' = enabled \ Private
  /\ latched' = latched \ Private
  /\ group1' = group1 \cup Private
  /\ priority' = [i \in Intids |-> IF i \in Private THEN PENDING_PRIORITY ELSE priority[i]]
  /\ cpuif' = TRUE
  /\ UNCHANGED <<active, waker, forwarding, line>>

-----------------------------------------------------------------------------
(* The irq_chip operations *)

\* With affinity routing the distributor ignores the words of SGIs and PPIs.
DistributorBit(word, bit) == {32 * word + bit} \ (0 .. PPI_NO_MAX)

\* The INTID whose enable bit is written for i: in the redistributor or in the
\* distributor's word irq_no / 32.
EnableBit(i) ==
  IF i > SPI_NO_MAX THEN {}
  ELSE IF i <= PPI_NO_MAX THEN {i % 32}
  ELSE DistributorBit(i \div 32, i % 32)

GicIrqUnmask(i) ==
  /\ enabled' = enabled \cup (EnableBit(i) \cap Intids)
  /\ UNCHANGED <<latched, group1, priority, active, waker, forwarding, cpuif, line>>

GicIrqMask_SetsEnable(i) ==
  /\ enabled' = enabled \cup (EnableBit(i) \cap Intids)
  /\ UNCHANGED <<latched, group1, priority, active, waker, forwarding, cpuif, line>>

GicIrqMask(i) ==
  /\ enabled' = enabled \ EnableBit(i)
  /\ UNCHANGED <<latched, group1, priority, active, waker, forwarding, cpuif, line>>

GicIrqEoi_SpisOnly(i) ==
  /\ active' = IF i > PPI_NO_MAX THEN active \ {i} ELSE active
  /\ UNCHANGED <<enabled, latched, group1, priority, waker, forwarding, cpuif, line>>

\* ICC_EOIR1_EL1: priority drop and deactivation.
GicIrqEoi(i) ==
  /\ active' = IF i > SPI_NO_MAX THEN active ELSE active \ {i}
  /\ UNCHANGED <<enabled, latched, group1, priority, waker, forwarding, cpuif, line>>
=============================================================================
