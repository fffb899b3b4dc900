---------------------------- MODULE GicRegisters ----------------------------
(***************************************************************************)
(* drivers/irq/gicv3.c once more, store by store: which address the loops  *)
(* and the irq_chip operations write, and what the controller makes of a   *)
(* store to that address.  Module Gic says what these operations do to an  *)
(* INTID; here they are shown to do it.  What gicv3_irq_set_type() stores  *)
(* is module GicTrigger's.  A value is the set of its bits that are 1.     *)
(***************************************************************************)
EXTENDS GicTrigger

CONSTANTS
  Followed,             \* the interrupts that the model follows; Intids of module
                        \* GicTrigger are the arguments of gicv3_irq_set_type()
  Asked,                \* arguments of gicv3_irq_unmask() and gicv3_irq_mask()
  Core                  \* MPIDR_EL1.Aff0: 0, boot.S stops the other cores

ASSUME GicRegistersAssumption ==
  /\ Followed \subseteq 0 .. 1019 /\ Asked \subseteq Nat
  /\ Core \in 0 .. 3

VARIABLES
  enabled, latched, group1, priority,   \* by INTID, as in module Gic
  ctlr, waker,          \* GICD_CTLR and this core's GICR_WAKER
  cpuif,                \* the CPU interface lets interrupts through
  pc, i,                \* where gicv3_init() is, and its loops' variable
  stores,               \* what the last step wrote: region, offset and value
  call,                 \* the last call of an irq_chip operation
  before                \* the INTIDs' state when the current function began

device == <<enabled, latched, group1, priority, ctlr, waker>>
driverVars == <<device, cpuif, pc, i, stores, call, before>>

-----------------------------------------------------------------------------
(* gicv3_reg.h *)

GICD_SIZE == 65536
GICR_SIZE_PER_CORE == 131072
CORE_NUM == 4

GICD == [CTLR |-> 0, IGROUPR |-> 128, ISENABLER |-> 256, ICENABLER |-> 384,
         ICPENDR |-> 640, IPRIORITYR |-> 1024, ICFGR |-> 3072]

GICR_SGI_OFFSET == 65536

GICR == [WAKER |-> 20, IGROUPR0 |-> GICR_SGI_OFFSET + 128,
         ISENABLER0 |-> GICR_SGI_OFFSET + 256, ICENABLER0 |-> GICR_SGI_OFFSET + 384,
         ICPENDR0 |-> GICR_SGI_OFFSET + 640, IPRIORITYR0 |-> GICR_SGI_OFFSET + 1024,
         ICFGR1 |-> GICR_SGI_OFFSET + 3076, IGRPMODR0 |-> GICR_SGI_OFFSET + 3328]

SPI_NO_MIN == 32

\* 0xFFFFFFFF and 0xA0A0A0A0
Ones == 0 .. 31
A0s == {b \in Ones : b % 8 \in {5, 7}}

\* What gicv3_init_global() maps of each region.
Mapped(region) ==
  IF region = "gicd" THEN GICD_SIZE ELSE GICR_SIZE_PER_CORE * CORE_NUM

Gicd(offset, value) == [region |-> "gicd", offset |-> offset, value |-> value]

\* A store behind get_my_gicr_base().
Gicr(offset, value) ==
  [region |-> "gicr", offset |-> Core * GICR_SIZE_PER_CORE + offset, value |-> value]

-----------------------------------------------------------------------------
(* The controller *)

\* Byte offset among the per-INTID registers, which both regions lay out alike.
Frame(s) ==
  IF s.region = "gicd" THEN s.offset
  ELSE s.offset - Core * GICR_SIZE_PER_CORE - GICR_SGI_OFFSET

\* The distributor has the SPIs, the redistributor its core's SGIs and PPIs.
Side(s) == {n \in Followed : n > 31 <=> s.region = "gicd"}

\* Banks of 128 bytes with a bit for each INTID: 1 group, 2 and 3 set and clear
\* enable, 4 and 5 set and clear pending.
Word(s, bits) == {32 * ((Frame(s) % 128) \div 4) + b : b \in bits} \cap Side(s)

InBank(S, bank) == {s \in S : Frame(s) \in 128 .. 1023 /\ Frame(s) \div 128 = bank}

SetBits(S, bank) == UNION {Word(s, s.value) : s \in InBank(S, bank)}

Covered(S, bank) == UNION {Word(s, Ones) : s \in InBank(S, bank)}

\* The priorities are a byte each.
Bytes(s) == (Frame(s) - 1024 .. Frame(s) - 1021) \cap Side(s)

Byte(value, k) ==
  CHOOSE v \in 0 .. 255 : \A b \in 0 .. 7 : (v \div 2 ^ b) % 2 = 1 <=> 8 * k + b \in value

\* A register of its own behind the stores S.
Single(S, region, offset, old) ==
  LET hits == {s \in S : s.region = region /\ s.offset = offset}
  IN IF hits = {} THEN old ELSE UNION {s.value : s \in hits}

\* The stores S, to different registers.
Write(S) ==
  /\ stores' = S
  /\ enabled' = (enabled \cup SetBits(S, 2)) \ SetBits(S, 3)
  /\ latched' = (latched \cup SetBits(S, 4)) \ SetBits(S, 5)
  /\ group1' = (group1 \ Covered(S, 1)) \cup SetBits(S, 1)
  /\ priority' = [n \in Followed |->
       IF \E s \in S : n \in Bytes(s)
       THEN Byte((CHOOSE s \in S : n \in Bytes(s)).value, n % 4) ELSE priority[n]]
  /\ ctlr' = Single(S, "gicd", 0, ctlr)
  /\ LET written == Single(S, "gicr", Core * GICR_SIZE_PER_CORE + 20, waker)
     IN waker' = (waker \cap {2}) \cup (written \cap {1})

\* ChildrenAsleep (bit 2) follows ProcessorSleep (bit 1).
RedistributorWakes ==
  /\ waker = {2}
  /\ waker' = {}
  /\ UNCHANGED <<enabled, latched, group1, priority, ctlr, cpuif, pc, i, stores, call, before>>
-----------------------------------------------------------------------------
(* gicv3_init() *)

\* Firmware may have left any interrupt enabled, pending and in group 0.
\* Whatever firmware left, the triggers as in module GicTrigger.
DriverInit ==
  /\ Init /\ \A n \in Registers : icfgr[n] = icfgr[1]
  /\ \E used \in SUBSET Followed :
       /\ enabled = used /\ latched = used
       /\ group1 = Followed \ used
       /\ priority = [n \in Followed |-> IF n \in used THEN 255 ELSE 0]
  /\ ctlr \in {{}, {1, 5}} /\ waker \in {{}, {1, 2}}
  /\ cpuif = FALSE
  /\ pc = "global" /\ i = 0
  /\ stores = {} /\ call = <<"none", 0>>
  /\ before = [enabled |-> enabled, latched |-> latched, group1 |-> group1,
               priority |-> priority, ctlr |-> ctlr]

At(label, next) == pc = label /\ pc' = next

\* A function begins, or the last one is over.
Enter == before' = [enabled |-> enabled, latched |-> latched, group1 |-> group1,
                    priority |-> priority, ctlr |-> ctlr]

\* gicv3_init_global(), up to the loops.
DisableDistributor ==
  /\ At("global", "clean")
  /\ Write({Gicd(GICD.CTLR, {})})
  /\ i' = SPI_NO_MIN
  /\ Enter
  /\ UNCHANGED <<cpuif, call>>

CleanWord_GroupsByByte ==
  /\ At("clean", IF i + 32 < SPI_NO_MAX THEN "clean" ELSE "priority")
  /\ Write({Gicd(GICD.ICENABLER + i \div 8, Ones), Gicd(GICD.ICPENDR + i \div 8, Ones),
            Gicd(GICD.IGROUPR + i, Ones)})
  /\ i' = IF i + 32 < SPI_NO_MAX THEN i + 32 ELSE SPI_NO_MIN
  /\ UNCHANGED <<cpuif, call, before>>

\* The first loop's body: disable, clear pending, group 1.
CleanWord ==
  /\ At("clean", IF i + 32 < SPI_NO_MAX THEN "clean" ELSE "priority")
  /\ Write({Gicd(GICD.ICENABLER + i \div 8, Ones), Gicd(GICD.ICPENDR + i \div 8, Ones),
            Gicd(GICD.IGROUPR + i \div 8, Ones)})
  /\ i' = IF i + 32 < SPI_NO_MAX THEN i + 32 ELSE SPI_NO_MIN
  /\ UNCHANGED <<cpuif, call, before>>

SetPriority ==
  /\ At("priority", IF i + 4 < SPI_NO_MAX THEN "priority" ELSE "enable")
  /\ Write({Gicd(GICD.IPRIORITYR + i, A0s)})
  /\ i' = i + 4
  /\ UNCHANGED <<cpuif, call, before>>

EnableDistributor ==
  /\ At("enable", "wakeup")
  /\ Write({Gicd(GICD.CTLR, {5, 1})})
  /\ UNCHANGED <<cpuif, i, call, before>>

Wakeup_BitKept ==
  /\ At("wakeup", "wait")
  /\ Write({Gicr(GICR.WAKER, waker \cup {1})})
  /\ UNCHANGED <<cpuif, i, call, before>>

\* gicv3_init_per_core(): ProcessorSleep, and the wait for ChildrenAsleep.
Wakeup ==
  /\ At("wakeup", "wait")
  /\ Write({Gicr(GICR.WAKER, waker \ {1})})
  /\ UNCHANGED <<cpuif, i, call, before>>

Awake ==
  /\ At("wait", "private")
  /\ 2 \notin waker
  /\ UNCHANGED <<device, cpuif, i, stores, call, before>>

CleanPrivate ==
  /\ At("private", "priorities")
  /\ Write({Gicr(GICR.ICENABLER0, Ones), Gicr(GICR.ICPENDR0, Ones),
            Gicr(GICR.IGROUPR0, Ones), Gicr(GICR.IGRPMODR0, {})})
  /\ i' = 0
  /\ Enter
  /\ UNCHANGED <<cpuif, call>>

SetPrivatePriority ==
  /\ At("priorities", IF i + 4 < 32 THEN "priorities" ELSE "cpuif")
  /\ Write({Gicr(GICR.IPRIORITYR0 + i, A0s)})
  /\ i' = i + 4
  /\ UNCHANGED <<cpuif, call, before>>

\* ICC_SRE_EL1, ICC_PMR_EL1 and ICC_IGRPEN1_EL1.
EnableCpuInterface ==
  /\ At("cpuif", "idle")
  /\ cpuif' = TRUE
  /\ Enter
  /\ UNCHANGED <<device, i, stores, call>>

-----------------------------------------------------------------------------
(* gicv3_irq_unmask() and gicv3_irq_mask(), behind gicv3_init() *)

WordOffset_NotTimes4(irq_no) == irq_no \div 32

\* The word of an SPI's bit.
WordOffset(irq_no) == (irq_no \div 32) * 4

\* The store of both: to `private` for SGIs and PPIs, to a word from `shared` on.
BitStore(irq_no, private, shared) ==
  IF irq_no > SPI_NO_MAX THEN {}
  ELSE IF irq_no <= PPI_NO_MAX THEN {Gicr(private, {irq_no % 32})}
  ELSE {Gicd(shared + WordOffset(irq_no), {irq_no % 32})}

GicIrqUnmask(irq_no) ==
  /\ pc = "idle"
  /\ Write(BitStore(irq_no, GICR.ISENABLER0, GICD.ISENABLER))
  /\ call' = <<"unmask", irq_no>>
  /\ UNCHANGED <<cpuif, pc, i, before>>

GicIrqMask(irq_no) ==
  /\ pc = "idle"
  /\ Write(BitStore(irq_no, GICR.ICENABLER0, GICD.ICENABLER))
  /\ call' = <<"mask", irq_no>>
  /\ UNCHANGED <<cpuif, pc, i, before>>

\* The store of gicv3_irq_set_type().
TypeStore(irq_no) ==
  IF PPI_NO_MIN <= irq_no /\ irq_no <= PPI_NO_MAX THEN Gicr(GICR.ICFGR1, icfgr'[1])
  ELSE Gicd(GICD.ICFGR + (irq_no \div 16) * 4, icfgr'[irq_no \div 16])

SetType(irq_no, type) ==
  /\ pc = "idle"
  /\ \/ GicIrqSetType(irq_no, type) /\ stores' = {TypeStore(irq_no)}
     \/ GicIrqSetTypeFails(irq_no, type) /\ stores' = {}
  /\ call' = <<"set_type", irq_no>>
  /\ UNCHANGED <<device, cpuif, pc, i, before>>

-----------------------------------------------------------------------------
InitStep ==
  \/ DisableDistributor \/ CleanWord \/ SetPriority \/ EnableDistributor
  \/ Wakeup \/ Awake \/ CleanPrivate \/ SetPrivatePriority \/ EnableCpuInterface

DriverNext ==
  \/ /\ \/ InitStep \/ RedistributorWakes
        \/ \E irq_no \in Asked : GicIrqUnmask(irq_no) \/ GicIrqMask(irq_no)
     /\ UNCHANGED vars
  \/ \E irq_no \in Intids, type \in Types : SetType(irq_no, type)

\* The code keeps running, and the redistributor wakes up when it is told to.
DriverSpec ==
  /\ DriverInit /\ [][DriverNext]_<<vars, driverVars>>
  /\ WF_driverVars(InitStep /\ UNCHANGED vars)
  /\ WF_driverVars(RedistributorWakes /\ UNCHANGED vars)

-----------------------------------------------------------------------------
(* Properties *)

\* Every store is to a word that ioremap() was asked to map, whatever the INTID: an
\* unaligned access to device memory, or one behind the region, faults.
StoresMapped ==
  \A s \in stores : s.offset % 4 = 0 /\ s.offset + 4 <= Mapped(s.region)

\* The INTIDs as module Gic sees them: a function takes effect with its last store.
Inside == pc \in {"clean", "priority", "enable", "priorities", "cpuif"}

Abstract == INSTANCE Gic WITH
  Intids <- Followed,
  enabled <- IF Inside THEN before.enabled ELSE enabled,
  latched <- IF Inside THEN before.latched ELSE latched,
  group1 <- IF Inside THEN before.group1 ELSE group1,
  priority <- IF Inside THEN before.priority ELSE priority,
  forwarding <- {1, 5} \subseteq IF Inside THEN before.ctlr ELSE ctlr,
  waker <- IF 1 \in waker THEN "asleep" ELSE IF 2 \in waker THEN "waking" ELSE "awake",
  active <- {}, line <- {}

StepsOfGic ==
  \/ pc = "enable" /\ Abstract!GicInitGlobal
  \/ pc = "wakeup" /\ Abstract!GicWakeup
  \/ pc = "cpuif" /\ Abstract!GicInitPerCore
  \/ pc = "wait" /\ Abstract!RedistributorWakes
  \/ pc = "idle" /\ call'[1] = "unmask" /\ Abstract!GicIrqUnmask(call'[2])
  \/ pc = "idle" /\ call'[1] = "mask" /\ Abstract!GicIrqMask(call'[2])
  \/ /\ pc = "idle" /\ call'[1] = "set_type"
     /\ \A s \in stores' : Frame(s) = 3072 + 4 * Register(call'[2])
     /\ UNCHANGED Abstract!gicVars
  \/ pc \notin {"enable", "wakeup", "cpuif", "idle"} /\ UNCHANGED Abstract!gicVars

\* The stores, by address, amount to what module Gic says of the INTIDs: the loops
\* leave no SPI out, mask and unmask write the bit of their own INTID only, and set_type
\* reaches the register whose fields module GicTrigger changes.
ImplementsGic == [][StepsOfGic]_<<vars, driverVars>>

\* gicv3_init() returns: its wait for the redistributor ends.
InitReturns == <>(pc = "idle")
=============================================================================
