----------------------------- MODULE IrqProofs -----------------------------
(***************************************************************************)
(* The safety of interrupt dispatch, for every set of INTIDs that the      *)
(* model follows and of drivers.                                           *)
(***************************************************************************)
EXTENDS Irq, TLAPS

-----------------------------------------------------------------------------
(* The words and bits that the driver of the controller writes *)

\* The loops of gicv3_init_global() leave no SPI out and touch nothing else.
LEMMA LoopsCoverSpis ==
  ASSUME NEW step \in {4, 32}
  PROVE  LoopCovers(SPI_NO_MAX, step) = {i \in Intids : i > PPI_NO_MAX}
<1>1. ASSUME NEW i \in Intids, i > 31
      PROVE  i \in LoopCovers(1020, step)
  <2> DEFINE k == (i - 32) \div step
  <2>1. CASE step = 4
    <3>1. k \in 0 .. 255 /\ 32 + k * 4 < 1020 /\ i \in 32 + k * 4 .. 32 + k * 4 + 3
      BY GicAssumption, <1>1, <2>1
    <3> QED
      BY GicAssumption, <3>1, <1>1, <2>1 DEF LoopCovers, SPI_NO_MIN
  <2>2. CASE step = 32
    <3>1. k \in 0 .. 31 /\ 32 + k * 32 < 1020 /\ i \in 32 + k * 32 .. 32 + k * 32 + 31
      BY GicAssumption, <1>1, <2>2
    <3> QED
      BY GicAssumption, <3>1, <1>1, <2>2 DEF LoopCovers, SPI_NO_MIN
  <2> QED
    BY <2>1, <2>2
<1>2. ASSUME NEW i \in LoopCovers(1020, step)
      PROVE  i \in Intids /\ i > 31
  <2>1. CASE step = 4
    BY <1>2, <2>1 DEF LoopCovers, SPI_NO_MIN
  <2>2. CASE step = 32
    BY <1>2, <2>2 DEF LoopCovers, SPI_NO_MIN
  <2> QED
    BY <2>1, <2>2
<1>3. {i \in Intids : i > 31} \subseteq LoopCovers(1020, step)
  <2> SUFFICES ASSUME NEW i \in {j \in Intids : j > 31}
               PROVE  i \in LoopCovers(1020, step)
    OBVIOUS
  <2> QED
    BY <1>1
<1>4. LoopCovers(1020, step) \subseteq {i \in Intids : i > 31}
  BY <1>2
<1> QED
  BY <1>3, <1>4 DEF SPI_NO_MAX, PPI_NO_MAX

\* The bit that mask and unmask write for an INTID is its own.
LEMMA OwnBit ==
  ASSUME NEW i \in Intids
  PROVE  EnableBit(i) = {i}
<1>1. i \in 0 .. 1019 /\ 32 * (i \div 32) + (i % 32) = i
    BY GicAssumption
<1> QED
  BY <1>1 DEF EnableBit, DistributorBit, SPI_NO_MAX, PPI_NO_MAX

-----------------------------------------------------------------------------
(* The inductive invariant *)

\* What gicv3_init() has done by each of its steps.
InitInv ==
  /\ booted < 4 => /\ pc = "task" /\ driver = IDLE /\ active = {} /\ off = {}
                   /\ \A i \in Intids : handler[i] = NULL /\ dev_id[i] = NULL
  /\ booted \in 1 .. 3 => \A i \in enabled : i <= PPI_NO_MAX
  /\ booted = 3 => enabled = {}
  /\ booted >= 1 => \A i \in Intids : i > PPI_NO_MAX =>
                      i \in group1 /\ priority[i] = PENDING_PRIORITY
  /\ booted >= 3 => \A i \in Intids : i <= PPI_NO_MAX =>
                      i \in group1 /\ priority[i] = PENDING_PRIORITY
  /\ booted = 4 => \A i \in Intids : chip[i]

\* A descriptor is its own INTID's, complete as far as the driver has got.
DescriptorInv ==
  /\ \A i \in Intids : handler[i] \in {NULL, i}
  /\ \A i \in Intids : handler[i] = i /\ driver # <<"dev_id", i>> => dev_id[i] = i
  /\ driver # IDLE => driver[1] # "none" /\ driver[2] \in Drivers
  /\ driver[1] = "handler" => handler[driver[2]] = NULL
  /\ driver[1] \in {"dev_id", "unmask"} => handler[driver[2]] = driver[2]
  /\ driver[2] \notin off
  /\ \A i \in off : handler[i] = i

\* What is enabled is what was requested and is not disabled.
EnabledInv ==
  booted = 4 =>
    \A i \in Intids : i \in enabled <=> handler[i] = i /\ driver[2] # i /\ i \notin off

\* What is active is what do_irq() is at.
ActiveInv ==
  /\ pc \in {"task", "ack", "exit"} => active = {}
  /\ pc = "do_irq" => \/ irq_no = SPURIOUS /\ active = {}
                      \/ irq_no \in enabled /\ active = {irq_no}
  /\ pc = "eoi" => irq_no \in enabled /\ active = {irq_no}

IrqInv == TypeOK /\ InitInv /\ DescriptorInv /\ EnabledInv /\ ActiveInv

LEMMA IrqInvInit == Init => IrqInv
<1> SUFFICES ASSUME Init
             PROVE  IrqInv
  OBVIOUS
<1>1. TypeOK
  <2>1. /\ enabled \subseteq Intids /\ latched \subseteq Intids /\ group1 \subseteq Intids
        /\ active \subseteq Intids /\ line \subseteq Intids /\ off \subseteq Intids
    BY DEF Init
  <2>2. priority \in [Intids -> 0 .. 255]
    BY DEF Init
  <2>3. forwarding \in BOOLEAN /\ cpuif \in BOOLEAN /\ chip \in [Intids -> BOOLEAN]
    BY DEF Init
  <2>4. /\ waker \in {"asleep", "waking", "awake"}
        /\ booted \in 0 .. 4
        /\ handler \in [Intids -> Intids \cup {NULL}]
        /\ dev_id \in [Intids -> Intids \cup {NULL}]
    BY DEF Init
  <2>5. /\ driver \in {"none", "handler", "dev_id", "unmask"} \X (Intids \cup {NULL})
        /\ pc \in {"task", "ack", "do_irq", "eoi", "exit"}
        /\ irq_no \in Intids \cup {NULL, SPURIOUS}
    BY DEF Init, IDLE
  <2> QED
    BY <2>1, <2>2, <2>3, <2>4, <2>5 DEF TypeOK, SetsOK, TablesOK, DriverOK, PointsOK
<1>2. InitInv /\ DescriptorInv /\ EnabledInv /\ ActiveInv
  BY DEF Init, InitInv, DescriptorInv, EnabledInv, ActiveInv, IDLE, NULL
<1> QED
  BY <1>1, <1>2 DEF IrqInv

-----------------------------------------------------------------------------
(* gicv3_init() *)

LEMMA InitGlobalStep ==
  ASSUME IrqInv, BootStep(0), GicInitGlobal, UNCHANGED <<irqVars, driver, off, cpuVars>>
  PROVE  IrqInv'
<1> DEFINE spis == {i \in Intids : i > PPI_NO_MAX}
<1>1. /\ enabled' = enabled \ spis /\ latched' = latched \ spis
      /\ group1' = group1 \cup spis
      /\ priority' = [i \in Intids |-> IF i \in spis THEN PENDING_PRIORITY ELSE priority[i]]
      /\ forwarding' = TRUE
      /\ UNCHANGED <<active, waker, cpuif, line>>
  BY LoopsCoverSpis DEF GicInitGlobal
<1>2. booted = 0 /\ booted' = 1 /\ UNCHANGED <<chip, handler, dev_id, driver, off, pc, irq_no>>
  BY DEF BootStep, irqVars, cpuVars
<1>3. TypeOK'
  <2>1. forwarding' \in BOOLEAN /\ cpuif' \in BOOLEAN
    BY <1>1 DEF IrqInv, TypeOK, PointsOK
  <2>2. priority' \in [Intids -> 0 .. 255]
    BY <1>1 DEF IrqInv, TypeOK, TablesOK, PENDING_PRIORITY
  <2>3. enabled' \subseteq Intids /\ latched' \subseteq Intids /\ group1' \subseteq Intids
    <3>1. enabled \subseteq Intids /\ latched \subseteq Intids /\ group1 \subseteq Intids
      BY DEF IrqInv, TypeOK, SetsOK
    <3>2. spis \subseteq Intids
      OBVIOUS
    <3> HIDE DEF spis
    <3>3. /\ enabled' = enabled \ spis /\ latched' = latched \ spis
          /\ group1' = group1 \cup spis
      BY <1>1, Zenon
    <3> QED
      BY <3>1, <3>2, <3>3, Zenon
  <2>4. UNCHANGED <<active, waker, line>>
    BY <1>1
  <2> QED
    BY <1>2, <2>1, <2>2, <2>3, <2>4 DEF IrqInv, TypeOK, SetsOK, TablesOK, DriverOK,
       PointsOK
<1>4. InitInv'
  BY GicAssumption, <1>1, <1>2 DEF IrqInv, TypeOK, SetsOK, InitInv, PPI_NO_MAX
<1>5. DescriptorInv' /\ EnabledInv' /\ ActiveInv'
  BY <1>1, <1>2 DEF IrqInv, TypeOK, InitInv, DescriptorInv, EnabledInv, ActiveInv
<1> QED
  BY <1>3, <1>4, <1>5 DEF IrqInv

LEMMA WakeupStep ==
  ASSUME IrqInv, BootStep(1), GicWakeup, UNCHANGED <<irqVars, driver, off, cpuVars>>
  PROVE  IrqInv'
<1>1. /\ booted = 1 /\ booted' = 2
      /\ UNCHANGED <<enabled, latched, group1, priority, active, forwarding, cpuif, line,
                     chip, handler, dev_id, driver, off, pc, irq_no>>
      /\ waker' \in {"asleep", "waking", "awake"}
  BY DEF BootStep, GicWakeup, irqVars, cpuVars, IrqInv, TypeOK, PointsOK
<1>2. TypeOK'
  BY <1>1 DEF IrqInv, TypeOK, SetsOK, TablesOK, DriverOK, PointsOK
<1> QED
  BY <1>1, <1>2 DEF IrqInv, InitInv, DescriptorInv, EnabledInv, ActiveInv

LEMMA InitPerCoreStep ==
  ASSUME IrqInv, BootStep(2), GicInitPerCore, UNCHANGED <<irqVars, driver, off, cpuVars>>
  PROVE  IrqInv'
<1>1. booted = 2 /\ booted' = 3 /\ UNCHANGED <<chip, handler, dev_id, driver, off, pc, irq_no>>
  BY DEF BootStep, irqVars, cpuVars
<1>2. TypeOK'
  <2>1. /\ enabled' = enabled \ Private /\ latched' = latched \ Private
        /\ group1' = group1 \cup Private /\ Private \subseteq Intids
        /\ UNCHANGED <<active, waker, forwarding, line>>
    BY DEF GicInitPerCore, Private
  <2>2. priority' \in [Intids -> 0 .. 255]
    BY DEF GicInitPerCore, PENDING_PRIORITY, IrqInv, TypeOK, TablesOK
  <2>3. cpuif' \in BOOLEAN /\ forwarding' \in BOOLEAN /\ chip' \in [Intids -> BOOLEAN]
    BY <1>1, <2>1 DEF GicInitPerCore, IrqInv, TypeOK, TablesOK, PointsOK
  <2> QED
    BY <1>1, <2>1, <2>2, <2>3 DEF IrqInv, TypeOK, SetsOK, TablesOK, DriverOK, PointsOK
<1>3. InitInv'
  <2>1. ASSUME NEW i \in enabled PROVE i \in Private
    BY <1>1 DEF IrqInv, TypeOK, SetsOK, InitInv, Private
  <2>2. \A i \in Intids : i > PPI_NO_MAX =>
          i \in group1' /\ priority'[i] = PENDING_PRIORITY
    BY <1>1 DEF IrqInv, TypeOK, InitInv, GicInitPerCore, Private
  <2>3. \A i \in Intids : i <= PPI_NO_MAX =>
          i \in group1' /\ priority'[i] = PENDING_PRIORITY
    BY <1>1 DEF IrqInv, TypeOK, InitInv, GicInitPerCore, Private
  <2>4. enabled' = {}
    BY <2>1 DEF GicInitPerCore
  <2> QED
    BY <1>1, <2>2, <2>3, <2>4 DEF IrqInv, InitInv, GicInitPerCore
<1>4. DescriptorInv' /\ EnabledInv' /\ ActiveInv'
  BY <1>1 DEF IrqInv, TypeOK, InitInv, DescriptorInv, EnabledInv, ActiveInv,
     GicInitPerCore
<1> QED
  BY <1>2, <1>3, <1>4 DEF IrqInv

LEMMA SetChipStep ==
  ASSUME IrqInv, IrqSetChip
  PROVE  IrqInv'
<1>1. /\ booted = 3 /\ booted' = 4
      /\ UNCHANGED <<enabled, latched, group1, priority, active, waker, forwarding, cpuif,
                     line, handler, dev_id, driver, off, pc, irq_no>>
  BY DEF IrqSetChip, BootStep, gicVars, cpuVars
<1>0. \A i \in Intids : i <= SPI_NO_MAX
  BY GicAssumption DEF SPI_NO_MAX
<1>c. chip' = [i \in Intids |-> i <= SPI_NO_MAX \/ chip[i]]
  BY DEF IrqSetChip
<1>2. \A i \in Intids : chip'[i] = TRUE
  BY <1>0, <1>c, Zenon
<1>3. chip' = [i \in Intids |-> TRUE]
  BY <1>2, <1>c, Zenon
<1>4. TypeOK'
  <2>1. chip' \in [Intids -> BOOLEAN]
    BY <1>3
  <2> QED
    BY <1>1, <2>1 DEF IrqInv, TypeOK, SetsOK, TablesOK, DriverOK, PointsOK
<1>5. InitInv'
  <2>1. \A i \in Intids : chip'[i]
    BY <1>2, Zenon
  <2>2. \A i \in Intids : i > PPI_NO_MAX =>
          i \in group1' /\ priority'[i] = PENDING_PRIORITY
    BY <1>1 DEF IrqInv, InitInv
  <2>3. \A i \in Intids : i <= PPI_NO_MAX =>
          i \in group1' /\ priority'[i] = PENDING_PRIORITY
    BY <1>1 DEF IrqInv, InitInv
  <2>4. ~ (booted' < 4) /\ booted' \notin 1 .. 3 /\ booted' # 3
    BY <1>1
  <2> QED
    BY <2>1, <2>2, <2>3, <2>4, Zenon DEF InitInv
<1>6. DescriptorInv' /\ EnabledInv' /\ ActiveInv'
  BY GicAssumption, <1>1 DEF IrqInv, InitInv, DescriptorInv, EnabledInv, ActiveInv, NULL
<1> QED
  BY <1>4, <1>5, <1>6 DEF IrqInv

-----------------------------------------------------------------------------
(* Drivers: nothing is called before gicv3_init() is done *)

\* Where a driver is, when it is in request_irq().
LEMMA InRequest ==
  ASSUME IrqInv, driver[1] \in {"handler", "dev_id", "unmask"}
  PROVE  /\ booted = 4
         /\ driver[2] \in Drivers /\ driver[2] \in Intids
         /\ driver = <<driver[1], driver[2]>>
<1>1. driver # IDLE
  BY DEF IDLE
<1>2. booted = 4
  BY <1>1 DEF IrqInv, TypeOK, PointsOK, InitInv
<1>3. driver[2] \in Drivers
  BY <1>1 DEF IrqInv, DescriptorInv
<1>4. driver = <<driver[1], driver[2]>>
  BY DEF IrqInv, TypeOK, DriverOK
<1> QED
  BY IrqAssumption, <1>2, <1>3, <1>4

LEMMA RequestStep ==
  ASSUME IrqInv, NEW i \in Drivers, RequestIrq(i)
  PROVE  IrqInv'
<1>1. /\ booted = 4 /\ driver = IDLE /\ driver' = <<"handler", i>> /\ i \in Intids
      /\ handler[i] = NULL
      /\ UNCHANGED <<enabled, latched, group1, priority, active, waker, forwarding, cpuif,
                     line, chip, handler, dev_id, booted, off, pc, irq_no>>
  BY IrqAssumption DEF RequestIrq, Running, Call, gicVars, irqVars, cpuVars
<1>2. TypeOK'
  BY <1>1 DEF IrqInv, TypeOK, SetsOK, TablesOK, DriverOK, PointsOK
<1>n. i # NULL
  BY GicAssumption, <1>1 DEF NULL
<1>3. i \notin off /\ i \notin enabled
  BY <1>1, <1>n DEF IrqInv, DescriptorInv, EnabledInv
<1>4. InitInv' /\ ActiveInv'
  BY <1>1 DEF IrqInv, InitInv, ActiveInv
<1>5. DescriptorInv'
  BY <1>1, <1>3 DEF IrqInv, DescriptorInv, IDLE
<1>6. EnabledInv'
  <2>1. \A j \in Intids : j # NULL
    BY GicAssumption DEF NULL
  <2>2. driver[2] = NULL /\ driver'[2] = i
    BY <1>1 DEF IDLE
  <2>3. \A j \in Intids : j \in enabled <=> handler[j] = j /\ j \notin off
    BY <1>1, <2>1, <2>2 DEF IrqInv, EnabledInv
  <2>4. \A j \in Intids : handler[j] = j => j # i
    BY <1>1, <1>n
  <2> QED
    BY <1>1, <2>2, <2>3, <2>4 DEF EnabledInv
<1> QED
  BY <1>2, <1>4, <1>5, <1>6 DEF IrqInv

LEMMA SaveHandlerStep ==
  ASSUME IrqInv, SaveHandler
  PROVE  IrqInv'
<1> DEFINE i == driver[2]
<1>1. /\ booted = 4 /\ i \in Drivers /\ i \in Intids /\ driver = <<"handler", i>>
      /\ driver' = <<"dev_id", i>>
      /\ handler' = [handler EXCEPT ![i] = i]
      /\ UNCHANGED <<enabled, latched, group1, priority, active, waker, forwarding, cpuif,
                     line, chip, dev_id, booted, off, pc, irq_no>>
  BY InRequest DEF SaveHandler, Call, gicVars, cpuVars
<1>2. TypeOK'
  BY <1>1 DEF IrqInv, TypeOK, SetsOK, TablesOK, DriverOK, PointsOK
<1>3. InitInv' /\ ActiveInv'
  BY <1>1 DEF IrqInv, InitInv, ActiveInv
<1>4. DescriptorInv'
  BY <1>1 DEF IrqInv, TypeOK, TablesOK, DescriptorInv, IDLE
<1>5. EnabledInv'
  BY <1>1 DEF IrqInv, TypeOK, EnabledInv, DescriptorInv, NULL
<1> QED
  BY <1>2, <1>3, <1>4, <1>5 DEF IrqInv

LEMMA SaveDevIdStep ==
  ASSUME IrqInv, SaveDevId
  PROVE  IrqInv'
<1> DEFINE i == driver[2]
<1>1. /\ booted = 4 /\ i \in Drivers /\ i \in Intids /\ driver = <<"dev_id", i>>
      /\ driver' = <<"unmask", i>>
      /\ dev_id' = [dev_id EXCEPT ![i] = i]
      /\ UNCHANGED <<enabled, latched, group1, priority, active, waker, forwarding, cpuif,
                     line, chip, handler, booted, off, pc, irq_no>>
  BY InRequest DEF SaveDevId, Call, gicVars, cpuVars
<1>2. TypeOK'
  BY <1>1 DEF IrqInv, TypeOK, SetsOK, TablesOK, DriverOK, PointsOK
<1>3. InitInv' /\ ActiveInv'
  BY <1>1 DEF IrqInv, InitInv, ActiveInv
<1>4. DescriptorInv'
  BY <1>1 DEF IrqInv, TypeOK, TablesOK, DescriptorInv, IDLE
<1>5. EnabledInv'
  BY <1>1 DEF IrqInv, TypeOK, EnabledInv, DescriptorInv
<1> QED
  BY <1>2, <1>3, <1>4, <1>5 DEF IrqInv

LEMMA RequestUnmasksStep ==
  ASSUME IrqInv, RequestUnmasks
  PROVE  IrqInv'
<1> DEFINE i == driver[2]
<1>1. /\ booted = 4 /\ i \in Drivers /\ i \in Intids /\ driver = <<"unmask", i>>
      /\ driver' = IDLE
      /\ UNCHANGED <<chip, handler, dev_id, booted, off, pc, irq_no>>
  BY InRequest DEF RequestUnmasks, irqVars, cpuVars
<1>2. chip[i]
  BY <1>1 DEF IrqInv, InitInv
<1>g. GicIrqUnmask(i)
  BY <1>2, Zenon DEF RequestUnmasks
<1>3. /\ enabled' = enabled \cup {i}
      /\ UNCHANGED <<latched, group1, priority, active, waker, forwarding, cpuif, line>>
  <2>0. i \in Intids
    BY <1>1
  <2> HIDE DEF i
  <2>1. EnableBit(i) = {i} /\ {i} \cap Intids = {i}
    BY <2>0, OwnBit
  <2> QED
    BY <1>g, <2>1, Zenon DEF GicIrqUnmask
<1>4. TypeOK'
  <2>1. driver' \in {"none", "handler", "dev_id", "unmask"} \X (Intids \cup {NULL})
    BY <1>1 DEF IDLE
  <2>2. enabled' \subseteq Intids
    <3>1. enabled \subseteq Intids /\ i \in Intids
      BY <1>1 DEF IrqInv, TypeOK, SetsOK
    <3> HIDE DEF i
    <3> QED
      BY <1>3, <3>1, Zenon
  <2> QED
    BY <1>1, <1>3, <2>1, <2>2 DEF IrqInv, TypeOK, SetsOK, TablesOK, DriverOK, PointsOK
<1>5. InitInv' /\ ActiveInv'
  BY <1>1, <1>3 DEF IrqInv, InitInv, ActiveInv
<1>6. DescriptorInv'
  BY GicAssumption, <1>1 DEF IrqInv, TypeOK, SetsOK, DescriptorInv, IDLE, NULL
<1>7. EnabledInv'
  BY GicAssumption, <1>1, <1>3 DEF IrqInv, TypeOK, EnabledInv, DescriptorInv, IDLE, NULL
<1> QED
  BY <1>4, <1>5, <1>6, <1>7 DEF IrqInv

LEMMA EnableStep ==
  ASSUME IrqInv, NEW i \in Drivers, EnableIrq(i)
  PROVE  IrqInv'
<1>1. /\ booted = 4 /\ driver = IDLE /\ i \in Intids /\ handler[i] = i /\ pc = "task"
      /\ enabled' = enabled \cup {i} /\ off' = off \ {i}
      /\ UNCHANGED <<latched, group1, priority, active, waker, forwarding, cpuif, line,
                     chip, handler, dev_id, driver, booted, pc, irq_no>>
  BY IrqAssumption, OwnBit
     DEF EnableIrq, Requested, InTask, GicIrqUnmask, irqVars, cpuVars, IrqInv,
         InitInv, TypeOK, PointsOK, DescriptorInv
<1>2. TypeOK'
  BY <1>1 DEF IrqInv, TypeOK, SetsOK, TablesOK, DriverOK, PointsOK
<1>3. InitInv' /\ ActiveInv'
  BY <1>1 DEF IrqInv, InitInv, ActiveInv
<1>n. driver[2] = NULL /\ i # NULL
  BY GicAssumption, <1>1 DEF IDLE, NULL
<1>4. DescriptorInv'
  BY <1>1, <1>n DEF IrqInv, DescriptorInv
<1>5. EnabledInv'
  BY <1>1, <1>n DEF IrqInv, EnabledInv
<1> QED
  BY <1>2, <1>3, <1>4, <1>5 DEF IrqInv

LEMMA DisableStep ==
  ASSUME IrqInv, NEW i \in Drivers, DisableIrq(i)
  PROVE  IrqInv'
<1>1. /\ booted = 4 /\ driver = IDLE /\ i \in Intids /\ handler[i] = i /\ pc = "task"
      /\ enabled' = enabled \ {i} /\ off' = off \cup {i}
      /\ UNCHANGED <<latched, group1, priority, active, waker, forwarding, cpuif, line,
                     chip, handler, dev_id, driver, booted, pc, irq_no>>
  BY IrqAssumption, OwnBit
     DEF DisableIrq, Requested, InTask, GicIrqMask, irqVars, cpuVars, IrqInv,
         InitInv, TypeOK, PointsOK, DescriptorInv
<1>2. TypeOK'
  BY <1>1 DEF IrqInv, TypeOK, SetsOK, TablesOK, DriverOK, PointsOK
<1>3. InitInv' /\ ActiveInv'
  BY <1>1 DEF IrqInv, InitInv, ActiveInv
<1>n. driver[2] = NULL /\ i # NULL
  BY GicAssumption, <1>1 DEF IDLE, NULL
<1>4. DescriptorInv'
  BY <1>1, <1>n DEF IrqInv, DescriptorInv
<1>5. EnabledInv'
  BY <1>1, <1>n DEF IrqInv, EnabledInv
<1> QED
  BY <1>2, <1>3, <1>4, <1>5 DEF IrqInv

-----------------------------------------------------------------------------
(* The interrupt path and the devices *)

LEMMA TakeIrqStep ==
  ASSUME IrqInv, TakeIrq
  PROVE  IrqInv'
<1>1. /\ booted = 4 /\ pc = "task" /\ pc' = "ack"
      /\ UNCHANGED <<enabled, latched, group1, priority, active, waker, forwarding, cpuif,
                     line, chip, handler, dev_id, booted, driver, off, irq_no>>
  BY DEF TakeIrq, Running, InTask, gicVars, irqVars, taskVars
<1> QED
  BY <1>1 DEF IrqInv, TypeOK, SetsOK, TablesOK, DriverOK, PointsOK, InitInv,
     DescriptorInv, EnabledInv, ActiveInv

LEMMA AcknowledgeStep ==
  ASSUME IrqInv, Acknowledge
  PROVE  IrqInv'
<1>1. /\ pc = "ack" /\ pc' = "do_irq"
      /\ UNCHANGED <<chip, handler, dev_id, booted, driver, off>>
  BY DEF Acknowledge, irqVars, taskVars
<1>2. booted = 4
  BY <1>1 DEF IrqInv, TypeOK, PointsOK, InitInv
<1>3. CASE \E i \in Signalled : AcknowledgeIrq(i) /\ irq_no' = i
  <2>1. PICK i \in Signalled : AcknowledgeIrq(i) /\ irq_no' = i
    BY <1>3
  <2>2. Signalled \subseteq enabled
    BY DEF Signalled, Wanted
  <2>3. /\ i \in enabled /\ i \in Intids /\ irq_no' = i /\ active' = {i}
        /\ latched' \subseteq Intids
        /\ UNCHANGED <<enabled, group1, priority, waker, forwarding, cpuif, line>>
    <3>1. i \in enabled /\ i \in Intids /\ latched \subseteq Intids
      BY <2>1, <2>2 DEF IrqInv, TypeOK, SetsOK
    <3>2. active = {}
      BY <1>1 DEF IrqInv, ActiveInv
    <3> QED
      BY <2>1, <3>1, <3>2 DEF AcknowledgeIrq
  <2>4. TypeOK'
    BY <1>1, <2>3 DEF IrqInv, TypeOK, SetsOK, TablesOK, DriverOK, PointsOK
  <2>5. InitInv' /\ DescriptorInv' /\ EnabledInv'
    BY <1>1, <1>2, <2>3 DEF IrqInv, InitInv, DescriptorInv, EnabledInv
  <2>6. ActiveInv'
    BY <1>1, <2>3 DEF ActiveInv
  <2> QED
    BY <2>4, <2>5, <2>6 DEF IrqInv
<1>4. CASE irq_no' = SPURIOUS /\ UNCHANGED gicVars
  <2>1. TypeOK'
    BY <1>1, <1>4 DEF IrqInv, TypeOK, SetsOK, TablesOK, DriverOK, PointsOK, gicVars
  <2>2. InitInv' /\ DescriptorInv' /\ EnabledInv'
    BY <1>1, <1>2, <1>4 DEF IrqInv, InitInv, DescriptorInv, EnabledInv, gicVars
  <2>3. ActiveInv'
    BY <1>1, <1>4 DEF IrqInv, ActiveInv, gicVars
  <2> QED
    BY <2>1, <2>2, <2>3 DEF IrqInv
<1> QED
  BY <1>3, <1>4 DEF Acknowledge

LEMMA SpuriousStep ==
  ASSUME IrqInv, DoIrqSpurious
  PROVE  IrqInv'
<1>1. /\ pc = "do_irq" /\ pc' = "exit" /\ irq_no >= 1023
      /\ UNCHANGED <<enabled, latched, group1, priority, active, waker, forwarding, cpuif,
                     line, chip, handler, dev_id, booted, driver, off, irq_no>>
  BY DEF DoIrqSpurious, gicVars, irqVars, taskVars
<1>2. active = {}
  BY GicAssumption, <1>1 DEF IrqInv, TypeOK, SetsOK, ActiveInv
<1> QED
  BY <1>1, <1>2 DEF IrqInv, TypeOK, SetsOK, TablesOK, DriverOK, PointsOK, InitInv,
     DescriptorInv, EnabledInv, ActiveInv

LEMMA HandlesStep ==
  ASSUME IrqInv, DoIrqHandles
  PROVE  IrqInv'
<1>1. /\ pc = "do_irq" /\ pc' = "eoi" /\ irq_no < 1023
      /\ UNCHANGED <<chip, handler, dev_id, booted, driver, off, irq_no>>
  BY DEF DoIrqHandles, irqVars, taskVars
<1>2. /\ line' \subseteq line
      /\ UNCHANGED <<enabled, latched, group1, priority, active, waker, forwarding, cpuif>>
  BY DEF DoIrqHandles, DropLine, gicVars
<1>3. irq_no \in enabled /\ active = {irq_no}
  BY <1>1 DEF IrqInv, ActiveInv, SPURIOUS
<1> QED
  BY <1>1, <1>2, <1>3 DEF IrqInv, TypeOK, SetsOK, TablesOK, DriverOK, PointsOK, InitInv,
     DescriptorInv, EnabledInv, ActiveInv

LEMMA EoiStep ==
  ASSUME IrqInv, DoIrqEoi
  PROVE  IrqInv'
<1>1. /\ pc = "eoi" /\ pc' = "exit"
      /\ UNCHANGED <<chip, handler, dev_id, booted, driver, off, irq_no>>
  BY DEF DoIrqEoi, irqVars, taskVars
<1>2. booted = 4 /\ irq_no \in Intids /\ active = {irq_no}
  BY <1>1 DEF IrqInv, TypeOK, SetsOK, PointsOK, InitInv, ActiveInv
<1>3. chip[irq_no]
  BY <1>2 DEF IrqInv, InitInv
<1>4. GicIrqEoi(irq_no)
  BY <1>3, Zenon DEF DoIrqEoi
<1>5. /\ active' = {}
      /\ UNCHANGED <<enabled, latched, group1, priority, waker, forwarding, cpuif, line>>
  BY GicAssumption, <1>2, <1>4 DEF GicIrqEoi, SPI_NO_MAX
<1> QED
  BY <1>1, <1>5 DEF IrqInv, TypeOK, SetsOK, TablesOK, DriverOK, PointsOK, InitInv,
     DescriptorInv, EnabledInv, ActiveInv

LEMMA ExitStep ==
  ASSUME IrqInv, KernelExit
  PROVE  IrqInv'
<1>1. /\ pc = "exit" /\ pc' = "task" /\ irq_no' = NULL
      /\ UNCHANGED <<enabled, latched, group1, priority, active, waker, forwarding, cpuif,
                     line, chip, handler, dev_id, booted, driver, off>>
  BY DEF KernelExit, gicVars, irqVars, taskVars
<1> QED
  BY <1>1 DEF IrqInv, TypeOK, SetsOK, TablesOK, DriverOK, PointsOK, InitInv,
     DescriptorInv, EnabledInv, ActiveInv

LEMMA DeviceStep ==
  ASSUME IrqInv, Devices
  PROVE  IrqInv'
<1>1. UNCHANGED <<chip, handler, dev_id, booted, driver, off, pc, irq_no>>
  BY DEF Devices, irqVars, taskVars, cpuVars
<1>2. /\ line' \subseteq Intids /\ waker' \in {"asleep", "waking", "awake"}
      /\ UNCHANGED <<enabled, latched, group1, priority, active, forwarding, cpuif>>
  <2>1. CASE RedistributorWakes
    BY <2>1 DEF RedistributorWakes, IrqInv, TypeOK, SetsOK
  <2>2. CASE \E i \in Drivers : RaiseLine(i) \/ DropLine(i)
    <3>1. PICK i \in Drivers : RaiseLine(i) \/ DropLine(i)
      BY <2>2
    <3>2. line \subseteq Intids /\ i \in Intids /\ waker \in {"asleep", "waking", "awake"}
      BY IrqAssumption DEF IrqInv, TypeOK, SetsOK, PointsOK
    <3>3. CASE RaiseLine(i)
      BY <3>2, <3>3 DEF RaiseLine
    <3>4. CASE DropLine(i)
      BY <3>2, <3>4 DEF DropLine
    <3> QED
      BY <3>1, <3>3, <3>4
  <2> QED
    BY <2>1, <2>2 DEF Devices
<1> QED
  BY <1>1, <1>2 DEF IrqInv, TypeOK, SetsOK, TablesOK, DriverOK, PointsOK, InitInv,
     DescriptorInv, EnabledInv, ActiveInv

-----------------------------------------------------------------------------
LEMMA IrqInvStep == IrqInv /\ [Next]_vars => IrqInv'
<1> SUFFICES ASSUME IrqInv, [Next]_vars
             PROVE  IrqInv'
  OBVIOUS
<1>1. CASE Boot
  BY <1>1, InitGlobalStep, WakeupStep, InitPerCoreStep, SetChipStep DEF Boot, GicInit
<1>2. CASE DriverStep
  BY <1>2, SaveHandlerStep, SaveDevIdStep, RequestUnmasksStep DEF DriverStep
<1>3. CASE TakeIrq
  BY <1>3, TakeIrqStep
<1>4. CASE InterruptPath
  BY <1>4, AcknowledgeStep, SpuriousStep, HandlesStep, EoiStep, ExitStep DEF InterruptPath
<1>5. CASE Devices
  BY <1>5, DeviceStep
<1>6. CASE \E i \in Drivers : RequestIrq(i) \/ EnableIrq(i) \/ DisableIrq(i)
  BY <1>6, RequestStep, EnableStep, DisableStep
<1>7. CASE UNCHANGED vars
  BY <1>7 DEF IrqInv, TypeOK, SetsOK, TablesOK, DriverOK, PointsOK, InitInv,
     DescriptorInv, EnabledInv, ActiveInv,
     vars, gicVars, irqVars, taskVars, cpuVars
<1> QED
  BY <1>1, <1>2, <1>3, <1>4, <1>5, <1>6, <1>7 DEF Next

\* The invariant, whatever firmware left, whichever drivers and devices there are.
THEOREM IrqInvariance == Spec => []IrqInv
BY IrqInvInit, IrqInvStep, PTL DEF Spec

\* The distributor's and the drivers' state keep their types, whatever firmware left.
THEOREM IrqTypeCorrect == Spec => []TypeOK
<1>1. IrqInv => TypeOK
  BY DEF IrqInv
<1> QED
  BY <1>1, IrqInvariance, PTL

\* No interrupt comes without its handler or with a dev_id that is not stored yet.
THEOREM CompleteWhenEnabled == Spec => []EnabledIsComplete
<1>1. IrqInv => EnabledIsComplete
  <2> SUFFICES ASSUME IrqInv, Running, NEW i \in enabled
               PROVE  handler[i] = i /\ dev_id[i] = i
    BY DEF EnabledIsComplete
  <2>1. i \in Intids /\ handler[i] = i /\ driver[2] # i
    BY DEF IrqInv, TypeOK, SetsOK, EnabledInv, Running
  <2>2. driver # <<"dev_id", i>>
    BY <2>1
  <2> QED
    BY <2>1, <2>2 DEF IrqInv, DescriptorInv
<1> QED
  BY <1>1, IrqInvariance, PTL

\* A requested interrupt that is not disabled passes the controller, whatever its INTID.
THEOREM DeliverableWhenRequested == Spec => []RequestedIsDeliverable
<1>1. IrqInv => RequestedIsDeliverable
  <2> SUFFICES ASSUME IrqInv, NEW i \in Drivers, handler[i] = i, i \notin off, driver[2] # i
               PROVE  i \in enabled /\ i \in group1 /\ priority[i] = PENDING_PRIORITY
    BY DEF RequestedIsDeliverable
  <2>1. i \in Intids /\ i \in 0 .. 1019 /\ handler[i] # NULL
    BY GicAssumption, IrqAssumption DEF NULL
  <2>2. booted = 4
    BY <2>1 DEF IrqInv, TypeOK, PointsOK, InitInv
  <2>3. i \in enabled
    BY <2>1, <2>2 DEF IrqInv, EnabledInv
  <2>4. i > PPI_NO_MAX \/ i <= PPI_NO_MAX
    BY <2>1 DEF PPI_NO_MAX
  <2> QED
    BY <2>1, <2>2, <2>3, <2>4 DEF IrqInv, InitInv
<1> QED
  BY <1>1, IrqInvariance, PTL

\* What is acknowledged is handled and ended; a spurious INTID is neither.
THEOREM HandledWhenActive == Spec => []ActiveIsHandled
<1>1. IrqInv => ActiveIsHandled
  BY DEF IrqInv, TypeOK, PointsOK, ActiveInv, ActiveIsHandled
<1> QED
  BY <1>1, IrqInvariance, PTL

\* No handler runs for an interrupt that its driver has disabled.
THEOREM QuietWhenDisabled == Spec => []DisabledIsQuiet
<1>1. IrqInv => DisabledIsQuiet
  <2> SUFFICES ASSUME IrqInv, pc \in {"do_irq", "eoi"}
               PROVE  irq_no \notin off
    BY DEF DisabledIsQuiet
  <2>1. booted = 4
    BY DEF IrqInv, TypeOK, PointsOK, InitInv
  <2>2. CASE irq_no = SPURIOUS
    BY GicAssumption, <2>2 DEF IrqInv, TypeOK, SetsOK, SPURIOUS
  <2>3. CASE irq_no \in enabled
    BY <2>1, <2>3 DEF IrqInv, TypeOK, SetsOK, EnabledInv
  <2> QED
    BY <2>2, <2>3 DEF IrqInv, ActiveInv
<1> QED
  BY <1>1, IrqInvariance, PTL
=============================================================================
