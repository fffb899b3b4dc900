------------------------- MODULE GicRegistersProofs -------------------------
(***************************************************************************)
(* What drivers/irq/gicv3.c stores, for every set of interrupts: the words *)
(* are mapped, the loops and the irq_chip operations amount to module Gic, *)
(* and gicv3_irq_set_type() leaves the neighbours of its INTID alone.      *)
(***************************************************************************)
EXTENDS GicRegisters, TLAPS

USE GicTriggerAssumption

-----------------------------------------------------------------------------
(* gicv3_irq_set_type() *)

\* The register and the place in it that the driver computes for an INTID are those of
\* the INTID's own field, but for INTID 15 those of 31.
LEMMA Field ==
  ASSUME NEW k \in Intids
  PROVE  /\ FieldOf(k) \in Nat
         /\ Register(k) = FieldOf(k) \div 16 /\ Register(k) \in Registers
         /\ ShiftNum(k) = 2 * (FieldOf(k) % 16) /\ FieldOf(k) % 16 \in 0 .. 15
<1>1. k \in Nat
  OBVIOUS
<1>2. CASE k = 15
  <2>1. PICK x \in Int : x = k - 16
    BY <1>1
  <2>2. x = 16 * (x \div 16) + (x % 16)
    OBVIOUS
  <2>3. x % 16 \in 0 .. 15 /\ x \div 16 \in Int
    OBVIOUS
  <2>4. x % 16 = 15
    BY <1>2, <2>1, <2>2, <2>3
  <2>5. 31 % 16 = 15 /\ 31 \div 16 = 1
    OBVIOUS
  <2> QED
    BY <1>2, <2>1, <2>4, <2>5
       DEF FieldOf, Register, ShiftNum, Registers, PPI_NO_MIN, PPI_NO_MAX
<1>3. CASE 16 <= k /\ k <= 31
  <2>1. k \div 16 = 1 /\ (k - 16) % 16 = k - 16 /\ k % 16 = k - 16
    BY <1>1, <1>3
  <2> QED
    BY <1>1, <1>3, <2>1
       DEF FieldOf, Register, ShiftNum, Registers, PPI_NO_MIN, PPI_NO_MAX
<1>4. CASE k < 15 \/ k > 31
  BY <1>1, <1>4 DEF FieldOf, Register, ShiftNum, Registers, PPI_NO_MIN, PPI_NO_MAX
<1> QED
  BY <1>1, <1>2, <1>3, <1>4

LEMMA TypeInit == Init => TypeOK
BY DEF Init, TypeOK, Bits

LEMMA TypeStep == TypeOK /\ [Next]_vars => TypeOK'
<1> SUFFICES ASSUME TypeOK, [Next]_vars
             PROVE  TypeOK'
  OBVIOUS
<1>1. ASSUME NEW k \in Intids, NEW type \in Types, GicIrqSetType(k, type)
      PROVE  TypeOK'
  <2>1. Shifted(type, ShiftNum(k)) \subseteq Bits
    BY DEF Shifted
  <2>2. icfgr' \in [Registers -> SUBSET Bits]
    BY <1>1, <2>1, Field DEF TypeOK, GicIrqSetType
  <2> QED
    BY <1>1, <2>2 DEF TypeOK, GicIrqSetType
<1>2. ASSUME NEW k \in Intids, NEW type \in Types, GicIrqSetTypeFails(k, type)
      PROVE  TypeOK'
  BY <1>2 DEF TypeOK, GicIrqSetTypeFails
<1>3. CASE UNCHANGED vars
  BY <1>3 DEF TypeOK, vars
<1> QED
  BY <1>1, <1>2, <1>3 DEF Next

\* Every register stays a 32-bit word: what is shifted out of it is gone.
THEOREM TriggerTypeCorrect == Spec => []TypeOK
BY TypeInit, TypeStep, PTL DEF Spec

LEMMA KeptStep == TypeOK /\ [Next]_vars => [KeepsOthers]_vars
<1> SUFFICES ASSUME TypeOK, Next, NEW k \in Configurable
             PROVE  FieldOf(last'[1]) = k \/ (IsEdge(k)' <=> IsEdge(k))
  BY DEF KeepsOthers
<1>0. k \in Nat /\ k \in Intids /\ k % 16 \in 0 .. 15 /\ k \div 16 \in Registers
  BY DEF Configurable, Registers
<1>1. ASSUME NEW j \in Intids, NEW type \in Types, GicIrqSetType(j, type), k # FieldOf(j)
      PROVE  IsEdge(k)' <=> IsEdge(k)
  <2> DEFINE f == FieldOf(j)
             n == 2 * (f % 16)
             b == 2 * (k % 16) + 1
  <2>1. f \in Nat /\ f % 16 \in 0 .. 15 /\ f \div 16 \in Registers
    BY Field
  <2>2. icfgr' = [icfgr EXCEPT ![f \div 16] = (@ \ {n, n + 1}) \cup Shifted(type, n)]
    BY <1>1, Field DEF GicIrqSetType
  <2>3. f # k
    BY <1>1
  <2> HIDE DEF f
  <2>4. CASE k \div 16 # f \div 16
    BY <1>0, <2>1, <2>2, <2>4 DEF IsEdge, TypeOK
  <2>5. CASE k \div 16 = f \div 16
    <3>1. k % 16 # f % 16
      BY <1>0, <2>1, <2>3, <2>5
    <3>2. b # n /\ b # n + 1 /\ b # n + 2
      BY <1>0, <2>1, <3>1
    <3>3. b \notin Shifted(type, n)
      BY <3>2 DEF Shifted
    <3> QED
      BY <1>0, <2>1, <2>2, <2>5, <3>2, <3>3 DEF IsEdge, TypeOK
  <2> QED
    BY <2>4, <2>5
<1>2. ASSUME NEW j \in Intids, NEW type \in Types, GicIrqSetTypeFails(j, type)
      PROVE  IsEdge(k)' <=> IsEdge(k)
  BY <1>2 DEF GicIrqSetTypeFails, IsEdge
<1>3. PICK j \in Intids, type \in Types :
        GicIrqSetType(j, type) \/ GicIrqSetTypeFails(j, type)
  BY DEF Next
<1>4. CASE k = FieldOf(j)
  BY <1>3, <1>4 DEF GicIrqSetType, GicIrqSetTypeFails
<1>5. CASE k # FieldOf(j)
  BY <1>1, <1>2, <1>3, <1>5
<1> QED
  BY <1>4, <1>5

\* Any call changes the trigger of one interrupt at most: its own, or INTID 31's for
\* INTID 15.  LEVEL is a bit wider than its field, but that bit falls on the next field's
\* reserved bit or out of the word.
THEOREM TriggersKept == Spec => OthersKeepTrigger
BY TypeInit, TypeStep, KeptStep, PTL DEF Spec, OthersKeepTrigger


-----------------------------------------------------------------------------
(* gicv3_init(): the inductive invariant *)

Spis == {n \in Followed : n > 31}
Privates == Followed \ Spis

\* The INTIDs of D are disabled, not pending and in group 1, the others as they were
\* when the current function began.
Cleaned(D) ==
  /\ enabled = before.enabled \ D
  /\ latched = before.latched \ D
  /\ group1 = before.group1 \cup D

Prioritised(D) ==
  priority = [n \in Followed |-> IF n \in D THEN 160 ELSE before.priority[n]]

Labels == {"global", "clean", "priority", "enable", "wakeup", "wait", "private",
           "priorities", "cpuif", "idle"}

\* How far the loops are, and that the redistributor is asleep only until the wait.
Progress ==
  /\ pc \in Labels
  /\ pc = "clean" =>
       /\ \E w \in 1 .. 31 : i = 32 * w
       /\ Cleaned({n \in Spis : n < i}) /\ Prioritised({})
  /\ pc = "priority" =>
       /\ \E w \in 8 .. 254 : i = 4 * w
       /\ Cleaned(Spis) /\ Prioritised({n \in Spis : n < i})
  /\ pc = "enable" => Cleaned(Spis) /\ Prioritised(Spis)
  /\ pc = "priorities" =>
       /\ \E w \in 0 .. 7 : i = 4 * w
       /\ Cleaned(Privates) /\ Prioritised({n \in Privates : n < i})
  /\ pc = "cpuif" => Cleaned(Privates) /\ Prioritised(Privates)
  /\ pc \in {"priorities", "cpuif"} => ctlr = before.ctlr

DriverTypes ==
  /\ priority = [n \in Followed |-> priority[n]]
  /\ waker \in {{}, {2}, {1, 2}}
  /\ waker = {1, 2} => pc \in {"global", "clean", "priority", "enable", "wakeup"}
  /\ waker = {2} => pc = "wait"

DriverInv == Progress /\ DriverTypes

-----------------------------------------------------------------------------
(* Stores *)

LEMMA SidesAre ==
  /\ \A n \in Spis : n \in 32 .. 1019 /\ n \in Followed
  /\ \A n \in Privates : n \in 0 .. 31 /\ n \in Followed
  /\ \A n \in Followed : n \in Spis \/ n \in Privates
BY GicRegistersAssumption DEF Spis, Privates

\* Which interrupts a store is for, and where it is among their registers.
LEMMA GicdIs ==
  ASSUME NEW offset, NEW value
  PROVE  LET s == Gicd(offset, value)
         IN /\ s.region = "gicd" /\ s.offset = offset /\ s.value = value
            /\ Frame(s) = offset /\ Side(s) = Spis
BY DEF Gicd, Frame, Side, Spis

LEMMA GicrIs ==
  ASSUME NEW offset \in Int, NEW value
  PROVE  LET s == Gicr(offset, value)
         IN /\ s.region = "gicr" /\ s.value = value
            /\ s.offset = Core * GICR_SIZE_PER_CORE + offset
            /\ Frame(s) = offset - GICR_SGI_OFFSET /\ Side(s) = Privates
<1> DEFINE s == Gicr(offset, value)
           base == Core * GICR_SIZE_PER_CORE
<1>1. /\ s.region = "gicr" /\ s.value = value
      /\ s.offset = base + offset
  BY DEF Gicr
<1>2. base \in Nat
  BY GicRegistersAssumption DEF GICR_SIZE_PER_CORE
<1>3. s.region # "gicd"
  BY <1>1
<1>4. Frame(s) = s.offset - base - GICR_SGI_OFFSET
  <2>1. \A r : r.region # "gicd" => Frame(r) = r.offset - base - GICR_SGI_OFFSET
    BY DEF Frame
  <2> HIDE DEF s, base
  <2> QED
    BY <1>3, <2>1
<1>5. Side(s) = Privates
  BY <1>3, GicRegistersAssumption DEF Side, Privates, Spis
<1> HIDE DEF base, s
<1>6. Frame(s) = offset - GICR_SGI_OFFSET
  BY <1>1, <1>2, <1>4 DEF GICR_SGI_OFFSET
<1> QED
  BY <1>1, <1>5, <1>6 DEF base, s

LEMMA GicrAbove ==
  ASSUME NEW k \in Nat, NEW value
  PROVE  LET s == Gicr(GICR_SGI_OFFSET + k, value)
         IN /\ s.region = "gicr" /\ s.value = value
            /\ Frame(s) = k /\ Side(s) = Privates
<1>1. PICK offset \in Int : offset = GICR_SGI_OFFSET + k
  BY DEF GICR_SGI_OFFSET
<1>2. offset - GICR_SGI_OFFSET = k
  BY <1>1 DEF GICR_SGI_OFFSET
<1> DEFINE s == Gicr(offset, value)
<1>3. /\ s.region = "gicr" /\ s.value = value
      /\ Frame(s) = offset - GICR_SGI_OFFSET /\ Side(s) = Privates
  BY GicrIs
<1> HIDE DEF s
<1>4. /\ s.region = "gicr" /\ s.value = value
      /\ Frame(s) = k /\ Side(s) = Privates
  BY <1>2, <1>3
<1>5. s = Gicr(GICR_SGI_OFFSET + k, value)
  BY <1>1 DEF s
<1> QED
  BY <1>4, <1>5

LEMMA Banks ==
  ASSUME NEW S, NEW bank
  PROVE  /\ InBank(S, bank) = {} => SetBits(S, bank) = {} /\ Covered(S, bank) = {}
         /\ \A s : InBank(S, bank) = {s} =>
              SetBits(S, bank) = Word(s, s.value) /\ Covered(S, bank) = Word(s, Ones)
BY DEF SetBits, Covered

\* Only a store to the priorities changes them.
LEMMA PriorityKept ==
  ASSUME NEW S, Write(S), \A s \in S : Frame(s) \in Int /\ (Frame(s) < 1021 \/ Frame(s) > 2047),
         priority = [n \in Followed |-> priority[n]]
  PROVE  priority' = priority
<1>1. ASSUME NEW s \in S
      PROVE  Bytes(s) = {}
  <2>1. Frame(s) \in Int /\ (Frame(s) < 1021 \/ Frame(s) > 2047)
    OBVIOUS
  <2>2. \A k \in Followed : k \in Int /\ k >= 0 /\ k <= 1019
    BY GicRegistersAssumption
  <2>3. ASSUME NEW k \in Bytes(s)
        PROVE  FALSE
    <3>1. k \in Frame(s) - 1024 .. Frame(s) - 1021 /\ k \in Followed
      BY <2>3 DEF Bytes, Side
    <3>2. k \in Int /\ k >= Frame(s) - 1024 /\ k <= Frame(s) - 1021
      BY <3>1, <2>1
    <3> QED
      BY <2>1, <2>2, <3>1, <3>2
  <2> QED
    BY <2>3
<1>2. priority' = [n \in Followed |->
        IF \E s \in S : n \in Bytes(s)
        THEN Byte((CHOOSE s \in S : n \in Bytes(s)).value, n % 4) ELSE priority[n]]
  BY DEF Write
<1> QED
  BY <1>1, <1>2

\* Only stores to the banks change the bits.
LEMMA BitsKept ==
  ASSUME NEW S, Write(S), \A s \in S : Frame(s) \in Int /\ (Frame(s) < 128 \/ Frame(s) > 1023)
  PROVE  enabled' = enabled /\ latched' = latched /\ group1' = group1
<1>1. \A bank : InBank(S, bank) = {}
  BY DEF InBank
<1>2. \A bank : SetBits(S, bank) = {} /\ Covered(S, bank) = {}
  BY <1>1, Banks
<1> QED
  BY <1>2 DEF Write

LEMMA ControlKept ==
  ASSUME NEW S, Write(S), waker \in {{}, {2}, {1, 2}}
  PROVE  /\ (\A s \in S : s.region # "gicd" \/ s.offset # 0) => ctlr' = ctlr
         /\ (\A s \in S : s.region # "gicr" \/ s.offset # Core * GICR_SIZE_PER_CORE + 20)
              => waker' = waker
<1>1. ASSUME \A s \in S : s.region # "gicd" \/ s.offset # 0
      PROVE  ctlr' = ctlr
  <2>1. {s \in S : s.region = "gicd" /\ s.offset = 0} = {}
    BY <1>1
  <2> QED
    BY <2>1 DEF Write, Single
<1>2. ASSUME \A s \in S : s.region # "gicr" \/ s.offset # Core * GICR_SIZE_PER_CORE + 20
      PROVE  waker' = waker
  <2>1. {s \in S : s.region = "gicr" /\ s.offset = Core * GICR_SIZE_PER_CORE + 20} = {}
    BY <1>2
  <2>2. waker' = (waker \cap {2}) \cup (waker \cap {1})
    BY <2>1 DEF Write, Single
  <2> QED
    BY <2>2
<1> QED
  BY <1>1, <1>2

\* Every byte of 0xA0A0A0A0 is 160.
LEMMA ByteOfA0s ==
  ASSUME NEW k \in 0 .. 3
  PROVE  Byte(A0s, k) = 160
<1> DEFINE Is(v) == \A b \in 0 .. 7 : (v \div 2 ^ b) % 2 = 1 <=> 8 * k + b \in A0s
<1>1. \A b \in 0 .. 7 : 8 * k + b \in A0s <=> b \in {5, 7}
  BY DEF A0s, Ones
<1>2. /\ 2 ^ 0 = 1 /\ 2 ^ 1 = 2 /\ 2 ^ 2 = 4 /\ 2 ^ 3 = 8
      /\ 2 ^ 4 = 16 /\ 2 ^ 5 = 32 /\ 2 ^ 6 = 64 /\ 2 ^ 7 = 128
  OBVIOUS
<1>3. \A v : Is(v) <=>
        /\ (v \div 1) % 2 # 1 /\ (v \div 2) % 2 # 1
        /\ (v \div 4) % 2 # 1 /\ (v \div 8) % 2 # 1
        /\ (v \div 16) % 2 # 1 /\ (v \div 32) % 2 = 1
        /\ (v \div 64) % 2 # 1 /\ (v \div 128) % 2 = 1
  <2> SUFFICES ASSUME NEW v
               PROVE  Is(v) <=>
        /\ (v \div 2 ^ 0) % 2 # 1 /\ (v \div 2 ^ 1) % 2 # 1
        /\ (v \div 2 ^ 2) % 2 # 1 /\ (v \div 2 ^ 3) % 2 # 1
        /\ (v \div 2 ^ 4) % 2 # 1 /\ (v \div 2 ^ 5) % 2 = 1
        /\ (v \div 2 ^ 6) % 2 # 1 /\ (v \div 2 ^ 7) % 2 = 1
    BY <1>2
  <2> DEFINE Bit(b) == (v \div 2 ^ b) % 2 = 1
  <2>1. Is(v) <=> \A b \in 0 .. 7 : Bit(b) <=> b \in {5, 7}
    BY <1>1
  <2> HIDE DEF Bit, Is
  <2>2. Is(v) <=> /\ ~ Bit(0) /\ ~ Bit(1) /\ ~ Bit(2) /\ ~ Bit(3)
                  /\ ~ Bit(4) /\ Bit(5) /\ ~ Bit(6) /\ Bit(7)
    BY <2>1
  <2>3. ASSUME NEW b PROVE Bit(b) <=> (v \div 2 ^ b) % 2 = 1
    BY Zenon DEF Bit
  <2> QED
    BY <2>2, <2>3, Zenon
<1>4. \A v \in 0 .. 255 : Is(v) <=> v = 160
  <2> HIDE DEF Is
  <2>1. ASSUME NEW v \in 0 .. 255, Is(v)
        PROVE  v = 160
    <3> DEFINE q(n) == v \div n
    <3>1. q(1) = 2 * q(2) + (q(1) % 2) /\ q(2) = 2 * q(4) + (q(2) % 2)
      OBVIOUS
    <3>2. q(4) = 2 * q(8) + (q(4) % 2) /\ q(8) = 2 * q(16) + (q(8) % 2)
      OBVIOUS
    <3>3. q(16) = 2 * q(32) + (q(16) % 2) /\ q(32) = 2 * q(64) + (q(32) % 2)
      OBVIOUS
    <3>4. q(64) = 2 * q(128) + (q(64) % 2) /\ q(128) \in 0 .. 1 /\ q(1) = v
      OBVIOUS
    <3>5. \A n \in {1, 2, 4, 8, 16, 32, 64, 128} : q(n) \in Nat
      OBVIOUS
    <3>6. \A n \in {1, 2, 4, 8, 16, 32, 64, 128} : q(n) % 2 \in {0, 1}
      OBVIOUS
    <3>7. /\ q(1) % 2 # 1 /\ q(2) % 2 # 1 /\ q(4) % 2 # 1 /\ q(8) % 2 # 1
          /\ q(16) % 2 # 1 /\ q(32) % 2 = 1 /\ q(64) % 2 # 1 /\ q(128) % 2 = 1
      <4>1. /\ (v \div 1) % 2 # 1 /\ (v \div 2) % 2 # 1
            /\ (v \div 4) % 2 # 1 /\ (v \div 8) % 2 # 1
            /\ (v \div 16) % 2 # 1 /\ (v \div 32) % 2 = 1
            /\ (v \div 64) % 2 # 1 /\ (v \div 128) % 2 = 1
        BY <1>3, <2>1, Zenon
      <4> QED
        BY <4>1, Zenon
    <3> HIDE DEF q
    <3>8. /\ q(1) % 2 = 0 /\ q(2) % 2 = 0 /\ q(4) % 2 = 0 /\ q(8) % 2 = 0
          /\ q(16) % 2 = 0 /\ q(32) % 2 = 1 /\ q(64) % 2 = 0 /\ q(128) = 1
      BY <3>4, <3>6, <3>7
    <3>9. q(64) = 2 * 1 + 0 /\ q(32) = 2 * q(64) + 1 /\ q(16) = 2 * q(32) + 0
      BY <3>3, <3>4, <3>8
    <3>10. q(8) = 2 * q(16) + 0 /\ q(4) = 2 * q(8) + 0
      BY <3>2, <3>8
    <3>11. q(2) = 2 * q(4) + 0 /\ q(1) = 2 * q(2) + 0
      BY <3>1, <3>8
    <3>12. q(64) = 2 /\ q(32) = 5 /\ q(16) = 10
      BY <3>9
    <3>13. q(8) = 20 /\ q(4) = 40
      BY <3>10, <3>12
    <3>14. q(1) = 160
      BY <3>11, <3>13
    <3> QED
      BY <3>4, <3>14, Zenon
  <2>2. Is(160)
    BY <1>3
  <2> QED
    BY <2>1, <2>2
<1>5. Byte(A0s, k) = CHOOSE v \in 0 .. 255 : Is(v)
  BY DEF Byte
<1> HIDE DEF Is
<1> QED
  BY <1>4, <1>5

\* A store of 0xA0A0A0A0 to the priorities.
LEMMA PrioritySet ==
  ASSUME NEW s, NEW S, Write(S), S = {s}, s.value = A0s,
         Frame(s) \in 1024 .. 2040
  PROVE  priority' = [n \in Followed |->
           IF n \in Side(s) /\ n \in Frame(s) - 1024 .. Frame(s) - 1021 THEN 160 ELSE priority[n]]
<1>1. priority' = [n \in Followed |->
        IF \E r \in {s} : n \in Bytes(r)
        THEN Byte((CHOOSE r \in {s} : n \in Bytes(r)).value, n % 4) ELSE priority[n]]
  BY DEF Write
<1>2. Bytes(s) = (Frame(s) - 1024 .. Frame(s) - 1021) \cap Side(s)
  BY DEF Bytes
<1>3. \A n \in Followed : Byte(A0s, n % 4) = 160
  <2>1. \A n \in Followed : n % 4 \in 0 .. 3
    BY GicRegistersAssumption
  <2> QED
    BY <2>1, ByteOfA0s
<1>4. \A n : n \in Bytes(s) => (CHOOSE r \in {s} : n \in Bytes(r)) = s
  OBVIOUS
<1> QED
  BY <1>1, <1>2, <1>3, <1>4

-----------------------------------------------------------------------------
(* The steps of gicv3_init() *)

\* What a step does to the invariant, the region that it writes to and module Gic.
Right == DriverInv' /\ StoresMapped' /\ StepsOfGic

\* A step within a function, or into one, is none of module Gic.
LEMMA Unseen ==
  ASSUME waker' = waker, cpuif' = cpuif,
         \/ Inside /\ Inside' /\ before' = before
         \/ ~ Inside /\ Inside' /\ Enter
         \/ /\ ~ Inside /\ ~ Inside'
            /\ enabled' = enabled /\ latched' = latched /\ group1' = group1
            /\ priority' = priority /\ ctlr' = ctlr
  PROVE  UNCHANGED Abstract!gicVars
<1>1. /\ (IF Inside THEN before.enabled ELSE enabled)' = IF Inside THEN before.enabled ELSE enabled
      /\ (IF Inside THEN before.latched ELSE latched)' = IF Inside THEN before.latched ELSE latched
      /\ (IF Inside THEN before.group1 ELSE group1)' = IF Inside THEN before.group1 ELSE group1
      /\ (IF Inside THEN before.priority ELSE priority)' =
           IF Inside THEN before.priority ELSE priority
      /\ (IF Inside THEN before.ctlr ELSE ctlr)' = IF Inside THEN before.ctlr ELSE ctlr
  BY DEF Enter
<1> QED
  BY <1>1 DEF Abstract!gicVars

LEMMA StepDisableDistributor ==
  ASSUME DriverInv, DisableDistributor
  PROVE  Right
<1> DEFINE s == Gicd(GICD.CTLR, {})
<1>1. /\ pc = "global" /\ pc' = "clean" /\ Write({s}) /\ i' = 32
      /\ Enter /\ cpuif' = cpuif
  BY DEF DisableDistributor, At, SPI_NO_MIN
<1>2. s.region = "gicd" /\ s.offset = 0 /\ Frame(s) = 0
  BY GicdIs DEF GICD
<1> HIDE DEF s
<1>3. enabled' = enabled /\ latched' = latched /\ group1' = group1
  BY <1>1, <1>2, BitsKept
<1>4. priority' = priority /\ priority = [n \in Followed |-> priority[n]]
  BY <1>1, <1>2, PriorityKept DEF DriverInv, DriverTypes
<1>5. waker' = waker
  BY <1>1, <1>2, ControlKept DEF DriverInv, DriverTypes
<1>6. /\ before'.enabled = enabled /\ before'.latched = latched
      /\ before'.group1 = group1 /\ before'.priority = priority
  BY <1>1 DEF Enter
<1>7. Cleaned({n \in Spis : n < i})'
  <2>1. {n \in Spis : n < i'} = {}
    BY <1>1, SidesAre
  <2> QED
    BY <1>3, <1>6, <2>1 DEF Cleaned
<1>8. Prioritised({})'
  BY <1>4, <1>6 DEF Prioritised
<1>9. \E w \in 1 .. 31 : i' = 32 * w
  BY <1>1
<1>10. DriverInv'
  BY <1>1, <1>4, <1>5, <1>7, <1>8, <1>9 DEF DriverInv, Progress, Labels, DriverTypes
<1>11. StoresMapped'
  <2>1. stores' = {s}
    BY <1>1 DEF Write
  <2> QED
    BY <1>2, <2>1 DEF StoresMapped, Mapped, GICD_SIZE
<1>12. UNCHANGED Abstract!gicVars
  BY <1>1, <1>5, Unseen DEF Inside
<1> QED
  BY <1>1, <1>10, <1>11, <1>12 DEF Right, StepsOfGic

\* Stores of ones to clear enable, clear pending and group, for the same INTIDs.
LEMMA CleanedBy ==
  ASSUME NEW S, Write(S), NEW disable, NEW clear, NEW group, NEW D,
         InBank(S, 1) = {group}, InBank(S, 2) = {}, InBank(S, 3) = {disable},
         InBank(S, 4) = {}, InBank(S, 5) = {clear},
         \A s \in {disable, clear, group} : s.value = Ones /\ Word(s, Ones) = D
  PROVE  /\ enabled' = enabled \ D /\ latched' = latched \ D
         /\ group1' = group1 \cup D
<1>1. /\ SetBits(S, 2) = {} /\ SetBits(S, 4) = {} /\ SetBits(S, 3) = D
      /\ SetBits(S, 5) = D /\ SetBits(S, 1) = D /\ Covered(S, 1) = D
  BY Banks
<1> QED
  BY <1>1 DEF Write

LEMMA StepCleanWord ==
  ASSUME DriverInv, CleanWord
  PROVE  Right
<1>1. PICK w \in 1 .. 31 : i = 32 * w
  BY DEF DriverInv, Progress, CleanWord, At
<1> DEFINE disable == Gicd(384 + 4 * w, Ones)
           clear == Gicd(640 + 4 * w, Ones)
           group == Gicd(128 + 4 * w, Ones)
           S == {disable, clear, group}
           D == {n \in Spis : n \in 32 * w .. 32 * w + 31}
<1>2. i \div 8 = 4 * w
  BY <1>1
<1>3. /\ pc = "clean" /\ pc' = (IF i + 32 < 1020 THEN "clean" ELSE "priority")
      /\ Write(S) /\ i' = (IF i + 32 < 1020 THEN i + 32 ELSE 32)
      /\ before' = before /\ cpuif' = cpuif
  <2>1. GICD.ICENABLER = 384 /\ GICD.ICPENDR = 640 /\ GICD.IGROUPR = 128
    BY DEF GICD
  <2>2. {Gicd(GICD.ICENABLER + i \div 8, Ones), Gicd(GICD.ICPENDR + i \div 8, Ones),
         Gicd(GICD.IGROUPR + i \div 8, Ones)} = S
    BY <1>2, <2>1
  <2>3. Write(S)
    BY <2>2, Zenon DEF CleanWord
  <2> HIDE DEF S
  <2> QED
    BY <2>3 DEF CleanWord, At, SPI_NO_MIN, SPI_NO_MAX
<1>4. /\ Frame(disable) = 384 + 4 * w /\ Frame(clear) = 640 + 4 * w
      /\ Frame(group) = 128 + 4 * w
      /\ \A s \in S : /\ s.region = "gicd" /\ s.value = Ones
                      /\ Frame(s) = s.offset /\ Side(s) = Spis
  BY GicdIs
<1> HIDE DEF disable, clear, group
<1>5. \A s \in S : /\ Frame(s) \in 128 .. 1020 /\ (Frame(s) % 128) \div 4 = w
                   /\ Frame(s) % 4 = 0
  BY <1>4
<1>6. Frame(disable) \div 128 = 3 /\ Frame(clear) \div 128 = 5 /\ Frame(group) \div 128 = 1
  BY <1>4
<1>7. /\ InBank(S, 1) = {group} /\ InBank(S, 2) = {} /\ InBank(S, 3) = {disable}
      /\ InBank(S, 4) = {} /\ InBank(S, 5) = {clear}
  <2>1. \A s \in S : Frame(s) \in 128 .. 1023
    BY <1>5
  <2> DEFINE Bank(s) == Frame(s) \div 128
  <2>3. Bank(disable) = 3 /\ Bank(clear) = 5 /\ Bank(group) = 1
    BY <1>6
  <2>4. \A s, bank : s \in InBank(S, bank) <=> s \in S /\ Bank(s) = bank
    <3> HIDE DEF S
    <3> QED
      BY <2>1, SMT DEF InBank
  <2> HIDE DEF Bank
  <2>5. InBank(S, 1) = {group} /\ InBank(S, 2) = {}
    BY <2>3, <2>4
  <2>6. InBank(S, 3) = {disable} /\ InBank(S, 4) = {} /\ InBank(S, 5) = {clear}
    BY <2>3, <2>4
  <2> QED
    BY <2>5, <2>6
<1>8. \A s \in S : s.value = Ones /\ Word(s, Ones) = D
  <2> DEFINE Plus(b) == 32 * w + b
             Minus(n) == n - 32 * w
             Bank == 32 * w .. 32 * w + 31
  <2>1. {Plus(b) : b \in Ones} = Bank
    <3>1. \A n \in Bank : Minus(n) \in Ones /\ n = Plus(Minus(n))
      BY DEF Ones
    <3>2. \A b \in Ones : Plus(b) \in Bank
      BY DEF Ones
    <3> HIDE DEF Plus, Minus, Bank
    <3> QED
      BY <3>1, <3>2, Zenon
  <2> QED
    BY <1>4, <1>5, <2>1 DEF Word
<1>9. enabled' = enabled \ D /\ latched' = latched \ D /\ group1' = group1 \cup D
  <2>1. \A s \in {disable, clear, group} : s.value = Ones /\ Word(s, Ones) = D
    BY <1>8
  <2>2. Write(S)
    BY <1>3
  <2> HIDE DEF D, S
  <2> QED
    BY <1>7, <2>1, <2>2, CleanedBy
<1>10. priority' = priority
  <2>1. \A s \in S : Frame(s) \in Int /\ (Frame(s) < 1021 \/ Frame(s) > 2047)
    <3>1. \A s \in S : Frame(s) \in 128 .. 1020
      BY <1>5
    <3> HIDE DEF S
    <3> QED
      BY <3>1
  <2>2. Write(S) /\ priority = [n \in Followed |-> priority[n]]
    BY <1>3 DEF DriverInv, DriverTypes
  <2> HIDE DEF S
  <2> QED
    BY <2>1, <2>2, PriorityKept
<1>11. waker' = waker
  BY <1>3, <1>4, ControlKept DEF DriverInv, DriverTypes
<1> DEFINE Below(k) == {n \in Spis : n < k}
<1>12. Cleaned(Below(32 * w + 32))'
  <2>1. Below(32 * w + 32) = Below(32 * w) \cup D
    <3>1. \A k \in Int : k < 32 * w + 32 <=> k < 32 * w \/ k \in 32 * w .. 32 * w + 31
      OBVIOUS
    <3>2. \A n \in Spis : n \in Int
      BY SidesAre
    <3> QED
      BY <3>1, <3>2
  <2>2. Cleaned(Below(32 * w))
    BY <1>1, <1>3 DEF DriverInv, Progress
  <2> HIDE DEF D, Below
  <2> QED
    BY <1>3, <1>9, <2>1, <2>2 DEF Cleaned
<1>13. Prioritised({})'
  BY <1>3, <1>10 DEF Prioritised, DriverInv, Progress
<1>14. Progress'
  <2>1. CASE w = 31
    <3>1. pc' = "priority" /\ i' = 4 * 8
      BY <1>1, <1>3, <2>1
    <3>2. Below(32 * w + 32) = Spis
      BY <2>1, SidesAre
    <3>3. {n \in Spis : n < i'} = {}
      BY <3>1, SidesAre
    <3>4. Cleaned(Spis)'
      BY <1>12, <3>2
    <3>5. Prioritised({n \in Spis : n < i})'
      BY <1>13, <3>3
    <3>6. \E v \in 8 .. 254 : i' = 4 * v
      BY <3>1
    <3> QED
      BY <3>1, <3>4, <3>5, <3>6 DEF Progress, Labels
  <2>2. CASE w # 31
    <3>1. pc' = "clean" /\ i' = 32 * (w + 1) /\ i' = 32 * w + 32 /\ w + 1 \in 1 .. 31
      BY <1>1, <1>3, <2>2
    <3>2. Cleaned({n \in Spis : n < i})'
      BY <1>12, <3>1
    <3>3. \E v \in 1 .. 31 : i' = 32 * v
      BY <3>1
    <3> QED
      BY <1>13, <3>1, <3>2, <3>3 DEF Progress, Labels
  <2> QED
    BY <2>1, <2>2
<1>15. DriverTypes'
  BY <1>3, <1>10, <1>11 DEF DriverInv, DriverTypes
<1>16. StoresMapped'
  <2>1. stores' = S
    BY <1>3 DEF Write
  <2> QED
    BY <1>4, <1>5, <2>1 DEF StoresMapped, Mapped, GICD_SIZE
<1>17. UNCHANGED Abstract!gicVars
  BY <1>3, <1>11, Unseen DEF Inside
<1> QED
  BY <1>3, <1>14, <1>15, <1>16, <1>17 DEF Right, StepsOfGic, DriverInv

\* What a store to the priorities of a region does.
LEMMA OnePriority ==
  ASSUME DriverTypes, NEW s, NEW S, Write(S), S = {s}, s.value = A0s,
         Frame(s) \in 1024 .. 2040,
         s.region = "gicd" => s.offset # 0,
         s.region = "gicr" => s.offset # Core * GICR_SIZE_PER_CORE + 20
  PROVE  /\ enabled' = enabled /\ latched' = latched /\ group1' = group1
         /\ ctlr' = ctlr /\ waker' = waker /\ stores' = S
         /\ priority' = [n \in Followed |->
              IF n \in Side(s) /\ n \in Frame(s) - 1024 .. Frame(s) - 1021 THEN 160 ELSE priority[n]]
<1>1. \A r \in S : Frame(r) \in Int /\ (Frame(r) < 128 \/ Frame(r) > 1023)
  OBVIOUS
<1>2. enabled' = enabled /\ latched' = latched /\ group1' = group1
  BY <1>1, BitsKept
<1>3. ctlr' = ctlr /\ waker' = waker
  BY ControlKept DEF DriverTypes
<1>4. stores' = S
  BY DEF Write
<1>5. priority' = [n \in Followed |->
        IF n \in Side(s) /\ n \in Frame(s) - 1024 .. Frame(s) - 1021 THEN 160 ELSE priority[n]]
  BY PrioritySet
<1> QED
  BY <1>2, <1>3, <1>4, <1>5

LEMMA StepSetPriority ==
  ASSUME DriverInv, SetPriority
  PROVE  Right
<1>1. PICK w \in 8 .. 254 : i = 4 * w
  BY DEF DriverInv, Progress, SetPriority, At
<1> DEFINE s == Gicd(1024 + 4 * w, A0s)
           S == {s}
<1>2. /\ pc = "priority" /\ pc' = (IF i + 4 < 1020 THEN "priority" ELSE "enable")
      /\ Write(S) /\ i' = i + 4 /\ before' = before /\ cpuif' = cpuif
  BY <1>1 DEF SetPriority, At, SPI_NO_MAX, GICD
<1>3. /\ s.region = "gicd" /\ s.offset = 1024 + 4 * w /\ s.value = A0s
      /\ Frame(s) = 1024 + 4 * w /\ Side(s) = Spis
  BY GicdIs
<1> HIDE DEF s
<1>4. /\ enabled' = enabled /\ latched' = latched /\ group1' = group1
      /\ ctlr' = ctlr /\ waker' = waker /\ stores' = S
      /\ priority' = [n \in Followed |->
           IF n \in Spis /\ n \in 4 * w .. 4 * w + 3 THEN 160 ELSE priority[n]]
  <2>1. /\ s.region = "gicd" => s.offset # 0
        /\ s.region = "gicr" => s.offset # Core * GICR_SIZE_PER_CORE + 20
    BY <1>3
  <2>2. DriverTypes /\ Write(S) /\ w \in 0 .. 254
    BY <1>2 DEF DriverInv
  <2>3. S = {s}
    OBVIOUS
  <2>4. s.value = A0s /\ Frame(s) \in 1024 .. 2040
    BY <1>3
  <2> HIDE DEF S
  <2>5. /\ enabled' = enabled /\ latched' = latched /\ group1' = group1
        /\ ctlr' = ctlr /\ waker' = waker /\ stores' = S
        /\ priority' = [n \in Followed |->
             IF n \in Side(s) /\ n \in Frame(s) - 1024 .. Frame(s) - 1021 THEN 160 ELSE priority[n]]
    BY <2>1, <2>2, <2>3, <2>4, OnePriority
  <2> QED
    <3>1. Frame(s) - 1024 = 4 * w /\ Frame(s) - 1021 = 4 * w + 3
      BY <1>3
    <3> QED
      BY <1>3, <2>5, <3>1
<1> DEFINE Below(k) == {n \in Spis : n < k}
<1>5. Prioritised(Below(4 * w + 4))'
  <2>1. Prioritised(Below(4 * w))
    BY <1>1, <1>2 DEF DriverInv, Progress
  <2>2. \A n \in Followed : n \in Below(4 * w + 4) <=>
          n \in Below(4 * w) \/ (n \in Spis /\ n \in 4 * w .. 4 * w + 3)
    <3>1. \A k \in Int : k < 4 * w + 4 <=> k < 4 * w \/ k \in 4 * w .. 4 * w + 3
      OBVIOUS
    <3>2. \A n \in Spis : n \in Int
      BY SidesAre
    <3> QED
      BY <3>1, <3>2
  <2> HIDE DEF Below
  <2> QED
    BY <1>2, <1>4, <2>1, <2>2 DEF Prioritised
<1>6. Cleaned(Spis)'
  BY <1>2, <1>4 DEF DriverInv, Progress, Cleaned
<1>7. Progress'
  <2>1. CASE w = 254
    <3>1. pc' = "enable"
      BY <1>1, <1>2, <2>1
    <3>2. Below(4 * w + 4) = Spis
      BY <2>1, SidesAre
    <3>3. Prioritised(Spis)'
      BY <1>5, <3>2
    <3> QED
      BY <1>6, <3>1, <3>3 DEF Progress, Labels
  <2>2. CASE w # 254
    <3>1. pc' = "priority" /\ i' = 4 * (w + 1) /\ i' = 4 * w + 4 /\ w + 1 \in 8 .. 254
      BY <1>1, <1>2, <2>2
    <3>2. Prioritised({n \in Spis : n < i})'
      BY <1>5, <3>1
    <3>3. \E v \in 8 .. 254 : i' = 4 * v
      BY <3>1
    <3> QED
      BY <1>6, <3>1, <3>2, <3>3 DEF Progress, Labels
  <2> QED
    BY <2>1, <2>2
<1>8. DriverTypes'
  BY <1>2, <1>4 DEF DriverInv, DriverTypes
<1>9. StoresMapped'
  BY <1>3, <1>4 DEF StoresMapped, Mapped, GICD_SIZE
<1>10. UNCHANGED Abstract!gicVars
  BY <1>2, <1>4, Unseen DEF Inside
<1> QED
  BY <1>2, <1>7, <1>8, <1>9, <1>10 DEF Right, StepsOfGic, DriverInv

\* Of a store to a register of its own, only that register is seen.
LEMMA OneControl ==
  ASSUME DriverTypes, NEW s, Write({s}), Frame(s) \in Int, Frame(s) < 128
  PROVE  /\ enabled' = enabled /\ latched' = latched /\ group1' = group1
         /\ priority' = priority /\ stores' = {s}
<1>1. \A r \in {s} : Frame(r) \in Int /\ (Frame(r) < 128 \/ Frame(r) > 1023)
  OBVIOUS
<1>2. enabled' = enabled /\ latched' = latched /\ group1' = group1
  BY <1>1, BitsKept
<1>3. \A r \in {s} : Frame(r) \in Int /\ (Frame(r) < 1021 \/ Frame(r) > 2047)
  OBVIOUS
<1>4. priority' = priority
  BY <1>3, PriorityKept DEF DriverTypes
<1> QED
  BY <1>2, <1>4 DEF Write

\* The loops of gicv3_init_global() leave no SPI out.
LEMMA LoopsCover ==
  /\ Abstract!LoopCovers(Abstract!SPI_NO_MAX, 32) = Spis
  /\ Abstract!LoopCovers(Abstract!SPI_NO_MAX, 4) = Spis
<1> DEFINE In(n, step) == \E k \in 0 .. 1020 \div step :
                            /\ 32 + k * step < 1020
                            /\ n \in 32 + k * step .. 32 + k * step + step - 1
<1>1. ASSUME NEW n \in Followed, NEW step \in {4, 32}
      PROVE  In(n, step) <=> n \in Spis
  <2>1. n \in 0 .. 1019
    BY GicRegistersAssumption
  <2>2. CASE n < 32
    BY <2>1, <2>2 DEF Spis
  <2>3. CASE n >= 32
    <3>1. n \in Spis
      BY <2>1, <2>3 DEF Spis
    <3>2. CASE step = 4
      <4>1. PICK k \in Int : k = (n - 32) \div 4
        BY <2>1
      <4>2. /\ k \in 0 .. 1020 \div 4 /\ 32 + k * 4 < 1020
            /\ n \in 32 + k * 4 .. 32 + k * 4 + 4 - 1
        BY <2>1, <2>3, <4>1
      <4> QED
        BY <3>1, <3>2, <4>2
    <3>3. CASE step = 32
      <4>1. PICK k \in Int : k = (n - 32) \div 32
        BY <2>1
      <4>2. /\ k \in 0 .. 1020 \div 32 /\ 32 + k * 32 < 1020
            /\ n \in 32 + k * 32 .. 32 + k * 32 + 32 - 1
        BY <2>1, <2>3, <4>1
      <4> QED
        BY <3>1, <3>3, <4>2
    <3> QED
      BY <3>2, <3>3
  <2> QED
    BY <2>1, <2>2, <2>3
<1>2. ASSUME NEW step \in {4, 32}
      PROVE  Abstract!LoopCovers(1020, step) = Spis
  <2>1. Abstract!LoopCovers(1020, step) = {n \in Followed : In(n, step)}
    BY Zenon DEF Abstract!LoopCovers, Abstract!SPI_NO_MIN
  <2>2. Spis \subseteq Followed
    BY DEF Spis
  <2> HIDE DEF In
  <2> QED
    BY <1>1, <2>1, <2>2
<1> QED
  BY <1>2 DEF Abstract!SPI_NO_MAX

LEMMA StepEnableDistributor ==
  ASSUME DriverInv, EnableDistributor
  PROVE  Right
<1> DEFINE s == Gicd(0, {5, 1})
<1>1. /\ pc = "enable" /\ pc' = "wakeup" /\ Write({s})
      /\ before' = before /\ cpuif' = cpuif
  BY DEF EnableDistributor, At, GICD
<1>2. s.region = "gicd" /\ s.offset = 0 /\ Frame(s) = 0 /\ s.value = {5, 1}
  BY GicdIs
<1> HIDE DEF s
<1>3. /\ enabled' = enabled /\ latched' = latched /\ group1' = group1
      /\ priority' = priority /\ stores' = {s}
  BY <1>1, <1>2, OneControl DEF DriverInv
<1>4. waker' = waker
  BY <1>1, <1>2, ControlKept DEF DriverInv, DriverTypes
<1>5. ctlr' = {5, 1}
  <2>1. {r \in {s} : r.region = "gicd" /\ r.offset = 0} = {s}
    BY <1>2
  <2>2. Single({s}, "gicd", 0, ctlr) = {5, 1}
    BY <1>2, <2>1 DEF Single
  <2> QED
    BY <1>1, <2>2 DEF Write
<1>6. Cleaned(Spis) /\ Prioritised(Spis)
  BY <1>1 DEF DriverInv, Progress
<1>7. DriverInv'
  BY <1>1, <1>3, <1>4 DEF DriverInv, Progress, Labels, DriverTypes
<1>8. StoresMapped'
  BY <1>2, <1>3 DEF StoresMapped, Mapped, GICD_SIZE
<1>9. Inside /\ ~ Inside'
  BY <1>1 DEF Inside
<1>10. Abstract!GicInitGlobal
  BY <1>1, <1>3, <1>4, <1>5, <1>6, <1>9, LoopsCover
     DEF Abstract!GicInitGlobal, Abstract!PENDING_PRIORITY, Cleaned, Prioritised
<1> QED
  BY <1>1, <1>7, <1>8, <1>10 DEF Right, StepsOfGic

\* A word of the running core, and that it is mapped.
CoreWord(k) == Core * GICR_SIZE_PER_CORE + 4 * k

InMapping(at, region) == at % 4 = 0 /\ at + 4 <= Mapped(region)

LEMMA CoreMapped ==
  ASSUME NEW k \in Nat, k <= 32767
  PROVE  InMapping(CoreWord(k), "gicr")
<1>1. Core \in 0 .. 3
  BY GicRegistersAssumption
<1>2. PICK at \in Int : at = Core * 131072 + 4 * k
  BY <1>1
<1>3. at = 4 * (Core * 32768 + k) /\ Core * 32768 + k \in Int
  BY <1>1, <1>2
<1>4. at % 4 = 0
  BY <1>3
<1>5. at + 4 <= 524288
  BY <1>1, <1>2
<1>6. CoreWord(k) = at
  BY <1>2 DEF CoreWord, GICR_SIZE_PER_CORE
<1>7. Mapped("gicr") = 524288
  BY DEF Mapped, GICR_SIZE_PER_CORE, CORE_NUM
<1> QED
  BY <1>4, <1>5, <1>6, <1>7 DEF InMapping

LEMMA StepWakeup ==
  ASSUME DriverInv, Wakeup
  PROVE  Right
<1> DEFINE s == Gicr(20, waker \ {1})
<1>1. pc = "wakeup" /\ pc' = "wait" /\ Write({s}) /\ cpuif' = cpuif
  BY DEF Wakeup, At, GICR
<1>2. /\ s.region = "gicr" /\ s.offset = Core * GICR_SIZE_PER_CORE + 20
      /\ Frame(s) = 20 - GICR_SGI_OFFSET /\ s.value = waker \ {1}
  BY GicrIs
<1> HIDE DEF s
<1>3. /\ enabled' = enabled /\ latched' = latched /\ group1' = group1
      /\ priority' = priority /\ stores' = {s}
  <2>1. Frame(s) \in Int /\ Frame(s) < 128
    BY <1>2 DEF GICR_SGI_OFFSET
  <2> QED
    BY <1>1, <2>1, OneControl DEF DriverInv
<1>4. ctlr' = ctlr
  BY <1>1, <1>2, ControlKept DEF DriverInv, DriverTypes
<1>5. waker \in {{}, {1, 2}}
  BY <1>1 DEF DriverInv, DriverTypes
<1>6. waker' = waker \ {1}
  <2>1. {r \in {s} : r.region = "gicr" /\ r.offset = Core * GICR_SIZE_PER_CORE + 20} = {s}
    BY <1>2
  <2>2. Single({s}, "gicr", Core * GICR_SIZE_PER_CORE + 20, waker) = waker \ {1}
    BY <1>2, <2>1 DEF Single
  <2>3. waker' = (waker \cap {2}) \cup ((waker \ {1}) \cap {1})
    BY <1>1, <2>2 DEF Write
  <2> QED
    BY <1>5, <2>3
<1>7. waker' \in {{}, {2}}
  BY <1>5, <1>6
<1>8. DriverInv'
  <2>1. Progress'
    BY <1>1 DEF Progress, Labels
  <2>2. waker' # {1, 2}
    BY <1>7
  <2>3. DriverTypes'
    BY <1>1, <1>3, <1>7, <2>2 DEF DriverInv, DriverTypes
  <2> QED
    BY <2>1, <2>3 DEF DriverInv
<1>9. StoresMapped'
  <2>1. s.offset = CoreWord(5) /\ s.region = "gicr"
    BY <1>2 DEF CoreWord
  <2>2. 5 \in Nat /\ 5 <= 32767
    OBVIOUS
  <2>3. InMapping(CoreWord(5), "gicr")
    BY <2>2, CoreMapped
  <2> QED
    BY <1>3, <2>1, <2>3 DEF StoresMapped, InMapping
<1>10. ~ Inside /\ ~ Inside'
  BY <1>1 DEF Inside
<1>11. /\ 1 \notin waker' /\ (2 \in waker' <=> 2 \in waker)
       /\ (1 \in waker <=> 2 \in waker)
  BY <1>5, <1>6
<1>12. (IF 1 \in waker THEN "asleep" ELSE IF 2 \in waker THEN "waking" ELSE "awake")' =
         IF (IF 1 \in waker THEN "asleep" ELSE IF 2 \in waker THEN "waking" ELSE "awake") = "asleep"
         THEN "waking"
         ELSE IF 1 \in waker THEN "asleep" ELSE IF 2 \in waker THEN "waking" ELSE "awake"
  BY <1>11
<1>13. Abstract!GicWakeup
  BY <1>1, <1>3, <1>4, <1>10, <1>12 DEF Abstract!GicWakeup
<1> QED
  BY <1>1, <1>8, <1>9, <1>13 DEF Right, StepsOfGic

LEMMA StepRedistributorWakes ==
  ASSUME DriverInv, StoresMapped, RedistributorWakes
  PROVE  Right
<1>1. /\ pc = "wait" /\ pc' = "wait" /\ waker = {2} /\ waker' = {}
      /\ enabled' = enabled /\ latched' = latched /\ group1' = group1
      /\ priority' = priority /\ ctlr' = ctlr /\ cpuif' = cpuif /\ stores' = stores
  BY DEF DriverInv, DriverTypes, RedistributorWakes
<1>2. DriverInv'
  BY <1>1 DEF DriverInv, Progress, Labels, DriverTypes
<1>3. StoresMapped'
  BY <1>1 DEF StoresMapped
<1>4. ~ Inside /\ ~ Inside'
  BY <1>1 DEF Inside
<1>5. Abstract!RedistributorWakes
  BY <1>1, <1>4 DEF Abstract!RedistributorWakes
<1> QED
  BY <1>1, <1>2, <1>3, <1>5 DEF Right, StepsOfGic

LEMMA StepAwake ==
  ASSUME DriverInv, StoresMapped, Awake
  PROVE  Right
<1>1. /\ pc = "wait" /\ pc' = "private" /\ 2 \notin waker /\ waker' = waker
      /\ enabled' = enabled /\ latched' = latched /\ group1' = group1
      /\ priority' = priority /\ ctlr' = ctlr /\ cpuif' = cpuif /\ stores' = stores
  BY DEF Awake, At, device
<1>2. waker = {}
  BY <1>1 DEF DriverInv, DriverTypes
<1>3. DriverInv'
  BY <1>1, <1>2 DEF DriverInv, Progress, Labels, DriverTypes
<1>4. StoresMapped'
  BY <1>1 DEF StoresMapped
<1>5. UNCHANGED Abstract!gicVars
  BY <1>1, Unseen DEF Inside
<1> QED
  BY <1>1, <1>3, <1>4, <1>5 DEF Right, StepsOfGic

LEMMA StepCleanPrivate ==
  ASSUME DriverInv, CleanPrivate
  PROVE  Right
<1> DEFINE disable == Gicr(GICR_SGI_OFFSET + 384, Ones)
           clear == Gicr(GICR_SGI_OFFSET + 640, Ones)
           group == Gicr(GICR_SGI_OFFSET + 128, Ones)
           modifier == Gicr(GICR_SGI_OFFSET + 3328, {})
           S == {disable, clear, group, modifier}
<1>1. /\ pc = "private" /\ pc' = "priorities" /\ Write(S) /\ i' = 0 /\ Enter /\ cpuif' = cpuif
  BY DEF CleanPrivate, At, GICR
<1>2. GICR_SGI_OFFSET \in Nat
  BY DEF GICR_SGI_OFFSET
<1>3. /\ Frame(disable) = 384 /\ Frame(clear) = 640 /\ Frame(group) = 128
      /\ Frame(modifier) = 3328
      /\ \A s \in S : s.region = "gicr" /\ Side(s) = Privates
      /\ \A s \in {disable, clear, group} : s.value = Ones
  BY GicrAbove
<1>4. /\ disable.offset = CoreWord(16384 + 96) /\ clear.offset = CoreWord(16384 + 160)
      /\ group.offset = CoreWord(16384 + 32) /\ modifier.offset = CoreWord(16384 + 832)
  BY DEF Gicr, CoreWord, GICR_SGI_OFFSET
<1> HIDE DEF disable, clear, group, modifier
<1>5. /\ InBank(S, 1) = {group} /\ InBank(S, 2) = {} /\ InBank(S, 3) = {disable}
      /\ InBank(S, 4) = {} /\ InBank(S, 5) = {clear}
  BY <1>3 DEF InBank
<1>6. \A s \in {disable, clear, group} : s.value = Ones /\ Word(s, Ones) = Privates
  <2>1. \A s \in {disable, clear, group} : (Frame(s) % 128) \div 4 = 0 /\ Side(s) = Privates
    BY <1>3
  <2>2. {32 * 0 + b : b \in Ones} = 0 .. 31
    BY DEF Ones
  <2>3. (0 .. 31) \cap Privates = Privates
    BY SidesAre
  <2> QED
    BY <1>3, <2>1, <2>2, <2>3 DEF Word
<1>7. enabled' = enabled \ Privates /\ latched' = latched \ Privates /\ group1' = group1 \cup Privates
  <2>1. Write(S)
    BY <1>1
  <2> HIDE DEF S
  <2> QED
    BY <1>5, <1>6, <2>1, CleanedBy
<1>8. priority' = priority /\ priority = [n \in Followed |-> priority[n]]
  <2>1. \A s \in S : Frame(s) \in Int /\ (Frame(s) < 1021 \/ Frame(s) > 2047)
    BY <1>3
  <2>2. Write(S) /\ priority = [n \in Followed |-> priority[n]]
    BY <1>1 DEF DriverInv, DriverTypes
  <2> HIDE DEF S
  <2> QED
    BY <2>1, <2>2, PriorityKept
<1>9. ctlr' = ctlr /\ waker' = waker
  <2>1. \A s \in S : s.region # "gicd" \/ s.offset # 0
    BY <1>3
  <2>2. \A s \in S : s.region # "gicr" \/ s.offset # Core * GICR_SIZE_PER_CORE + 20
    BY <1>4, GicRegistersAssumption DEF CoreWord, GICR_SIZE_PER_CORE
  <2>3. Write(S)
    BY <1>1
  <2> HIDE DEF S
  <2> QED
    BY <2>1, <2>2, <2>3, ControlKept DEF DriverInv, DriverTypes
<1>10. /\ before'.enabled = enabled /\ before'.latched = latched
       /\ before'.group1 = group1 /\ before'.priority = priority /\ before'.ctlr = ctlr
  BY <1>1 DEF Enter
<1>11. Cleaned(Privates)'
  BY <1>7, <1>10 DEF Cleaned
<1>12. Prioritised({n \in Privates : n < i})'
  <2>1. {n \in Privates : n < i'} = {}
    BY <1>1, SidesAre
  <2>2. Prioritised({})'
    BY <1>8, <1>10 DEF Prioritised
  <2> QED
    BY <2>1, <2>2
<1>13. \E w \in 0 .. 7 : i' = 4 * w
  BY <1>1
<1>14. DriverInv'
  BY <1>1, <1>8, <1>9, <1>10, <1>11, <1>12, <1>13 DEF DriverInv, Progress, Labels, DriverTypes
<1>15. StoresMapped'
  <2>1. \A k \in {96, 160, 32, 832} : 16384 + k \in Nat /\ 16384 + k <= 32767
    OBVIOUS
  <2>2. \A k \in {96, 160, 32, 832} : InMapping(CoreWord(16384 + k), "gicr")
    BY <2>1, CoreMapped
  <2>3. \A s \in S : InMapping(s.offset, "gicr")
    BY <1>4, <2>2
  <2>4. stores' = S
    BY <1>1 DEF Write
  <2> QED
    BY <1>3, <2>3, <2>4 DEF StoresMapped, InMapping
<1>16. UNCHANGED Abstract!gicVars
  BY <1>1, <1>9, Unseen DEF Inside
<1> QED
  BY <1>1, <1>14, <1>15, <1>16 DEF Right, StepsOfGic

LEMMA StepSetPrivatePriority ==
  ASSUME DriverInv, SetPrivatePriority
  PROVE  Right
<1>1. PICK w \in 0 .. 7 : i = 4 * w
  BY DEF DriverInv, Progress, SetPrivatePriority, At
<1> DEFINE s == Gicr(GICR_SGI_OFFSET + (1024 + 4 * w), A0s)
           S == {s}
<1>2. /\ pc = "priorities" /\ pc' = (IF i + 4 < 32 THEN "priorities" ELSE "cpuif")
      /\ i' = i + 4 /\ before' = before /\ cpuif' = cpuif
  BY DEF SetPrivatePriority, At
<1>3. Write(S)
  <2>1. GICR.IPRIORITYR0 + i = GICR_SGI_OFFSET + (1024 + 4 * w)
    BY <1>1 DEF GICR, GICR_SGI_OFFSET
  <2>2. Write({Gicr(GICR.IPRIORITYR0 + i, A0s)})
    BY DEF SetPrivatePriority
  <2> QED
    BY <2>1, <2>2
<1>4. 1024 + 4 * w \in Nat
  OBVIOUS
<1>5. /\ s.region = "gicr" /\ s.value = A0s
      /\ Frame(s) = 1024 + 4 * w /\ Side(s) = Privates
  BY <1>4, GicrAbove
<1>6. s.offset = CoreWord(16640 + w)
  BY DEF Gicr, CoreWord, GICR_SGI_OFFSET
<1> HIDE DEF s
<1>7. /\ enabled' = enabled /\ latched' = latched /\ group1' = group1
      /\ ctlr' = ctlr /\ waker' = waker /\ stores' = S
      /\ priority' = [n \in Followed |->
           IF n \in Privates /\ n \in 4 * w .. 4 * w + 3 THEN 160 ELSE priority[n]]
  <2>1. /\ s.region = "gicd" => s.offset # 0
        /\ s.region = "gicr" => s.offset # Core * GICR_SIZE_PER_CORE + 20
    BY <1>5, <1>6, GicRegistersAssumption DEF CoreWord, GICR_SIZE_PER_CORE
  <2>2. DriverTypes
    BY DEF DriverInv
  <2>3. S = {s}
    OBVIOUS
  <2>4. s.value = A0s /\ Frame(s) \in 1024 .. 2040
    BY <1>5
  <2> HIDE DEF S
  <2>5. /\ enabled' = enabled /\ latched' = latched /\ group1' = group1
        /\ ctlr' = ctlr /\ waker' = waker /\ stores' = S
        /\ priority' = [n \in Followed |->
             IF n \in Side(s) /\ n \in Frame(s) - 1024 .. Frame(s) - 1021 THEN 160 ELSE priority[n]]
    BY <1>3, <2>1, <2>2, <2>3, <2>4, OnePriority
  <2>6. Frame(s) - 1024 = 4 * w /\ Frame(s) - 1021 = 4 * w + 3
    BY <1>5
  <2> QED
    BY <1>5, <2>5, <2>6
<1> DEFINE Below(k) == {n \in Privates : n < k}
<1>8. Prioritised(Below(4 * w + 4))'
  <2>1. Prioritised(Below(4 * w))
    BY <1>1, <1>2 DEF DriverInv, Progress
  <2>2. \A n \in Followed : n \in Below(4 * w + 4) <=>
          n \in Below(4 * w) \/ (n \in Privates /\ n \in 4 * w .. 4 * w + 3)
    <3>1. \A k \in Int : k < 4 * w + 4 <=> k < 4 * w \/ k \in 4 * w .. 4 * w + 3
      OBVIOUS
    <3>2. \A n \in Privates : n \in Int
      BY SidesAre
    <3> QED
      BY <3>1, <3>2
  <2> HIDE DEF Below
  <2> QED
    BY <1>2, <1>7, <2>1, <2>2 DEF Prioritised
<1>9. Cleaned(Privates)' /\ ctlr' = before'.ctlr
  BY <1>2, <1>7 DEF DriverInv, Progress, Cleaned
<1>10. Progress'
  <2>1. CASE w = 7
    <3>1. pc' = "cpuif"
      BY <1>1, <1>2, <2>1
    <3>2. Below(4 * w + 4) = Privates
      BY <2>1, SidesAre
    <3>3. Prioritised(Privates)'
      BY <1>8, <3>2
    <3> QED
      BY <1>9, <3>1, <3>3 DEF Progress, Labels
  <2>2. CASE w # 7
    <3>1. pc' = "priorities" /\ i' = 4 * (w + 1) /\ i' = 4 * w + 4 /\ w + 1 \in 0 .. 7
      BY <1>1, <1>2, <2>2
    <3>2. Prioritised({n \in Privates : n < i})'
      BY <1>8, <3>1
    <3>3. \E v \in 0 .. 7 : i' = 4 * v
      BY <3>1
    <3> QED
      BY <1>9, <3>1, <3>2, <3>3 DEF Progress, Labels
  <2> QED
    BY <2>1, <2>2
<1>11. DriverTypes'
  BY <1>2, <1>7 DEF DriverInv, DriverTypes
<1>12. StoresMapped'
  <2>1. 16640 + w \in Nat /\ 16640 + w <= 32767
    OBVIOUS
  <2>2. InMapping(s.offset, s.region)
    BY <1>5, <1>6, <2>1, CoreMapped
  <2> QED
    BY <1>7, <2>2 DEF StoresMapped, InMapping
<1>13. UNCHANGED Abstract!gicVars
  BY <1>2, <1>7, Unseen DEF Inside
<1> QED
  BY <1>2, <1>10, <1>11, <1>12, <1>13 DEF Right, StepsOfGic, DriverInv

LEMMA StepEnableCpuInterface ==
  ASSUME DriverInv, StoresMapped, EnableCpuInterface
  PROVE  Right
<1>1. /\ pc = "cpuif" /\ pc' = "idle" /\ cpuif' = TRUE /\ waker' = waker
      /\ enabled' = enabled /\ latched' = latched /\ group1' = group1
      /\ priority' = priority /\ ctlr' = ctlr /\ stores' = stores
  BY DEF EnableCpuInterface, At, device
<1>2. waker = {} /\ Cleaned(Privates) /\ Prioritised(Privates) /\ ctlr = before.ctlr
  BY <1>1 DEF DriverInv, Progress, DriverTypes
<1>3. DriverInv'
  BY <1>1, <1>2 DEF DriverInv, Progress, Labels, DriverTypes
<1>4. StoresMapped'
  BY <1>1 DEF StoresMapped
<1>5. Inside /\ ~ Inside'
  BY <1>1 DEF Inside
<1>6. Abstract!Private = Privates
  <2>1. \A n \in Followed : n \in Privates <=> n <= 31
    BY GicRegistersAssumption DEF Privates, Spis
  <2>2. Privates \subseteq Followed
    BY DEF Privates
  <2>3. Abstract!Private = {n \in Followed : n <= 31}
    BY Zenon DEF Abstract!Private, Abstract!PPI_NO_MAX
  <2> QED
    BY <2>1, <2>2, <2>3
<1>7. Abstract!GicInitPerCore
  BY <1>1, <1>2, <1>5, <1>6
     DEF Abstract!GicInitPerCore, Abstract!PENDING_PRIORITY, Cleaned, Prioritised
<1> QED
  BY <1>1, <1>3, <1>4, <1>7 DEF Right, StepsOfGic

-----------------------------------------------------------------------------
(* The irq_chip operations *)

\* The store of gicv3_irq_unmask() and gicv3_irq_mask() is to the bit of the INTID, in
\* the bank of the register that they name.
LEMMA BitStoreIs ==
  ASSUME NEW irq_no \in Nat, NEW bank \in {2, 3},
         NEW private, private = GICR_SGI_OFFSET + 128 * bank,
         NEW shared, shared = 128 * bank,
         NEW S, S = BitStore(irq_no, private, shared)
  PROVE  \/ S = {} /\ Abstract!EnableBit(irq_no) = {}
         \/ \E s : /\ S = {s} /\ InMapping(s.offset, s.region)
                   /\ Frame(s) \in 256 .. 511 /\ Frame(s) \div 128 = bank
                   /\ Word(s, s.value) = Abstract!EnableBit(irq_no) \cap Followed
                   /\ s.region = "gicd" => s.offset # 0
                   /\ s.region = "gicr" => s.offset # Core * GICR_SIZE_PER_CORE + 20
<1>1. CASE irq_no > 1020
  BY <1>1 DEF BitStore, SPI_NO_MAX, Abstract!EnableBit, Abstract!SPI_NO_MAX
<1>2. CASE irq_no <= 31
  <2> DEFINE s == Gicr(GICR_SGI_OFFSET + 128 * bank, {irq_no % 32})
  <2>1. S = {s} /\ irq_no % 32 = irq_no
    BY <1>2 DEF BitStore, SPI_NO_MAX, PPI_NO_MAX
  <2>2. 128 * bank \in Nat
    OBVIOUS
  <2>3. /\ s.region = "gicr" /\ s.value = {irq_no}
        /\ Frame(s) = 128 * bank /\ Side(s) = Privates
    BY <2>1, <2>2, GicrAbove
  <2>4. s.offset = CoreWord(16384 + 32 * bank)
    BY DEF Gicr, CoreWord, GICR_SGI_OFFSET
  <2> HIDE DEF s
  <2>5. InMapping(s.offset, s.region)
    <3>1. 16384 + 32 * bank \in Nat /\ 16384 + 32 * bank <= 32767
      OBVIOUS
    <3> QED
      BY <2>3, <2>4, <3>1, CoreMapped
  <2>6. /\ s.region = "gicd" => s.offset # 0
        /\ s.region = "gicr" => s.offset # Core * GICR_SIZE_PER_CORE + 20
    BY <2>3, <2>4, GicRegistersAssumption DEF CoreWord, GICR_SIZE_PER_CORE
  <2>7. Frame(s) \in 256 .. 511 /\ Frame(s) \div 128 = bank /\ (Frame(s) % 128) \div 4 = 0
    BY <2>3
  <2>8. Word(s, s.value) = {irq_no} \cap Privates
    <3>1. {32 * 0 + b : b \in {irq_no}} = {irq_no}
      OBVIOUS
    <3> QED
      BY <2>3, <2>7, <3>1 DEF Word
  <2>9. Abstract!EnableBit(irq_no) = {irq_no}
    BY <1>2, <2>1 DEF Abstract!EnableBit, Abstract!SPI_NO_MAX, Abstract!PPI_NO_MAX
  <2>10. {irq_no} \cap Privates = {irq_no} \cap Followed
    <3>1. irq_no \in Spis => irq_no \in 32 .. 1019
      BY SidesAre
    <3>2. irq_no \notin Spis
      BY <1>2, <3>1
    <3>3. irq_no \in Privates <=> irq_no \in Followed
      BY <3>2, SidesAre
    <3> QED
      BY <3>3
  <2> QED
    BY <2>1, <2>5, <2>6, <2>7, <2>8, <2>9, <2>10
<1>3. CASE irq_no > 31 /\ irq_no <= 1020
  <2>1. PICK q \in Int, r \in Int : q = irq_no \div 32 /\ r = irq_no % 32
    OBVIOUS
  <2>2. q \in 1 .. 31 /\ r \in 0 .. 31 /\ irq_no = 32 * q + r
    BY <1>3, <2>1
  <2> DEFINE s == Gicd(128 * bank + q * 4, {r})
  <2>3. S = {s}
    BY <1>3, <2>1 DEF BitStore, SPI_NO_MAX, PPI_NO_MAX, WordOffset
  <2>4. /\ s.region = "gicd" /\ s.value = {r} /\ s.offset = 128 * bank + q * 4
        /\ Frame(s) = 128 * bank + q * 4 /\ Side(s) = Spis
    BY GicdIs
  <2> HIDE DEF s
  <2>5. /\ Frame(s) \in 256 .. 511 /\ Frame(s) \div 128 = bank
        /\ (Frame(s) % 128) \div 4 = q /\ s.offset % 4 = 0
    BY <2>2, <2>4
  <2>6. InMapping(s.offset, s.region) /\ s.offset # 0
    BY <2>2, <2>4, <2>5 DEF InMapping, Mapped, GICD_SIZE
  <2>7. Word(s, s.value) = {irq_no} \cap Spis
    <3>1. {32 * q + b : b \in {r}} = {irq_no}
      BY <2>2
    <3> DEFINE w == (Frame(s) % 128) \div 4
    <3>2. Word(s, s.value) = {32 * w + b : b \in s.value} \cap Side(s)
      BY Zenon DEF Word
    <3>3. w = q
      BY <2>5
    <3> HIDE DEF w
    <3>4. {32 * w + b : b \in s.value} = {irq_no}
      BY <2>4, <3>1, <3>3
    <3> QED
      BY <2>4, <3>2, <3>4
  <2>8. Abstract!EnableBit(irq_no) = {irq_no}
    <3>1. Abstract!EnableBit(irq_no) = {32 * q + r} \ (0 .. 31)
      BY <1>3, <2>1 DEF Abstract!EnableBit, Abstract!SPI_NO_MAX, Abstract!PPI_NO_MAX,
                        Abstract!DistributorBit
    <3> QED
      BY <1>3, <2>2, <3>1
  <2>9. {irq_no} \cap Spis = {irq_no} \cap Followed
    BY <1>3, SidesAre
  <2>10. /\ S = {s} /\ InMapping(s.offset, s.region)
         /\ Frame(s) \in 256 .. 511 /\ Frame(s) \div 128 = bank
         /\ Word(s, s.value) = Abstract!EnableBit(irq_no) \cap Followed
    BY <2>3, <2>5, <2>6, <2>7, <2>8, <2>9
  <2>11. /\ s.region = "gicd" => s.offset # 0
         /\ s.region = "gicr" => s.offset # Core * GICR_SIZE_PER_CORE + 20
    BY <2>4, <2>6
  <2> QED
    BY <2>10, <2>11
<1> QED
  BY <1>1, <1>2, <1>3

LEMMA StepMaskUnmask ==
  ASSUME DriverInv, StoresMapped, enabled \subseteq Followed, NEW irq_no \in Asked,
         GicIrqUnmask(irq_no) \/ GicIrqMask(irq_no)
  PROVE  Right
<1>1. irq_no \in Nat
  BY GicRegistersAssumption
<1>2. PICK bank \in {2, 3} :
        /\ bank = 2 => GicIrqUnmask(irq_no)
        /\ bank = 3 => GicIrqMask(irq_no)
  OBVIOUS
<1> DEFINE private == GICR_SGI_OFFSET + 128 * bank
           shared == 128 * bank
           S == BitStore(irq_no, private, shared)
<1>3. /\ pc = "idle" /\ Write(S) /\ cpuif' = cpuif /\ pc' = pc /\ i' = i /\ before' = before
      /\ call' = IF bank = 2 THEN <<"unmask", irq_no>> ELSE <<"mask", irq_no>>
  <2>1. CASE bank = 2
    BY <1>2, <2>1 DEF GicIrqUnmask, GICR, GICD
  <2>2. CASE bank = 3
    BY <1>2, <2>2 DEF GicIrqMask, GICR, GICD
  <2> QED
    BY <2>1, <2>2
<1>4. \/ S = {} /\ Abstract!EnableBit(irq_no) = {}
      \/ \E s : /\ S = {s} /\ InMapping(s.offset, s.region)
                /\ Frame(s) \in 256 .. 511 /\ Frame(s) \div 128 = bank
                /\ Word(s, s.value) = Abstract!EnableBit(irq_no) \cap Followed
                /\ s.region = "gicd" => s.offset # 0
                /\ s.region = "gicr" => s.offset # Core * GICR_SIZE_PER_CORE + 20
  BY <1>1, BitStoreIs
<1> DEFINE D == Abstract!EnableBit(irq_no) \cap Followed
<1> HIDE DEF S
<1>5. \A s \in S : /\ Frame(s) \in 256 .. 511 /\ Frame(s) \div 128 = bank
                   /\ InMapping(s.offset, s.region)
                   /\ s.region # "gicd" \/ s.offset # 0
                   /\ s.region # "gicr" \/ s.offset # Core * GICR_SIZE_PER_CORE + 20
  BY <1>4
<1>6. \A b \in 1 .. 5 : SetBits(S, b) = IF b = bank THEN D ELSE {}
  <2> SUFFICES ASSUME NEW b \in 1 .. 5
               PROVE  SetBits(S, b) = IF b = bank THEN D ELSE {}
    OBVIOUS
  <2>1. CASE b # bank
    <3>1. InBank(S, b) = {}
      BY <1>5, <2>1 DEF InBank
    <3> QED
      BY <2>1, <3>1, Banks
  <2>2. CASE b = bank /\ S = {} /\ Abstract!EnableBit(irq_no) = {}
    <3>1. InBank(S, b) = {}
      BY <2>2 DEF InBank
    <3> QED
      BY <2>2, <3>1, Banks
  <2>3. ASSUME b = bank, NEW s, S = {s}, Frame(s) \in 256 .. 511, Frame(s) \div 128 = bank,
               Word(s, s.value) = D
        PROVE  SetBits(S, b) = D
    <3>1. Frame(s) \in 128 .. 1023
      BY <2>3
    <3>2. InBank(S, b) = {s}
      BY <2>3, <3>1 DEF InBank
    <3>3. SetBits(S, b) = Word(s, s.value)
      BY <3>2, Banks
    <3> QED
      BY <2>3, <3>3
  <2> HIDE DEF D
  <2>4. CASE b = bank /\ ~ (S = {} /\ Abstract!EnableBit(irq_no) = {})
    <3>1. PICK s : /\ S = {s} /\ Frame(s) \in 256 .. 511 /\ Frame(s) \div 128 = bank
                   /\ Word(s, s.value) = D
      BY <1>4, <2>4 DEF D
    <3>2. b = bank
      BY <2>4
    <3>3. SetBits(S, b) = D
      BY <2>3, <3>1, <3>2
    <3> QED
      BY <3>2, <3>3
  <2> QED
    BY <2>1, <2>2, <2>4
<1>7. Covered(S, 1) = {}
  <2>1. InBank(S, 1) = {}
    BY <1>5 DEF InBank
  <2> QED
    BY <2>1, Banks
<1> HIDE DEF D
<1>8. /\ enabled' = IF bank = 2 THEN enabled \cup D ELSE enabled \ D
      /\ latched' = latched /\ group1' = group1
  <2>1. /\ SetBits(S, 1) = {} /\ SetBits(S, 4) = {} /\ SetBits(S, 5) = {}
        /\ SetBits(S, 2) = (IF bank = 2 THEN D ELSE {})
        /\ SetBits(S, 3) = (IF bank = 3 THEN D ELSE {})
    BY <1>6
  <2> QED
    BY <1>3, <1>7, <2>1 DEF Write
<1>9. priority' = priority
  <2>1. \A s \in S : Frame(s) \in Int /\ (Frame(s) < 1021 \/ Frame(s) > 2047)
    BY <1>5
  <2> QED
    BY <1>3, <2>1, PriorityKept DEF DriverInv, DriverTypes
<1>10. ctlr' = ctlr /\ waker' = waker /\ waker = {}
  <2>1. waker \in {{}, {2}, {1, 2}} /\ waker = {}
    BY <1>3 DEF DriverInv, DriverTypes
  <2> QED
    BY <1>3, <1>5, <2>1, ControlKept
<1>11. DriverInv'
  BY <1>3, <1>9, <1>10 DEF DriverInv, Progress, Labels, DriverTypes
<1>12. StoresMapped'
  BY <1>3, <1>5 DEF StoresMapped, InMapping, Write
<1>13. ~ Inside /\ ~ Inside'
  BY <1>3 DEF Inside
<1>14. CASE bank = 2
  <2>1. Abstract!GicIrqUnmask(irq_no)
    BY <1>3, <1>8, <1>9, <1>10, <1>13, <1>14 DEF Abstract!GicIrqUnmask, D
  <2> QED
    BY <1>3, <1>11, <1>12, <1>14, <2>1 DEF Right, StepsOfGic
<1>15. CASE bank = 3
  <2>1. enabled' = enabled \ Abstract!EnableBit(irq_no)
    BY <1>8, <1>15 DEF D
  <2>2. Abstract!GicIrqMask(irq_no)
    BY <1>3, <1>8, <1>9, <1>10, <1>13, <2>1 DEF Abstract!GicIrqMask
  <2> QED
    BY <1>3, <1>11, <1>12, <1>15, <2>2 DEF Right, StepsOfGic
<1> QED
  BY <1>14, <1>15

\* The register that gicv3_irq_set_type() writes is the one of its INTID.
LEMMA StepSetType ==
  ASSUME DriverInv, StoresMapped, NEW irq_no \in Intids, NEW type \in Types,
         SetType(irq_no, type)
  PROVE  Right
<1>1. /\ pc = "idle" /\ pc' = pc /\ i' = i /\ before' = before /\ cpuif' = cpuif
      /\ enabled' = enabled /\ latched' = latched /\ group1' = group1
      /\ priority' = priority /\ ctlr' = ctlr /\ waker' = waker
      /\ call' = <<"set_type", irq_no>>
  BY DEF SetType, device
<1>2. irq_no \in Nat
  BY GicTriggerAssumption
<1>3. \A s \in stores' : /\ Frame(s) = 3072 + 4 * Register(irq_no)
                         /\ InMapping(s.offset, s.region)
  <2>1. CASE stores' = {}
    BY <2>1
  <2>2. CASE GicIrqSetType(irq_no, type) /\ stores' = {TypeStore(irq_no)}
    <3>1. irq_no <= 1020
      BY <2>2 DEF GicIrqSetType, SPI_NO_MAX
    <3>2. CASE 15 <= irq_no /\ irq_no <= 31
      <4> DEFINE s == Gicr(GICR_SGI_OFFSET + 3076, icfgr'[1])
      <4>1. TypeStore(irq_no) = s /\ Register(irq_no) = 1
        BY <1>2, <3>2 DEF TypeStore, Register, PPI_NO_MIN, PPI_NO_MAX, GICR
      <4>2. s.region = "gicr" /\ Frame(s) = 3076
        BY GicrAbove
      <4>3. s.offset = CoreWord(17153)
        BY DEF Gicr, CoreWord, GICR_SGI_OFFSET
      <4> HIDE DEF s
      <4>4. 17153 \in Nat /\ 17153 <= 32767
        OBVIOUS
      <4>5. InMapping(CoreWord(17153), "gicr")
        BY <4>4, CoreMapped
      <4> QED
        BY <2>2, <4>1, <4>2, <4>3, <4>5
    <3>3. CASE irq_no < 15 \/ irq_no > 31
      <4>1. PICK q \in Int : q = irq_no \div 16
        BY <1>2
      <4>2. q \in 0 .. 63
        BY <1>2, <3>1, <4>1
      <4> DEFINE s == Gicd(3072 + q * 4, icfgr'[q])
      <4>3. TypeStore(irq_no) = s /\ Register(irq_no) = q
        BY <1>2, <3>3, <4>1 DEF TypeStore, Register, PPI_NO_MIN, PPI_NO_MAX, GICD
      <4>4. /\ s.region = "gicd" /\ s.offset = 3072 + q * 4 /\ Frame(s) = 3072 + q * 4
        BY GicdIs
      <4> HIDE DEF s
      <4>5. InMapping(s.offset, s.region)
        BY <4>2, <4>4 DEF InMapping, Mapped, GICD_SIZE
      <4> QED
        BY <2>2, <4>2, <4>3, <4>4, <4>5
    <3> QED
      BY <1>2, <3>2, <3>3
  <2> QED
    BY <2>1, <2>2 DEF SetType
<1>4. DriverInv'
  BY <1>1 DEF DriverInv, Progress, Labels, DriverTypes
<1>5. StoresMapped'
  BY <1>3 DEF StoresMapped, InMapping
<1>6. UNCHANGED Abstract!gicVars
  BY <1>1, Unseen DEF Inside
<1> QED
  BY <1>1, <1>3, <1>4, <1>5, <1>6 DEF Right, StepsOfGic

-----------------------------------------------------------------------------
(* Every step *)

\* Only interrupts that are followed are enabled.
LEMMA EnabledStep ==
  ASSUME enabled \subseteq Followed, [DriverNext]_<<vars, driverVars>>
  PROVE  enabled' \subseteq Followed
<1>1. ASSUME NEW S, Write(S)
      PROVE  enabled' \subseteq Followed
  <2>1. \A s, bits : Word(s, bits) \subseteq Followed
    BY DEF Word, Side
  <2>2. SetBits(S, 2) \subseteq Followed
    BY <2>1 DEF SetBits
  <2> QED
    BY <1>1, <2>2 DEF Write
<1>2. ASSUME InitStep
      PROVE  (\E S : Write(S)) \/ enabled' = enabled
  <2>1. Awake \/ EnableCpuInterface => enabled' = enabled
    BY DEF Awake, EnableCpuInterface, device
  <2>2. DisableDistributor \/ CleanWord \/ SetPriority \/ EnableDistributor => \E S : Write(S)
    BY Zenon DEF DisableDistributor, CleanWord, SetPriority, EnableDistributor
  <2>3. Wakeup \/ CleanPrivate \/ SetPrivatePriority => \E S : Write(S)
    BY Zenon DEF Wakeup, CleanPrivate, SetPrivatePriority
  <2> QED
    BY <1>2, <2>1, <2>2, <2>3 DEF InitStep
<1>3. ASSUME NEW irq_no, GicIrqUnmask(irq_no) \/ GicIrqMask(irq_no)
      PROVE  \E S : Write(S)
  BY <1>3, Zenon DEF GicIrqUnmask, GicIrqMask
<1>4. RedistributorWakes => enabled' = enabled
  BY DEF RedistributorWakes
<1>5. UNCHANGED <<vars, driverVars>> => enabled' = enabled
  BY DEF driverVars, device
<1>6. ASSUME NEW irq_no, NEW type, SetType(irq_no, type)
      PROVE  enabled' = enabled
  BY <1>6 DEF SetType, device
<1>7. CASE InitStep
  BY <1>1, <1>2, <1>7
<1>8. CASE RedistributorWakes \/ UNCHANGED <<vars, driverVars>>
  BY <1>4, <1>5, <1>8
<1>9. CASE \E irq_no \in Asked : GicIrqUnmask(irq_no) \/ GicIrqMask(irq_no)
  BY <1>1, <1>3, <1>9
<1>10. CASE \E irq_no \in Intids, type \in Types : SetType(irq_no, type)
  BY <1>6, <1>10
<1> QED
  BY <1>7, <1>8, <1>9, <1>10 DEF DriverNext

LEMMA DriverInvInit ==
  ASSUME DriverInit
  PROVE  DriverInv /\ StoresMapped /\ enabled \subseteq Followed /\ TypeOK
<1>1. PICK used \in SUBSET Followed :
        /\ enabled = used
        /\ priority = [n \in Followed |-> IF n \in used THEN 255 ELSE 0]
  BY DEF DriverInit
<1>2. pc = "global" /\ waker \in {{}, {1, 2}} /\ stores = {} /\ Init
  BY DEF DriverInit
<1>3. DriverInv
  BY <1>1, <1>2 DEF DriverInv, Progress, Labels, DriverTypes
<1> QED
  BY <1>1, <1>2, <1>3, TypeInit DEF StoresMapped

LEMMA DriverStep ==
  ASSUME DriverInv, StoresMapped, enabled \subseteq Followed, DriverNext
  PROVE  Right
<1>1. CASE InitStep
  BY <1>1, StepDisableDistributor, StepCleanWord, StepSetPriority, StepEnableDistributor,
     StepWakeup, StepAwake, StepCleanPrivate, StepSetPrivatePriority, StepEnableCpuInterface
     DEF InitStep
<1>2. CASE RedistributorWakes
  BY <1>2, StepRedistributorWakes
<1>3. ASSUME NEW irq_no \in Asked, GicIrqUnmask(irq_no) \/ GicIrqMask(irq_no)
      PROVE  Right
  BY <1>3, StepMaskUnmask
<1>4. ASSUME NEW irq_no \in Intids, NEW type \in Types, SetType(irq_no, type)
      PROVE  Right
  BY <1>4, StepSetType
<1> QED
  BY <1>1, <1>2, <1>3, <1>4 DEF DriverNext

\* Only SetType changes the registers of module GicTrigger.
LEMMA TriggerStep ==
  ASSUME [DriverNext]_<<vars, driverVars>>
  PROVE  [Next]_vars
<1>1. ASSUME NEW irq_no \in Intids, NEW type \in Types, SetType(irq_no, type)
      PROVE  Next
  BY <1>1 DEF SetType, Next
<1> QED
  BY <1>1 DEF DriverNext

IndInv == DriverInv /\ StoresMapped /\ enabled \subseteq Followed /\ TypeOK

LEMMA IndInvStep ==
  ASSUME IndInv, [DriverNext]_<<vars, driverVars>>
  PROVE  IndInv' /\ [StepsOfGic]_<<vars, driverVars>>
<1>1. enabled' \subseteq Followed
  BY EnabledStep DEF IndInv
<1>2. TypeOK'
  BY TriggerStep, TypeStep DEF IndInv
<1>3. CASE DriverNext
  <2>1. Right
    BY <1>3, DriverStep DEF IndInv
  <2> QED
    BY <1>1, <1>2, <2>1 DEF Right, IndInv
<1>4. CASE UNCHANGED <<vars, driverVars>>
  <2>1. DriverInv' /\ StoresMapped'
    BY <1>4 DEF IndInv, DriverInv, Progress, DriverTypes, Cleaned, Prioritised, StoresMapped,
                driverVars, device
  <2> QED
    BY <1>1, <1>2, <1>4, <2>1 DEF IndInv
<1> QED
  BY <1>3, <1>4

-----------------------------------------------------------------------------
(* The theorems *)

\* How far the loops of gicv3_init() are and what they have done to the INTIDs, that the
\* redistributor sleeps only until the wait, and the types of the trigger registers.
THEOREM Invariance == DriverSpec => []IndInv
<1>1. DriverInit => IndInv
  BY DriverInvInit DEF IndInv
<1>2. IndInv /\ [DriverNext]_<<vars, driverVars>> => IndInv'
  BY IndInvStep
<1> QED
  BY <1>1, <1>2, PTL DEF DriverSpec

\* Every store of gicv3.c is to an aligned word of a mapped region, for any INTID that
\* it is called with and on any of the four cores.
THEOREM WordsMapped == DriverSpec => []StoresMapped
<1>1. IndInv => StoresMapped
  BY DEF IndInv
<1> QED
  BY <1>1, Invariance, PTL

\* The stores of gicv3_init(), unmask, mask and set_type do to the INTIDs what module
\* Gic says, whichever INTIDs are followed: no SPI left out, no neighbour touched.
THEOREM Refinement == DriverSpec => ImplementsGic
<1>1. DriverInit => IndInv
  BY DriverInvInit DEF IndInv
<1>2. IndInv /\ [DriverNext]_<<vars, driverVars>> => IndInv'
  BY IndInvStep
<1>3. IndInv /\ [DriverNext]_<<vars, driverVars>> => [StepsOfGic]_<<vars, driverVars>>
  BY IndInvStep
<1> QED
  BY <1>1, <1>2, <1>3, PTL DEF DriverSpec, ImplementsGic

\* Among the driver's other operations, too, gicv3_irq_set_type() changes only the
\* trigger of the INTID that it is called with.
THEOREM DriverKeepsTriggers == DriverSpec => OthersKeepTrigger
<1>1. DriverInit => TypeOK
  BY TypeInit DEF DriverInit
<1>2. TypeOK /\ [DriverNext]_<<vars, driverVars>> => TypeOK'
  BY TriggerStep, TypeStep
<1>3. TypeOK /\ [DriverNext]_<<vars, driverVars>> => [KeepsOthers]_vars
  BY TriggerStep, KeptStep
<1> QED
  BY <1>1, <1>2, <1>3, PTL DEF DriverSpec, OthersKeepTrigger
=============================================================================
