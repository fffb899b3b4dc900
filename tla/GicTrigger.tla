----------------------------- MODULE GicTrigger -----------------------------
(***************************************************************************)
(* gicv3_irq_set_type() of drivers/irq/gicv3.c: the trigger of an INTID is *)
(* a field of two bits in an ICFGR register of 32.  A register is modelled *)
(* as the set of its bits that are 1.                                      *)
(***************************************************************************)
EXTENDS Integers, FiniteSets

CONSTANT Intids         \* arguments of gicv3_irq_set_type(), of any kind

SPI_NO_MAX == 1020
PPI_NO_MIN == 15
PPI_NO_MAX == 31

IRQ_TYPE_EDGE == 1
IRQ_TYPE_LEVEL == 4
Types == {IRQ_TYPE_EDGE, IRQ_TYPE_LEVEL}

\* gicv3_reg.h: what the field holds for a trigger
LEVEL_SENSITVIE_VAL == 0
EDGE_TRIGGER_VAL == 2

ASSUME GicTriggerAssumption == Intids \subseteq Nat

VARIABLES
  icfgr,                \* ICFGR registers: number |-> bits.  1 is GICR_ICFGR1, n
                        \* the distributor's n-th, which has the INTIDs 16n to 16n + 15
  last                  \* the last call: <<irq_no, type>>

vars == <<icfgr, last>>

Registers == {i \div 16 : i \in Intids} \cup {1}

Bits == 0 .. 31

\* Whatever firmware left: here all level-sensitive or all edge-triggered.
Init ==
  /\ icfgr \in [Registers -> {{}, Bits}]
  /\ last = <<0, 0>>

-----------------------------------------------------------------------------
\* PPIs are in GICR_ICFGR1, whose fields start at INTID 16.  The driver has PPIs from 15
\* on; 0 to 14 it takes for SPIs, in the distributor's register 0, which is reserved.
Register(i) == IF PPI_NO_MIN <= i /\ i <= PPI_NO_MAX THEN 1 ELSE i \div 16

ShiftNum_OneBit(i) == i % 16

\* The difference wraps as uint32_t, which leaves the remainder by 16 as it is: 15 for 15.
ShiftNum(i) ==
  IF PPI_NO_MIN <= i /\ i <= PPI_NO_MAX THEN ((i - 16) % 16) * 2 ELSE (i % 16) * 2

\* The bits of a type shifted left: EDGE is bit 0, LEVEL bit 2.  What is shifted
\* out of the word is lost.
Shifted(type, n) ==
  (IF type = IRQ_TYPE_EDGE THEN {n} ELSE {n + 2}) \cap Bits

GicIrqSetType(i, type) ==
  /\ i <= SPI_NO_MAX
  /\ LET n == ShiftNum(i)
     IN icfgr' = [icfgr EXCEPT ![Register(i)] = (@ \ {n, n + 1}) \cup Shifted(type, n)]
  /\ last' = <<i, type>>

GicIrqSetTypeFails(i, type) ==
  /\ i > SPI_NO_MAX
  /\ last' = <<i, type>>
  /\ UNCHANGED icfgr

Next == \E i \in Intids, type \in Types : GicIrqSetType(i, type) \/ GicIrqSetTypeFails(i, type)

Spec == Init /\ [][Next]_vars

-----------------------------------------------------------------------------
(* Properties *)

\* The controller: the upper bit of an INTID's field says edge, the lower is reserved.
IsEdge(i) == 2 * (i % 16) + 1 \in icfgr[i \div 16]

TypeOK ==
  /\ icfgr \in [Registers -> SUBSET Bits]
  /\ last \in (Intids \cup {0}) \X (Types \cup {0})

\* SGIs, 0 to 15, are edge-triggered for good; the others can be configured.
Configurable == {i \in Intids : 16 <= i /\ i <= SPI_NO_MAX}

\* Whose field a call is after: its INTID's own, but 31's for INTID 15, a PPI by
\* gicv3_reg.h:78 (PPI_NO_MIN) although the GIC's are 16 to 31.
FieldOf(i) == IF i = 15 THEN 31 ELSE i

KeepsOthers ==
  \A i \in Configurable : FieldOf(last'[1]) = i \/ (IsEdge(i)' <=> IsEdge(i))

\* Setting the type of one interrupt does not change the trigger of another, though the
\* driver stores a bit too many, with one exception: set_type() of INTID 15 rewrites the
\* field of INTID 31 (gicv3.c:128), and that one only.
OthersKeepTrigger == [][KeepsOthers]_vars

\* gicv3_reg.h:86-87 "LEVEL_SENSITVIE_VAL (0)", "EDGE_TRIGGER_VAL (2)": behind
\* gicv3_irq_set_type() the interrupt has the trigger asked for.
HasTypeAskedFor ==
  last[1] \in Configurable => (IsEdge(last[1]) <=> last[2] = IRQ_TYPE_EDGE)
=============================================================================
