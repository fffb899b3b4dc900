----------------------------- MODULE LockClients -----------------------------
(***************************************************************************)
(* Tasks that use spin locks: each section of a lock reads what the lock   *)
(* protects and writes it back changed, and may hold a section of another  *)
(* lock in between.  Nothing in the kernel calls spin_lock() yet; the      *)
(* tasks call it as spinlock.h allows.  The timer's interrupt switches     *)
(* tasks wherever interrupts are unmasked, and a task goes on where it was *)
(* (OthersSuspended of module Kernel).                                     *)
(***************************************************************************)
EXTENDS SpinLock

CONSTANTS
  Tasks,
  MaxHeld,              \* locks a task takes within one another; 1: no nesting
  Values                \* bound: the protected value counts modulo this

ASSUME ClientAssumption == MaxHeld \in Nat \ {0} /\ Values \in Nat \ {0}

VARIABLES
  running,              \* the task on the CPU
  pc,                   \* for each task, where it is in a section, or "out"
  held,                 \* for each task, the sections it is in: <<lock, value read>>
  data                  \* what each lock protects

clientVars == <<running, pc, held, data>>
sectionVars == <<lockVars, clientVars>>

SectionTypeOK ==
  /\ LockTypeOK
  /\ running \in Tasks
  /\ pc \in [Tasks -> {"out", "set", "load", "body", "clear", "enable"}]
  /\ \A t \in Tasks : /\ held[t] \in Seq(Locks \X (0 .. Values - 1))
                      /\ Len(held[t]) <= MaxHeld
  /\ data \in [Locks -> 0 .. Values - 1]

SectionInit ==
  /\ masked = FALSE
  /\ lock = [l \in Locks |-> 0]
  /\ running \in Tasks
  /\ pc = [t \in Tasks |-> "out"]
  /\ held = [t \in Tasks |-> <<>>]
  /\ data = [l \in Locks |-> 0]

At(label) == pc[running] = label

Goto(label) == pc' = [pc EXCEPT ![running] = label]

Depth == Len(held[running])

\* The innermost section of the running task.
Inner == held[running][Depth]

Holds(t, l) == \E i \in 1 .. Len(held[t]) : held[t][i][1] = l

-----------------------------------------------------------------------------
(* spin_lock() *)

LockDisables(l) ==
  /\ At("out") \/ At("body")
  /\ Depth < MaxHeld
  /\ ~ Holds(running, l)
  /\ DisableException
  /\ held' = [held EXCEPT ![running] = Append(@, <<l, 0>>)]
  /\ Goto("set")
  /\ UNCHANGED <<lock, running, data>>

LockSets ==
  /\ At("set")
  /\ SetLock(Inner[1])
  /\ Goto("load")
  /\ UNCHANGED <<masked, running, held, data>>

-----------------------------------------------------------------------------
(* The section *)

Load ==
  /\ At("load")
  /\ held' = [held EXCEPT ![running][Depth][2] = data[Inner[1]]]
  /\ Goto("body")
  /\ UNCHANGED <<lockVars, running, data>>

Store ==
  /\ At("body")
  /\ data' = [data EXCEPT ![Inner[1]] = (Inner[2] + 1) % Values]
  /\ Goto("clear")
  /\ UNCHANGED <<lockVars, running, held>>

-----------------------------------------------------------------------------
(* spin_unlock() *)

UnlockClears ==
  /\ At("clear")
  /\ ClearLock(Inner[1])
  /\ Goto("enable")
  /\ UNCHANGED <<masked, running, held, data>>

UnlockEnables ==
  /\ At("enable")
  /\ EnableException
  /\ held' = [held EXCEPT ![running] = SubSeq(@, 1, Depth - 1)]
  /\ Goto(IF Depth = 1 THEN "out" ELSE "body")
  /\ UNCHANGED <<lock, running, data>>

-----------------------------------------------------------------------------
\* The timer's interrupt and a context switch.
Switch ==
  /\ ~ masked
  /\ running' \in Tasks \ {running}
  /\ UNCHANGED <<lockVars, pc, held, data>>

InSection == LockSets \/ Load \/ Store \/ UnlockClears \/ UnlockEnables

SectionNext == Switch \/ InSection \/ \E l \in Locks : LockDisables(l)

SectionSpec == SectionInit /\ [][SectionNext]_sectionVars

-----------------------------------------------------------------------------
(* Properties *)

\* The sections a task is in, from the value it read on.
Read(t) ==
  {i \in 1 .. Len(held[t]) : i < Len(held[t]) \/ pc[t] = "body"}

\* What a task read in a section of a lock is still there when it writes it back: no
\* other task's section of the lock came in between, spinlock.h's reason to exist.
ReadStaysValid ==
  \A t \in Tasks : \A i \in Read(t) : held[t][i][2] = data[held[t][i][1]]

\* The word says whether somebody is in a section of the lock, whatever task runs.
WordTellsHeld ==
  \A l \in Locks :
    lock[l] = 1 <=> \E t \in Tasks : Holds(t, l) /\ pc[t] \in {"load", "body", "clear"}
=============================================================================
