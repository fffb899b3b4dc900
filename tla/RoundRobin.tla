----------------------------- MODULE RoundRobin -----------------------------
(***************************************************************************)
(* What the scheduler promises its tasks: one task at a time has the turn, *)
(* it keeps it for Slice timer ticks, and the turn passes through the      *)
(* tasks in the order in which they were created.                          *)
(***************************************************************************)
EXTENDS Integers

CONSTANT Slice          \* ticks in a turn, at least one

VARIABLES
  n,                    \* number of tasks admitted so far
  turn,                 \* the task that has the turn
  left                  \* ticks left of that turn

vars == <<n, turn, left>>

Init ==
  /\ n = 0
  /\ turn = 1
  /\ left = Slice

\* A new task takes its place behind all the others.
Admit ==
  /\ n' = n + 1
  /\ UNCHANGED <<turn, left>>

\* A tick is charged to the task that has the turn, and to no other.
Tick ==
  /\ n > 0
  /\ left > 0
  /\ left' = left - 1
  /\ UNCHANGED <<n, turn>>

\* Only a turn that is used up passes on, to the next task in order.
Rotate ==
  /\ n > 0
  /\ left = 0
  /\ turn' = IF turn = n THEN 1 ELSE turn + 1
  /\ left' = Slice
  /\ UNCHANGED n

Next == Admit \/ Tick \/ Rotate

Spec == Init /\ [][Next]_vars
=============================================================================
