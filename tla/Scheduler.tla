------------------------------ MODULE Scheduler ------------------------------
(***************************************************************************)
(* kernel/task.c and kernel/schedule.c: the task table, create_task(),     *)
(* scheduler_tick(), check_resched() and schedule().  The operations are   *)
(* actions over the table; module Kernel says who calls them and when.     *)
(*                                                                         *)
(* Slots are numbered from 1: slot i is task[i - 1].  A slot i <=          *)
(* task_count holds a task_struct, the others NULL: create_task() fills    *)
(* them in order and nothing empties one.  Of a task_struct the model      *)
(* keeps the two fields that change, counter and flags.  create_task()     *)
(* alone writes state, priority and preepmt_count, always with the same    *)
(* values, so they are constants here.                                     *)
(* system_ticks only feeds a log line and is left out.                     *)
(***************************************************************************)
EXTENDS Integers

CONSTANTS
  NR_TASKS,             \* slots in task[], 64 in the source
  Priority,             \* counter and priority of a new task, 10 in the source
  Word,                 \* number of values of a uint64_t, 2^64 in the source
  Pages                 \* the most pages that may be free when tasks are created

(***************************************************************************)
(* At least one page is free: by then pmm_init() has put all RAM behind    *)
(* the kernel image in the free list and only the page tables were taken.  *)
(***************************************************************************)
ASSUME SchedulerAssumption ==
  /\ NR_TASKS \in Nat \ {0}
  /\ Priority \in Nat \ {0}
  /\ Word \in Nat /\ Priority < Word
  /\ Pages \in Nat \ {0}

NULL == 0

Slots == 1 .. NR_TASKS

VARIABLES
  pages,                \* pages pmm_get_free_page() can still hand out
  task_count,           \* task_ctrl_blk.task_count
  counter,              \* task[i]->counter, the ticks left of its time slice
  flags,                \* is TIF_NEED_RESCHED set in task[i]->flags?
  current               \* the slot of the task that `current` points to, or NULL

schedVars == <<pages, task_count, counter, flags, current>>

SchedTypeOK ==
  /\ pages \in Nat
  /\ task_count \in 0 .. NR_TASKS
  /\ counter \in [Slots -> 0 .. Word - 1]
  /\ flags \in [Slots -> BOOLEAN]
  /\ current \in Slots \cup {NULL}

SchedInit ==
  /\ pages \in 1 .. Pages
  /\ task_count = 0
  /\ counter = [i \in Slots |-> 0]
  /\ flags = [i \in Slots |-> FALSE]
  /\ current = NULL

-----------------------------------------------------------------------------
(* create_task() *)

\* Slots that hold a task.  Every task stays TASK_RUNNING.
Live == 1 .. task_count

\* A page for the task_struct and its stack, a full slice, the next slot.
CreateTask ==
  /\ pages > 0
  /\ pages' = pages - 1
  /\ task_count' = task_count + 1
  /\ counter' = [counter EXCEPT ![task_count + 1] = Priority]
  /\ flags' = [flags EXCEPT ![task_count + 1] = FALSE]

\* pmm_get_free_page() returns NULL: create_task() returns -1.
CreateTaskFails ==
  /\ pages = 0
  /\ UNCHANGED schedVars

-----------------------------------------------------------------------------
(* scheduler_tick() *)

\* counter-- on a uint64_t
Decremented(c) == IF c = 0 THEN Word - 1 ELSE c - 1

SchedulerTick_NoResched ==
  /\ counter' = [counter EXCEPT ![current] = Decremented(@)]
  /\ UNCHANGED <<pages, task_count, flags, current>>

SchedulerTick ==
  /\ counter' = [counter EXCEPT ![current] = Decremented(@)]
  /\ flags' = [flags EXCEPT ![current] = @ \/ counter'[current] = 0]
  /\ UNCHANGED <<pages, task_count, current>>

-----------------------------------------------------------------------------
(* check_resched() and schedule() *)

PreemptDisabled == 1

\* current->preepmt_count: create_task() writes 0 and nothing else writes it.
PreemptCount == 0

\* Nobody has a slice left: max_time_slice is still 0 after the search.
Exhausted(c) == \A t \in Live : c[t] = 0

Recharged(c) ==
  [t \in Slots |-> IF t \in Live THEN (c[t] \div 2) + Priority ELSE c[t]]

\* The while loop of schedule().  As Priority > 0 it recharges once at most.
Charged(c) == IF Exhausted(c) THEN Recharged(c) ELSE c

LastLongest(c) ==
  CHOOSE t \in Live : \A u \in Live : /\ c[u] <= c[t]
                                      /\ u > t => c[u] < c[t]

\* The search keeps the first task that has strictly more left than those before.
Longest(c) ==
  CHOOSE t \in Live : \A u \in Live : /\ c[u] <= c[t]
                                      /\ u < t => c[u] < c[t]

\* What schedule() does to the table once it is past the preemption check.
Schedule ==
  /\ counter' = Charged(counter)
  /\ current' = Longest(Charged(counter))
  /\ UNCHANGED <<pages, task_count>>

\* check_resched() reaches the scheduling loop.
MustSchedule == flags[current] /\ PreemptCount = 0

FlagCleared_Kept == flags' = flags

FlagCleared == flags' = [flags EXCEPT ![current] = FALSE]

CheckReschedReturns ==
  /\ ~ MustSchedule
  /\ FlagCleared
  /\ UNCHANGED <<pages, task_count, counter, current>>

CheckReschedSchedules ==
  /\ MustSchedule
  /\ FlagCleared
  /\ Schedule
=============================================================================
