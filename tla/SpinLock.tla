------------------------------ MODULE SpinLock ------------------------------
(***************************************************************************)
(* kernel/include/spinlock.h.  A lock for one core: it keeps other code    *)
(* out by masking interrupts and never looks at its own word.  Each        *)
(* operation is two steps, between which an interrupt may come if          *)
(* interrupts are unmasked; modules with callers say who takes which step. *)
(***************************************************************************)
EXTENDS Integers, Sequences

CONSTANT Locks          \* the spinlock_t variables

VARIABLES
  masked,               \* PSTATE.I of the running code
  lock                  \* spinlock_t.lock of each

lockVars == <<masked, lock>>

LockTypeOK ==
  /\ masked \in BOOLEAN
  /\ lock \in [Locks -> {0, 1}]

DisableException_FiqOnly == UNCHANGED masked

\* disable_exception() and enable_exception() of arch/aarch64/cpu.h
DisableException == masked' = TRUE

EnableException == masked' = FALSE

\* spin_lock(): disable_exception(), then the word.
SetLock(l) == lock' = [lock EXCEPT ![l] = 1]

ClearLock_NotCleared(l) == UNCHANGED lock

\* spin_unlock(): the word, then enable_exception(), whatever was masked before.
ClearLock(l) == lock' = [lock EXCEPT ![l] = 0]
=============================================================================
