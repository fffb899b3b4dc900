------------------------------- MODULE Queue -------------------------------
(***************************************************************************)
(* kernel/queue.c: queues as rings of pointers.  A queue_t is a queue's    *)
(* root or an element; the root's p_next is the front, its p_prev the      *)
(* back, and an empty ring is the root alone.  The file has no caller in   *)
(* the kernel yet, so the client is any that keeps to the protocol: it     *)
(* opens a queue once and pushes or inserts only what is in no queue.      *)
(***************************************************************************)
EXTENDS Integers, SequencesExt

CONSTANTS
  Roots,                \* the queues
  Elems,                \* the queue_t's that can be elements
  NULL

ASSUME QueueAssumption ==
  /\ Roots \cap Elems = {}
  /\ NULL \notin Roots \cup Elems
  /\ IsFiniteSet(Elems)

Nodes == Roots \cup Elems

VARIABLES
  p_prev,
  p_next,
  call                  \* the last call: name, where, the element

vars == <<p_prev, p_next, call>>

TypeOK ==
  /\ p_prev \in [Nodes -> Nodes \cup {NULL}]
  /\ p_next \in [Nodes -> Nodes \cup {NULL}]
  /\ call \in {"none", "init", "push", "insert", "pop", "remove"}
              \X (Nodes \cup {NULL}) \X (Elems \cup {NULL})

\* Roots and elements are static data: zero until somebody writes them.
Init ==
  /\ p_prev = [x \in Nodes |-> NULL]
  /\ p_next = [x \in Nodes |-> NULL]
  /\ call = <<"none", NULL, NULL>>

-----------------------------------------------------------------------------
(* The two pointer operations *)

\* queue_insert_after(): nothing happens behind a NULL position.
InsertAfter(pos, e) ==
  IF pos = NULL THEN UNCHANGED <<p_prev, p_next>>
  ELSE /\ p_next' = [p_next EXCEPT ![e] = p_next[pos], ![pos] = e]
       /\ p_prev' = [p_prev EXCEPT ![e] = pos, ![p_next[pos]] = e]

Unlink_PrevKept(e) ==
  /\ p_next' = [p_next EXCEPT ![p_prev[e]] = p_next[e], ![e] = NULL]
  /\ p_prev' = [p_prev EXCEPT ![e] = NULL]

\* queue_remove() of an element that is in a queue.
Unlink(e) ==
  /\ p_next' = [p_next EXCEPT ![p_prev[e]] = p_next[e], ![e] = NULL]
  /\ p_prev' = [p_prev EXCEPT ![p_next[e]] = p_prev[e], ![e] = NULL]

-----------------------------------------------------------------------------
(* The operations *)

QueueInit(r) ==
  /\ p_prev' = [p_prev EXCEPT ![r] = r]
  /\ p_next' = [p_next EXCEPT ![r] = r]
  /\ call' = <<"init", r, NULL>>

QueuePush_BehindFront(r, e) ==
  /\ InsertAfter(p_next[r], e)
  /\ call' = <<"push", r, e>>

\* Behind the back element.  Before queue_init() that is NULL: e is not queued.
QueuePush(r, e) ==
  /\ InsertAfter(p_prev[r], e)
  /\ call' = <<"push", r, e>>

IsEmpty(r) == p_next[r] = r

\* Before queue_init() the front is NULL, which queue_remove() ignores.
QueuePop(r) ==
  LET front == p_next[r]
  IN IF IsEmpty(r) \/ front = NULL
     THEN /\ call' = <<"pop", r, NULL>>
          /\ UNCHANGED <<p_prev, p_next>>
     ELSE /\ call' = <<"pop", r, front>>
          /\ Unlink(front)

QueueRemove(e) ==
  /\ Unlink(e)
  /\ call' = <<"remove", NULL, e>>

QueueInsertAfter(pos, e) ==
  /\ InsertAfter(pos, e)
  /\ call' = <<"insert", pos, e>>

-----------------------------------------------------------------------------
(* The client *)

\* queue_remove() leaves NULL in both pointers of an element.
Linked(x) == p_next[x] # NULL

Next ==
  \/ \E r \in Roots : ~ Linked(r) /\ QueueInit(r)
  \/ \E r \in Roots : QueuePop(r)
  \/ \E r \in Roots, e \in Elems : ~ Linked(e) /\ QueuePush(r, e)
  \/ \E e \in Elems : Linked(e) /\ QueueRemove(e)
  \/ \E pos \in Nodes, e \in Elems :
       Linked(pos) /\ ~ Linked(e) /\ QueueInsertAfter(pos, e)

Spec == Init /\ [][Next]_vars

-----------------------------------------------------------------------------
(* Properties *)

\* Both directions of every ring agree: what is removed through one pointer is
\* never still reachable through the other.
RingsAgree ==
  \A x \in Nodes : Linked(x) =>
    /\ p_prev[x] # NULL
    /\ p_prev[p_next[x]] = x
    /\ p_next[p_prev[x]] = x

\* The i-th node of a ring with the root r and the elements s, front first.
NodeAt(r, s, i) == IF i \in 1 .. Len(s) THEN s[i] ELSE r

IsRing(r, s) ==
  \A i \in 0 .. Len(s) : p_next[NodeAt(r, s, i)] = NodeAt(r, s, i + 1)

\* What is behind r, as far as the ring is back at r.
Contents(r) ==
  IF Linked(r) THEN CHOOSE s \in SeqOf(Elems, Cardinality(Elems)) : IsRing(r, s) ELSE <<>>

\* The rings implement Fifo: no element is in two queues, lost or out of order.
Abstract ==
  INSTANCE Fifo WITH
    Queues <- Roots,
    Elements <- Elems,
    Nothing <- NULL,
    queued <- [r \in Roots |-> Contents(r)],
    open <- {r \in Roots : Linked(r)},
    call <- call

ImplementsFifo == Abstract!Spec
=============================================================================
