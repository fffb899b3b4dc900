-------------------------------- MODULE Fifo --------------------------------
(***************************************************************************)
(* What kernel/queue.c promises: queues of elements, each element in at    *)
(* most one of them, taken from the front in the order they were added     *)
(* unless they were removed or inserted elsewhere.                         *)
(***************************************************************************)
EXTENDS Integers, Sequences, SequencesExt

CONSTANTS
  Queues,
  Elements,
  Nothing               \* what an empty queue gives

VARIABLES
  queued,               \* the elements of each queue, front first
  open,                 \* queues that have been initialised
  call                  \* the last call: name, queue or place, element

vars == <<queued, open, call>>

Init ==
  /\ queued = [q \in Queues |-> <<>>]
  /\ open = {}
  /\ call = <<"none", Nothing, Nothing>>

Waiting == UNION {ToSet(queued[q]) : q \in Queues}

Open(q) ==
  /\ call' = <<"init", q, Nothing>>
  /\ open' = open \cup {q}
  /\ queued' = [queued EXCEPT ![q] = <<>>]

\* A queue that is not open takes nothing.
Push(q, e) ==
  /\ call' = <<"push", q, e>>
  /\ e \notin Waiting
  /\ queued' = [queued EXCEPT ![q] = IF q \in open THEN Append(@, e) ELSE @]
  /\ UNCHANGED open

InsertFirst(q, e) ==
  /\ call' = <<"insert", q, e>>
  /\ q \in open /\ e \notin Waiting
  /\ queued' = [queued EXCEPT ![q] = <<e>> \o @]
  /\ UNCHANGED open

InsertBehind(q, i, e) ==
  /\ call' = <<"insert", queued[q][i], e>>
  /\ e \notin Waiting
  /\ queued' = [queued EXCEPT ![q] = InsertAt(@, i + 1, e)]
  /\ UNCHANGED open

Pop(q) ==
  /\ queued[q] # <<>>
  /\ call' = <<"pop", q, Head(queued[q])>>
  /\ queued' = [queued EXCEPT ![q] = Tail(@)]
  /\ UNCHANGED open

\* Only an empty queue gives nothing.
PopNothing(q) ==
  /\ queued[q] = <<>>
  /\ call' = <<"pop", q, Nothing>>
  /\ UNCHANGED <<queued, open>>

Withdraw(q, i) ==
  /\ call' = <<"remove", Nothing, queued[q][i]>>
  /\ queued' = [queued EXCEPT ![q] = RemoveAt(@, i)]
  /\ UNCHANGED open

Next ==
  \E q \in Queues :
    \/ Open(q) \/ Pop(q) \/ PopNothing(q)
    \/ \E e \in Elements :
         \/ Push(q, e) \/ InsertFirst(q, e)
         \/ \E i \in 1 .. Len(queued[q]) : InsertBehind(q, i, e)
    \/ \E i \in 1 .. Len(queued[q]) : Withdraw(q, i)

Spec == Init /\ [][Next]_vars
=============================================================================
