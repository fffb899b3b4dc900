--------------------------- MODULE LibraryProofs ---------------------------
(***************************************************************************)
(* What the kernel offers and does not call yet, kernel/queue.c and        *)
(* kernel/include/spinlock.h.  For any number of queues and elements: the  *)
(* rings agree in both directions after any sequence of calls, and what    *)
(* they hold is what Fifo says.  For any number of tasks and locks: as     *)
(* long as no section is within another, a section of a lock is atomic and *)
(* the word tells who is in.                                               *)
(***************************************************************************)
EXTENDS Queue, LockClients, FiniteSetTheorems, SequenceTheorems, WellFoundedInduction, TLAPS

-----------------------------------------------------------------------------
(* Queue: the rings *)

\* Each element knows whose ring it is in: following p_next one meets one root at most.
\* So the front of a queue that queue_pop() hands out is never another queue's root.
Owned ==
  \E owner \in [Nodes -> Roots] :
    /\ \A r \in Roots : owner[r] = r
    /\ \A x \in Nodes : Linked(x) => owner[p_next[x]] = owner[x]

\* The pointers alone; the rest of TypeOK is the call.
Pointers ==
  /\ p_prev \in [Nodes -> Nodes \cup {NULL}]
  /\ p_next \in [Nodes -> Nodes \cup {NULL}]

RingInv ==
  /\ Pointers
  /\ RingsAgree
  /\ \A x \in Nodes : p_prev[x] # NULL => Linked(x)
  /\ Roots # {} => Owned

LEMMA RingInvInit == Init => RingInv
<1> SUFFICES ASSUME Init
             PROVE  RingInv
  OBVIOUS
<1>1. Pointers /\ \A x \in Nodes : ~ Linked(x) /\ p_prev[x] = NULL
  BY DEF Init, Pointers, Linked
<1>2. ASSUME NEW q \in Roots
      PROVE  Owned
  <2> DEFINE owner == [x \in Nodes |-> IF x \in Roots THEN x ELSE q]
  <2>1. owner \in [Nodes -> Roots] /\ \A r \in Roots : owner[r] = r
    BY DEF Nodes
  <2> QED
    BY <1>1, <2>1 DEF Owned
<1> QED
  BY <1>1, <1>2 DEF RingInv, RingsAgree

LEMMA Initialised ==
  ASSUME RingInv, NEW r \in Roots, ~ Linked(r), QueueInit(r)
  PROVE  RingInv'
<1> USE QueueAssumption DEF RingInv, Pointers, Nodes, Linked
<1>1. /\ p_prev' = [p_prev EXCEPT ![r] = r] /\ p_next' = [p_next EXCEPT ![r] = r]
  BY DEF QueueInit
<1>2. \A x \in Nodes : Linked(x) => x # r /\ p_next[x] # r /\ p_prev[x] # r
  BY DEF RingsAgree
<1>3. RingsAgree'
  BY <1>1, <1>2 DEF RingsAgree
<1>4. Owned'
  <2>1. PICK owner \in [Nodes -> Roots] :
          /\ \A q \in Roots : owner[q] = q
          /\ \A x \in Nodes : Linked(x) => owner[p_next[x]] = owner[x]
    BY DEF Owned
  <2>2. \A x \in Nodes : Linked(x)' => owner[p_next'[x]] = owner[x]
    BY <1>1, <2>1
  <2> QED
    BY <2>1, <2>2 DEF Owned
<1> QED
  BY <1>1, <1>3, <1>4

\* queue_insert_after() behind a linked node.
LEMMA Inserted ==
  ASSUME RingInv, NEW pos \in Nodes, Linked(pos), NEW e \in Elems, ~ Linked(e),
         InsertAfter(pos, e)
  PROVE  RingInv'
<1> USE QueueAssumption DEF RingInv, Pointers, Nodes, Linked
<1> DEFINE next == p_next[pos]
<1>1. pos # NULL /\ next \in Nodes /\ e # pos /\ p_prev[next] = pos
  BY DEF RingsAgree
<1>2. next # e /\ p_prev[e] = NULL
  BY <1>1 DEF RingsAgree
<1>3. /\ p_next' = [p_next EXCEPT ![e] = next, ![pos] = e]
      /\ p_prev' = [p_prev EXCEPT ![e] = pos, ![next] = e]
  BY <1>1 DEF InsertAfter
<1>4. \A x \in Nodes : Linked(x) => x # e /\ p_next[x] # e /\ p_prev[x] # e
  BY <1>1 DEF RingsAgree
<1>5. Pointers'
  BY <1>1, <1>3
<1>6. Linked(next)
  BY <1>1
<1>7. \A x \in Nodes : p_prev'[x] # NULL => Linked(x)'
  BY <1>1, <1>2, <1>3, <1>6
<1>8. \A x \in Nodes \ {pos, e} : Linked(x) => p_next[x] # next
  BY <1>1 DEF RingsAgree
<1>9. \A x \in Nodes \ {next, e} : Linked(x) => p_prev[x] # pos
  BY <1>1 DEF RingsAgree
<1>10. ASSUME NEW x \in Nodes, Linked(x)'
       PROVE  p_prev'[x] # NULL /\ p_prev'[p_next'[x]] = x /\ p_next'[p_prev'[x]] = x
  <2>1. CASE x = e
    BY <1>1, <1>2, <1>3, <2>1
  <2>2. CASE x # e
    <3>1. Linked(x)
      <4>1. CASE x = pos
        BY <4>1
      <4>2. CASE x # pos
        BY <1>3, <1>10, <2>2, <4>2
      <4> QED
        BY <4>1, <4>2
    <3>2. p_prev'[x] # NULL
      BY <1>1, <1>2, <1>3, <2>2, <3>1 DEF RingsAgree
    <3>3. p_prev'[p_next'[x]] = x
      BY <1>1, <1>2, <1>3, <1>4, <1>8, <2>2, <3>1 DEF RingsAgree
    <3>4. p_next'[p_prev'[x]] = x
      BY <1>1, <1>2, <1>3, <1>4, <1>9, <2>2, <3>1 DEF RingsAgree
    <3> QED
      BY <3>2, <3>3, <3>4
  <2> QED
    BY <2>1, <2>2
<1>11. RingsAgree'
  BY <1>10 DEF RingsAgree
<1>12. ASSUME Roots # {}
       PROVE  Owned'
  <2>1. PICK owner \in [Nodes -> Roots] :
          /\ \A q \in Roots : owner[q] = q
          /\ \A x \in Nodes : Linked(x) => owner[p_next[x]] = owner[x]
    BY <1>12 DEF Owned
  <2> DEFINE new == [owner EXCEPT ![e] = owner[pos]]
  <2>2. new \in [Nodes -> Roots] /\ \A q \in Roots : new[q] = q
    BY <2>1
  <2>3. ASSUME NEW x \in Nodes, Linked(x)'
        PROVE  new[p_next'[x]] = new[x]
    <3>1. CASE x = e
      BY <1>1, <1>2, <1>3, <2>1, <3>1
    <3>2. CASE x = pos
      BY <1>1, <1>3, <2>1, <3>2
    <3>3. CASE x # e /\ x # pos
      <4>1. p_next'[x] = p_next[x]
        BY <1>3, <3>3
      <4>2. Linked(x)
        BY <2>3, <4>1
      <4>3. p_next[x] \in Nodes /\ p_next[x] # e
        BY <1>4, <4>2
      <4>4. new[p_next[x]] = owner[p_next[x]] /\ new[x] = owner[x]
        BY <2>1, <3>3, <4>3
      <4> QED
        BY <2>1, <4>1, <4>2, <4>4
    <3> QED
      BY <3>1, <3>2, <3>3
  <2> QED
    BY <2>2, <2>3 DEF Owned
<1> QED
  BY <1>5, <1>7, <1>11, <1>12

\* queue_remove() of a linked element.
LEMMA Removed ==
  ASSUME RingInv, NEW e \in Elems, Linked(e), Unlink(e)
  PROVE  RingInv'
<1> USE QueueAssumption DEF RingInv, Pointers, Nodes, Linked
<1> DEFINE prev == p_prev[e]
           next == p_next[e]
<1>1. /\ e \in Nodes /\ prev \in Nodes /\ next \in Nodes
      /\ p_prev[next] = e /\ p_next[prev] = e /\ Linked(prev) /\ Linked(next)
  BY DEF RingsAgree
<1>2. /\ p_next' = [p_next EXCEPT ![prev] = next, ![e] = NULL]
      /\ p_prev' = [p_prev EXCEPT ![next] = prev, ![e] = NULL]
  BY DEF Unlink
<1>3. Pointers'
  BY <1>1, <1>2
<1>4. \A x \in Nodes \ {prev} : Linked(x) => p_next[x] # e
  BY <1>1 DEF RingsAgree
<1>5. \A x \in Nodes \ {next} : Linked(x) => p_prev[x] # e
  BY <1>1 DEF RingsAgree
<1>6. \A x \in Nodes \ {e} : Linked(x) => p_next[x] # next
  BY <1>1 DEF RingsAgree
<1>7. \A x \in Nodes \ {e} : Linked(x) => p_prev[x] # prev
  BY <1>1 DEF RingsAgree
<1>8. \A x \in Nodes : p_prev'[x] # NULL => Linked(x)'
  BY <1>1, <1>2
<1>9. ASSUME NEW x \in Nodes, Linked(x)'
      PROVE  p_prev'[x] # NULL /\ p_prev'[p_next'[x]] = x /\ p_next'[p_prev'[x]] = x
  <2>1. x # e /\ Linked(x)
    BY <1>1, <1>2, <1>9
  <2>2. p_prev'[x] # NULL
    BY <1>1, <1>2, <2>1 DEF RingsAgree
  <2>3. p_prev'[p_next'[x]] = x
    <3>1. CASE x = prev
      BY <1>1, <1>2, <2>1, <3>1
    <3>2. CASE x # prev
      BY <1>1, <1>2, <1>4, <1>6, <2>1, <3>2 DEF RingsAgree
    <3> QED
      BY <3>1, <3>2
  <2>4. p_next'[p_prev'[x]] = x
    <3>1. CASE x = next
      BY <1>1, <1>2, <2>1, <3>1
    <3>2. CASE x # next
      BY <1>1, <1>2, <1>5, <1>7, <2>1, <3>2 DEF RingsAgree
    <3> QED
      BY <3>1, <3>2
  <2> QED
    BY <2>2, <2>3, <2>4
<1>10. RingsAgree'
  BY <1>9 DEF RingsAgree
<1>11. ASSUME Roots # {}
       PROVE  Owned'
  <2>1. PICK owner \in [Nodes -> Roots] :
          /\ \A q \in Roots : owner[q] = q
          /\ \A x \in Nodes : Linked(x) => owner[p_next[x]] = owner[x]
    BY <1>11 DEF Owned
  <2>2. owner[e] = owner[prev] /\ owner[next] = owner[e]
    BY <1>1, <2>1
  <2>3. \A x \in Nodes : Linked(x)' => owner[p_next'[x]] = owner[x]
    BY <1>1, <1>2, <2>1, <2>2
  <2> QED
    BY <2>1, <2>3 DEF Owned
<1> QED
  BY <1>3, <1>8, <1>10, <1>11

LEMMA RingInvStep == RingInv /\ [Next]_vars => RingInv'
<1> SUFFICES ASSUME RingInv, [Next]_vars
             PROVE  RingInv'
  OBVIOUS
<1>0. ASSUME UNCHANGED <<p_prev, p_next>>
      PROVE  RingInv'
  BY <1>0 DEF RingInv, Pointers, RingsAgree, Owned, Linked
<1>1. ASSUME NEW r \in Roots, ~ Linked(r), QueueInit(r)
      PROVE  RingInv'
  BY <1>1, Initialised
<1>2. ASSUME NEW r \in Roots, QueuePop(r)
      PROVE  RingInv'
  <2>1. CASE UNCHANGED <<p_prev, p_next>>
    BY <1>0, <2>1
  <2>2. CASE p_next[r] # r /\ p_next[r] # NULL /\ Unlink(p_next[r])
    <3>1. p_next[r] \in Elems /\ Linked(p_next[r])
      <4>1. r \in Nodes /\ p_next[r] \in Nodes /\ Linked(r)
        BY <2>2 DEF RingInv, Pointers, Nodes, Linked
      <4>2. Linked(p_next[r])
        BY <4>1, QueueAssumption DEF RingInv, RingsAgree, Pointers, Nodes, Linked
      <4>3. p_next[r] \notin Roots
        BY <2>2, <4>1 DEF RingInv, Owned, Nodes
      <4> QED
        BY <4>1, <4>2, <4>3 DEF Nodes
    <3> QED
      BY <2>2, <3>1, Removed
  <2> QED
    BY <1>2, <2>1, <2>2 DEF QueuePop, IsEmpty
<1>3. ASSUME NEW r \in Roots, NEW e \in Elems, ~ Linked(e), QueuePush(r, e)
      PROVE  RingInv'
  <2>1. InsertAfter(p_prev[r], e)
    BY <1>3 DEF QueuePush
  <2>2. CASE p_prev[r] = NULL
    BY <1>0, <2>1, <2>2 DEF InsertAfter
  <2>3. CASE p_prev[r] # NULL
    <3>1. p_prev[r] \in Nodes /\ Linked(r)
      BY <2>3 DEF RingInv, Pointers, Nodes
    <3>2. Linked(p_prev[r])
      BY <2>3, <3>1, QueueAssumption DEF RingInv, RingsAgree, Linked, Nodes
    <3> QED
      BY <1>3, <2>1, <3>1, <3>2, Inserted
  <2> QED
    BY <2>2, <2>3
<1>4. ASSUME NEW e \in Elems, Linked(e), QueueRemove(e)
      PROVE  RingInv'
  BY <1>4, Removed DEF QueueRemove
<1>5. ASSUME NEW pos \in Nodes, NEW e \in Elems, Linked(pos), ~ Linked(e),
             QueueInsertAfter(pos, e)
      PROVE  RingInv'
  BY <1>5, Inserted DEF QueueInsertAfter
<1>6. CASE UNCHANGED vars
  BY <1>0, <1>6 DEF vars
<1> QED
  BY <1>1, <1>2, <1>3, <1>4, <1>5, <1>6 DEF Next

\* What is removed through one pointer is never still reachable through the other.
THEOREM RingsStayWhole == Spec => []RingsAgree
<1>1. RingInv => RingsAgree
  BY DEF RingInv
<1> QED
  BY <1>1, RingInvInit, RingInvStep, PTL DEF Spec

-----------------------------------------------------------------------------
(* Queue: the contents *)

\* L gives each queue's elements, front first.
Lists(L) ==
  /\ L \in [Roots -> Seq(Elems)]
  /\ \A r \in Roots : IF Linked(r) THEN IsRing(r, L[r]) ELSE L[r] = <<>>
  /\ \A q, r \in Roots : \A i \in 1 .. Len(L[q]), j \in 1 .. Len(L[r]) :
       L[q][i] = L[r][j] => q = r /\ i = j
  /\ \A e \in Elems : Linked(e) => \E r \in Roots : \E i \in 1 .. Len(L[r]) : L[r][i] = e

\* Every set of natural numbers that is not empty has a least element.
LEMMA LeastNat ==
  ASSUME NEW S \in SUBSET Nat, S # {}
  PROVE  \E n \in S : \A m \in S : n <= m
<1> DEFINE R == OpToRel(<, Nat)
<1>1. \E x \in S : \A y \in S : ~ (<<y, x>> \in R)
  <2>1. IsWellFoundedOn(R, Nat)
    BY NatLessThanWellFounded, Zenon
  <2> HIDE DEF R
  <2> QED
    BY <2>1, WFMin, Zenon
<1>2. PICK x \in S : \A y \in S : ~ (<<y, x>> \in R)
  BY <1>1, Zenon
<1>3. \A y \in S : ~ (y < x)
  BY <1>2, Zenon DEF OpToRel
<1> QED
  BY <1>3

LEMMA RingFacts ==
  ASSUME NEW r \in Roots, NEW s \in Seq(Elems), IsRing(r, s)
  PROVE  /\ Len(s) \in Nat /\ \A i \in 1 .. Len(s) : s[i] \in Elems /\ s[i] # r
         /\ p_next[r] = IF Len(s) = 0 THEN r ELSE s[1]
         /\ \A i \in 1 .. Len(s) : p_next[s[i]] = IF i = Len(s) THEN r ELSE s[i + 1]
<1>1. Len(s) \in Nat /\ \A i \in 1 .. Len(s) : s[i] \in Elems /\ s[i] # r
  BY QueueAssumption
<1>2. \A i \in 0 .. Len(s) : p_next[NodeAt(r, s, i)] = NodeAt(r, s, i + 1)
  BY DEF IsRing
<1>3. p_next[NodeAt(r, s, 0)] = NodeAt(r, s, 1)
  BY <1>1, <1>2
<1>4. p_next[r] = IF Len(s) = 0 THEN r ELSE s[1]
  BY <1>1, <1>3 DEF NodeAt
<1>5. ASSUME NEW i \in 1 .. Len(s)
      PROVE  p_next[s[i]] = IF i = Len(s) THEN r ELSE s[i + 1]
  <2>1. p_next[NodeAt(r, s, i)] = NodeAt(r, s, i + 1)
    BY <1>1, <1>2
  <2> QED
    BY <1>1, <2>1 DEF NodeAt
<1> QED
  BY <1>1, <1>4, <1>5

\* Following p_next from a root gives one sequence only.
LEMMA OneRing ==
  ASSUME NEW r \in Roots, NEW s \in Seq(Elems), NEW t \in Seq(Elems),
         IsRing(r, s), IsRing(r, t), Len(s) <= Len(t)
  PROVE  s = t
<1> DEFINE Differ == {i \in Nat : i >= 1 /\ i <= Len(s) /\ s[i] # t[i]}
<1>1. Differ = {}
  <2> SUFFICES ASSUME Differ # {}
               PROVE  FALSE
    OBVIOUS
  <2>1. PICK i \in Differ : \A j \in Differ : i <= j
    BY LeastNat
  <2>2. i \in Nat /\ i >= 1 /\ i <= Len(s) /\ s[i] # t[i]
    BY <2>1
  <2>3. Len(s) \in Nat /\ Len(t) \in Nat
    BY RingFacts
  <2>4. CASE i = 1
    BY <2>2, <2>3, <2>4, RingFacts
  <2>5. CASE i # 1
    <3> DEFINE k == i - 1
    <3>1. k \in Nat /\ k >= 1 /\ k < Len(s) /\ k < Len(t) /\ k + 1 = i
      BY <2>2, <2>3, <2>5
    <3>2. s[k] = t[k]
      BY <2>1, <3>1
    <3>3. p_next[s[k]] = s[i] /\ p_next[t[k]] = t[i]
      <4>1. k \in 1 .. Len(s) /\ k \in 1 .. Len(t) /\ k # Len(s) /\ k # Len(t)
        BY <2>3, <3>1
      <4> QED
        BY <3>1, <4>1, RingFacts
    <3> QED
      BY <2>2, <3>2, <3>3
  <2> QED
    BY <2>4, <2>5
<1>2. Len(s) \in Nat /\ Len(t) \in Nat
  BY RingFacts
<1>3. \A i \in 1 .. Len(s) : s[i] = t[i]
  BY <1>1, <1>2
<1> HIDE DEF Differ
<1>4. Len(s) = Len(t)
  <2> SUFFICES ASSUME Len(s) < Len(t)
               PROVE  FALSE
    BY <1>2
  <2>1. CASE Len(s) = 0
    <3>1. /\ p_next[r] = (IF Len(s) = 0 THEN r ELSE s[1])
          /\ p_next[r] = (IF Len(t) = 0 THEN r ELSE t[1])
      BY RingFacts, Zenon
    <3>2. 1 \in 1 .. Len(t)
      BY <1>2, <2>1
    <3> QED
      BY <2>1, <1>2, <3>1, <3>2, RingFacts
  <2>2. CASE Len(s) # 0
    <3> DEFINE k == Len(s)
    <3>1. k \in 1 .. Len(s) /\ k \in 1 .. Len(t) /\ k + 1 \in 1 .. Len(t) /\ k # Len(t)
      BY <1>2, <2>2
    <3>2. p_next[s[k]] = r /\ p_next[t[k]] = t[k + 1] /\ t[k + 1] # r
      BY <3>1, RingFacts
    <3> QED
      BY <1>3, <3>1, <3>2
  <2> QED
    BY <2>1, <2>2
<1> QED
  BY <1>3, <1>4, SeqEqual

LEMMA ContentsAre ==
  ASSUME NEW L, Lists(L)
  PROVE  [r \in Roots |-> Contents(r)] = L
<1>1. ASSUME NEW r \in Roots, Linked(r)
      PROVE  Contents(r) = L[r]
  <2> DEFINE s == L[r]
             N == Cardinality(Elems)
             Rings == {t \in SeqOf(Elems, N) : IsRing(r, t)}
  <2>1. s \in Seq(Elems) /\ IsRing(r, s)
    BY <1>1 DEF Lists
  <2>2. Len(s) \in Nat /\ s \in [1 .. Len(s) -> Elems]
    BY <2>1
  <2>3. s \in Injection(1 .. Len(s), Elems)
    <3>1. \A i, j \in 1 .. Len(s) : s[i] = s[j] => i = j
      BY DEF Lists
    <3> QED
      BY <2>2, <3>1 DEF Injection, IsInjective
  <2>4. IsFiniteSet(Elems) /\ N \in Nat
    BY QueueAssumption, FS_CardinalityType
  <2>5. Cardinality(1 .. Len(s)) = Len(s)
    BY <2>2, FS_Interval
  <2>6. Len(s) <= N
    BY <2>3, <2>4, <2>5, FS_Injection
  <2>7. s \in SeqOf(Elems, N)
    BY <2>2, <2>4, <2>6 DEF SeqOf
  <2>8. \A t \in SeqOf(Elems, N) : t \in Seq(Elems)
    BY <2>4 DEF SeqOf
  <2>9. ASSUME NEW t \in SeqOf(Elems, N), IsRing(r, t)
        PROVE  t = s
    <3>1. t \in Seq(Elems) /\ Len(t) \in Nat
      BY <2>8
    <3>2. Len(s) <= Len(t) \/ Len(t) <= Len(s)
      BY <2>2, <3>1
    <3> QED
      BY <2>1, <2>9, <3>1, <3>2, OneRing
  <2>10. Contents(r) = CHOOSE t \in SeqOf(Elems, N) : IsRing(r, t)
    BY <1>1 DEF Contents
  <2> HIDE DEF s, N
  <2>11. (CHOOSE t \in SeqOf(Elems, N) : IsRing(r, t)) = s
    BY <2>1, <2>7, <2>9
  <2> QED
    BY <2>10, <2>11 DEF s
<1>2. ASSUME NEW r \in Roots, ~ Linked(r)
      PROVE  Contents(r) = L[r]
  BY <1>2 DEF Contents, Lists
<1>3. L = [r \in Roots |-> L[r]]
  BY DEF Lists
<1> QED
  BY <1>1, <1>2, <1>3

\* What is in a list is linked, and only that.
LEMMA LinkedIsListed ==
  ASSUME NEW L, Lists(L)
  PROVE  /\ \A r \in Roots : \A i \in 1 .. Len(L[r]) : Linked(r) /\ Linked(L[r][i])
         /\ \A e \in Elems : Linked(e) <=> \E r \in Roots : \E i \in 1 .. Len(L[r]) : L[r][i] = e
<1>1. ASSUME NEW r \in Roots, NEW i \in 1 .. Len(L[r])
      PROVE  Linked(r) /\ Linked(L[r][i])
  <2>1. L[r] \in Seq(Elems)
    BY DEF Lists
  <2>2. Linked(r)
    <3>1. L[r] # <<>>
      BY <2>1
    <3> QED
      BY <3>1 DEF Lists
  <2>3. IsRing(r, L[r])
    BY <2>2 DEF Lists
  <2>4. p_next[L[r][i]] = IF i = Len(L[r]) THEN r ELSE L[r][i + 1]
    BY <2>1, <2>3, RingFacts
  <2>5. i # Len(L[r]) => L[r][i + 1] \in Elems
    BY <2>1
  <2> QED
    BY <2>2, <2>4, <2>5, QueueAssumption DEF Linked
<1> QED
  BY <1>1 DEF Lists

\* s with e behind its i-th element.
Behind(s, i, e) ==
  [j \in 1 .. Len(s) + 1 |-> IF j <= i THEN s[j] ELSE IF j = i + 1 THEN e ELSE s[j - 1]]

\* s without its i-th element.
Without(s, i) == [j \in 1 .. Len(s) - 1 |-> IF j < i THEN s[j] ELSE s[j + 1]]

LEMMA BehindIs ==
  ASSUME NEW s \in Seq(Elems), NEW i \in 0 .. Len(s), NEW e \in Elems
  PROVE  /\ Behind(s, i, e) \in Seq(Elems) /\ Len(Behind(s, i, e)) = Len(s) + 1
         /\ Append(s, e) = Behind(s, Len(s), e)
         /\ <<e>> \o s = Behind(s, 0, e)
         /\ Abstract!InsertAt(s, i + 1, e) = Behind(s, i, e)
<1> DEFINE t == Behind(s, i, e)
<1>1. Len(s) \in Nat /\ \A k \in 1 .. Len(s) : s[k] \in Elems
  OBVIOUS
<1>2. ASSUME NEW k \in 0 .. Len(s)
      PROVE  Behind(s, k, e) \in Seq(Elems) /\ Len(Behind(s, k, e)) = Len(s) + 1
  <2>1. \A j \in 1 .. Len(s) + 1 : Behind(s, k, e)[j] \in Elems
    BY <1>1 DEF Behind
  <2>2. Behind(s, k, e) \in [1 .. Len(s) + 1 -> Elems]
    BY <2>1 DEF Behind
  <2> QED
    BY <1>1, <2>2
<1>3. Append(s, e) = Behind(s, Len(s), e)
  <2>1. /\ Append(s, e) \in Seq(Elems) /\ Len(Append(s, e)) = Len(s) + 1
        /\ \A j \in 1 .. Len(s) : Append(s, e)[j] = s[j]
        /\ Append(s, e)[Len(s) + 1] = e
    BY AppendProperties
  <2>2. \A j \in 1 .. Len(s) + 1 : Append(s, e)[j] = Behind(s, Len(s), e)[j]
    BY <1>1, <2>1 DEF Behind
  <2> QED
    BY <1>1, <1>2, <2>1, <2>2, SeqEqual
<1>4. <<e>> \in Seq(Elems) /\ Len(<<e>>) = 1 /\ <<e>>[1] = e
  OBVIOUS
<1>5. <<e>> \o s = Behind(s, 0, e)
  <2>1. /\ <<e>> \o s \in Seq(Elems) /\ Len(<<e>> \o s) = 1 + Len(s)
        /\ \A j \in 1 .. 1 + Len(s) : (<<e>> \o s)[j] = IF j <= 1 THEN <<e>>[j] ELSE s[j - 1]
    BY <1>4, ConcatProperties
  <2>2. \A j \in 1 .. Len(s) + 1 : (<<e>> \o s)[j] = Behind(s, 0, e)[j]
    BY <1>1, <1>4, <2>1 DEF Behind
  <2> QED
    BY <1>1, <1>2, <2>1, <2>2, SeqEqual, SMTT(30)
<1>6. Abstract!InsertAt(s, i + 1, e) = t
  <2> DEFINE a == SubSeq(s, 1, i)
             b == SubSeq(s, i + 1, Len(s))
  <2>1. a \in Seq(Elems) /\ Len(a) = i /\ \A j \in 1 .. i : a[j] = s[j]
    BY <1>1, SubSeqProperties
  <2>2. /\ b \in Seq(Elems) /\ Len(b) = Len(s) - i
        /\ \A j \in 1 .. Len(s) - i : b[j] = s[i + j]
    BY <1>1, SubSeqProperties
  <2>3. Abstract!InsertAt(s, i + 1, e) = a \o <<e>> \o b
    <3>1. (i + 1) - 1 = i
      OBVIOUS
    <3> QED
      BY <3>1, Zenon DEF Abstract!InsertAt
  <2> HIDE DEF a, b
  <2>4. /\ a \o <<e>> \in Seq(Elems) /\ Len(a \o <<e>>) = i + 1
        /\ \A j \in 1 .. i + 1 : (a \o <<e>>)[j] = IF j <= i THEN s[j] ELSE e
    BY <1>1, <1>4, <2>1, ConcatProperties
  <2> DEFINE c == a \o <<e>>
  <2> HIDE DEF c
  <2>5. /\ c \o b \in Seq(Elems) /\ Len(c \o b) = (i + 1) + (Len(s) - i)
        /\ \A j \in 1 .. (i + 1) + (Len(s) - i) :
             (c \o b)[j] = IF j <= i + 1 THEN c[j] ELSE b[j - (i + 1)]
    <3>1. c \in Seq(Elems) /\ b \in Seq(Elems)
      BY <2>2, <2>4 DEF c
    <3>2. Len(c) = i + 1 /\ Len(b) = Len(s) - i
      BY <2>2, <2>4 DEF c
    <3>3. /\ c \o b \in Seq(Elems) /\ Len(c \o b) = Len(c) + Len(b)
          /\ \A j \in 1 .. Len(c) + Len(b) : (c \o b)[j] = IF j <= Len(c) THEN c[j] ELSE b[j - Len(c)]
      BY <3>1, ConcatProperties, Zenon
    <3> QED
      BY <3>2, <3>3, Zenon
  <2>6. (i + 1) + (Len(s) - i) = Len(s) + 1
    BY <1>1
  <2>7. \A j \in 1 .. Len(s) + 1 : (c \o b)[j] = t[j]
    <3> TAKE j \in 1 .. Len(s) + 1
    <3>1. t[j] = IF j <= i THEN s[j] ELSE IF j = i + 1 THEN e ELSE s[j - 1]
      BY DEF Behind
    <3>2. (c \o b)[j] = IF j <= i + 1 THEN c[j] ELSE b[j - (i + 1)]
      BY <2>5, <2>6
    <3>3. CASE j <= i + 1
      <4>1. j \in 1 .. i + 1
        BY <1>1, <3>3
      <4>2. c[j] = IF j <= i THEN s[j] ELSE e
        BY <2>4, <4>1 DEF c
      <4> QED
        BY <3>1, <3>2, <3>3, <4>1, <4>2
    <3>4. CASE j > i + 1
      <4>1. j - (i + 1) \in 1 .. Len(s) - i /\ i + (j - (i + 1)) = j - 1
        BY <1>1, <3>4
      <4>2. b[j - (i + 1)] = s[j - 1]
        BY <2>2, <4>1
      <4> QED
        BY <1>1, <3>1, <3>2, <3>4, <4>2
    <3>5. j <= i + 1 \/ j > i + 1
      BY <1>1
    <3> HIDE DEF t
    <3> QED
      BY <3>3, <3>4, <3>5
  <2>8. t \in Seq(Elems) /\ Len(t) = Len(s) + 1
    BY <1>2
  <2> HIDE DEF t
  <2> QED
    BY <2>3, <2>5, <2>6, <2>7, <2>8, SeqEqual DEF c
<1> QED
  BY <1>1, <1>2, <1>3, <1>5, <1>6

LEMMA WithoutIs ==
  ASSUME NEW s \in Seq(Elems), NEW i \in 1 .. Len(s)
  PROVE  /\ Without(s, i) \in Seq(Elems) /\ Len(Without(s, i)) = Len(s) - 1
         /\ i = 1 => Tail(s) = Without(s, 1)
         /\ Abstract!RemoveAt(s, i) = Without(s, i)
<1>1. Len(s) \in Nat /\ Len(s) >= 1 /\ \A k \in 1 .. Len(s) : s[k] \in Elems
  OBVIOUS
<1>2. Without(s, i) \in Seq(Elems) /\ Len(Without(s, i)) = Len(s) - 1
  <2>1. \A j \in 1 .. Len(s) - 1 : Without(s, i)[j] \in Elems
    BY <1>1 DEF Without
  <2>2. Without(s, i) \in [1 .. Len(s) - 1 -> Elems]
    BY <2>1 DEF Without
  <2> QED
    BY <1>1, <2>2
<1>3. ASSUME i = 1
      PROVE  Tail(s) = Without(s, i)
  <2>1. /\ Tail(s) \in Seq(Elems) /\ Len(Tail(s)) = Len(s) - 1
        /\ \A j \in 1 .. Len(Tail(s)) : Tail(s)[j] = s[j + 1]
    BY <1>1, HeadTailProperties
  <2>2. \A j \in 1 .. Len(Tail(s)) : Tail(s)[j] = Without(s, i)[j]
    BY <1>1, <1>3, <2>1 DEF Without
  <2> QED
    BY <1>2, <2>1, <2>2, SeqEqual
<1>4. Abstract!RemoveAt(s, i) = Without(s, i)
  <2> DEFINE a == SubSeq(s, 1, i - 1)
             b == SubSeq(s, i + 1, Len(s))
  <2>1. a \in Seq(Elems) /\ Len(a) = i - 1 /\ \A j \in 1 .. i - 1 : a[j] = s[j]
    BY <1>1, SubSeqProperties
  <2>2. /\ b \in Seq(Elems) /\ Len(b) = Len(s) - i
        /\ \A j \in 1 .. Len(s) - i : b[j] = s[i + j]
    BY <1>1, SubSeqProperties
  <2>3. Abstract!RemoveAt(s, i) = a \o b
    BY DEF Abstract!RemoveAt
  <2> HIDE DEF a, b
  <2>4. /\ a \o b \in Seq(Elems) /\ Len(a \o b) = Len(s) - 1
        /\ \A j \in 1 .. Len(s) - 1 : (a \o b)[j] = IF j <= i - 1 THEN a[j] ELSE b[j - (i - 1)]
    BY <1>1, <2>1, <2>2, ConcatProperties, SMTT(30)
  <2>5. \A j \in 1 .. Len(s) - 1 : (a \o b)[j] = Without(s, i)[j]
    BY <1>1, <2>1, <2>2, <2>4 DEF Without
  <2> QED
    BY <1>2, <2>3, <2>4, <2>5, SeqEqual
<1> QED
  BY <1>2, <1>3, <1>4

\* queue_insert_after() behind a node of r's ring.
LEMMA ListGrows ==
  ASSUME Pointers, NEW L, Lists(L), NEW r \in Roots, Linked(r),
         NEW i \in 0 .. Len(L[r]), NEW pos, pos = NodeAt(r, L[r], i),
         NEW e \in Elems, ~ Linked(e),
         p_next' = [p_next EXCEPT ![e] = p_next[pos], ![pos] = e]
  PROVE  Lists([L EXCEPT ![r] = Behind(L[r], i, e)])'
<1> DEFINE s == L[r]
           t == Behind(s, i, e)
           M == [L EXCEPT ![r] = t]
<1>1. s \in Seq(Elems) /\ IsRing(r, s) /\ L \in [Roots -> Seq(Elems)]
  BY DEF Lists
<1> HIDE DEF s
<1>2. /\ Len(s) \in Nat /\ \A k \in 1 .. Len(s) : s[k] \in Elems /\ s[k] # r
      /\ p_next[r] = (IF Len(s) = 0 THEN r ELSE s[1])
      /\ \A k \in 1 .. Len(s) : p_next[s[k]] = IF k = Len(s) THEN r ELSE s[k + 1]
  BY <1>1, RingFacts
<1>3. t \in Seq(Elems) /\ Len(t) = Len(s) + 1
  BY <1>1, BehindIs DEF s
<1>4. /\ \A j \in 1 .. i : t[j] = s[j]
      /\ t[i + 1] = e
      /\ \A j \in i + 2 .. Len(s) + 1 : t[j] = s[j - 1]
  BY <1>2 DEF Behind, s
<1>5. /\ M \in [Roots -> Seq(Elems)] /\ M[r] = t /\ \A q \in Roots \ {r} : M[q] = L[q]
  BY <1>1, <1>3
<1> HIDE DEF M, t
<1>6. \A q \in Roots : \A k \in 1 .. Len(L[q]) : L[q][k] # e /\ L[q][k] \in Elems
  <2>1. \A q \in Roots : \A k \in 1 .. Len(L[q]) : L[q][k] # e
    BY LinkedIsListed
  <2>2. \A q \in Roots : L[q] \in Seq(Elems)
    BY <1>1
  <2> QED
    BY <2>1, <2>2
<1>7. /\ \A q, p \in Roots : \A j \in 1 .. Len(L[q]), k \in 1 .. Len(L[p]) :
           L[q][j] = L[p][k] => q = p /\ j = k
  BY DEF Lists
<1>8. pos \in Nodes /\ e \in Nodes /\ pos # e /\ p_next'[e] = p_next[pos] /\ p_next'[pos] = e
  BY <1>2, <1>6, QueueAssumption DEF NodeAt, Pointers, Nodes
<1>9. \A x \in Nodes : x # e /\ x # pos => p_next'[x] = p_next[x]
  BY DEF Pointers
<1>10. \A j \in 1 .. Len(s) : j # i => s[j] # pos
  BY <1>2, <1>7 DEF NodeAt, s
<1>11. IsRing(r, t)'
  <2> SUFFICES ASSUME NEW k \in 0 .. Len(s) + 1
               PROVE  p_next'[NodeAt(r, t, k)] = NodeAt(r, t, k + 1)
    BY <1>3 DEF IsRing
  <2> DEFINE after == IF k + 1 <= Len(s) + 1 THEN t[k + 1] ELSE r
  <2>1. i \in 0 .. Len(s) /\ pos = IF i = 0 THEN r ELSE s[i]
    BY <1>2 DEF NodeAt, s
  <2>2. NodeAt(r, t, k) = (IF k = 0 THEN r ELSE t[k]) /\ NodeAt(r, t, k + 1) = after
    BY <1>2, <1>3 DEF NodeAt
  <2> SUFFICES p_next'[IF k = 0 THEN r ELSE t[k]] = after
    BY <2>2
  <2>3. CASE k = i
    <3>1. (IF k = 0 THEN r ELSE t[k]) = pos
      BY <1>4, <2>1, <2>3
    <3>2. k + 1 <= Len(s) + 1
      BY <1>2, <2>1, <2>3
    <3>3. after = e
      BY <1>4, <2>3, <3>2
    <3> HIDE DEF after
    <3> QED
      BY <1>8, <3>1, <3>3
  <2>4. CASE k < i
    <3>1. CASE k = 0
      <4>1. s[i] # r /\ p_next[r] = s[1] /\ t[1] = s[1] /\ Len(s) + 1 >= 1
        BY <1>2, <1>4, <2>1, <2>4, <3>1
      <4>2. r # pos /\ r # e /\ r \in Nodes
        BY <2>1, <2>4, <3>1, <4>1, QueueAssumption DEF Nodes
      <4>3. p_next'[r] = p_next[r]
        BY <1>9, <4>2
      <4>4. (IF k = 0 THEN r ELSE t[k]) = r /\ after = t[1]
        BY <1>2, <3>1
      <4> HIDE DEF after
      <4> QED
        BY <4>1, <4>3, <4>4
    <3>2. CASE k # 0
      <4>1. k \in 1 .. i /\ k + 1 \in 1 .. i /\ k \in 1 .. Len(s) /\ k # Len(s) /\ k # i
        BY <1>2, <2>1, <2>4, <3>2
      <4>2. t[k] = s[k] /\ t[k + 1] = s[k + 1] /\ p_next[s[k]] = s[k + 1]
        BY <1>2, <1>4, <4>1
      <4>3. s[k] \in Nodes /\ s[k] # e /\ s[k] # pos
        BY <1>2, <1>6, <1>10, <4>1 DEF Nodes, s
      <4>4. p_next'[s[k]] = p_next[s[k]]
        BY <1>9, <4>3
      <4>5. k + 1 <= Len(s) + 1
        BY <1>2, <4>1
      <4>6. (IF k = 0 THEN r ELSE t[k]) = s[k] /\ after = t[k + 1]
        BY <3>2, <4>2, <4>5
      <4> HIDE DEF after
      <4> QED
        BY <4>2, <4>4, <4>6
    <3> QED
      BY <3>1, <3>2
  <2>5. CASE k = i + 1
    <3>1. k # 0 /\ t[k] = e
      BY <1>4, <2>1, <2>5
    <3>2. p_next[pos] = IF i = Len(s) THEN r ELSE s[i + 1]
      BY <1>2, <2>1
    <3>3. i # Len(s) => t[i + 2] = s[i + 1]
      <4> SUFFICES ASSUME i # Len(s)
                   PROVE  t[i + 2] = s[i + 1]
        OBVIOUS
      <4>1. i + 2 \in i + 2 .. Len(s) + 1 /\ (i + 2) - 1 = i + 1
        BY <1>2, <2>1
      <4>2. t[i + 2] = s[(i + 2) - 1]
        BY <1>4, <4>1
      <4> QED
        BY <4>1, <4>2
    <3>4. k + 1 = i + 2 /\ (k + 1 <= Len(s) + 1 <=> i # Len(s))
      BY <1>2, <2>1, <2>5
    <3> QED
      BY <1>8, <3>1, <3>2, <3>3, <3>4
  <2>6. CASE k > i + 1
    <3>1. k - 1 \in 1 .. Len(s) /\ k - 1 # i /\ (k - 1) + 1 = k
      BY <1>2, <2>1, <2>6
    <3>2. t[k] = s[k - 1] /\ k # 0
      BY <1>2, <1>4, <2>1, <2>6
    <3>3. s[k - 1] \in Nodes /\ s[k - 1] # e /\ s[k - 1] # pos
      BY <1>2, <1>6, <1>10, <3>1 DEF Nodes, s
    <3>4. p_next[s[k - 1]] = IF k - 1 = Len(s) THEN r ELSE s[k]
      BY <1>2, <3>1
    <3>5. k <= Len(s) => t[k + 1] = s[k]
      <4> SUFFICES ASSUME k <= Len(s)
                   PROVE  t[k + 1] = s[k]
        OBVIOUS
      <4>1. k + 1 \in i + 2 .. Len(s) + 1 /\ (k + 1) - 1 = k
        BY <1>2, <2>1, <2>6
      <4>2. t[k + 1] = s[(k + 1) - 1]
        BY <1>4, <4>1
      <4> QED
        BY <4>1, <4>2
    <3>6. (k - 1 = Len(s) <=> ~ (k <= Len(s))) /\ (k + 1 <= Len(s) + 1 <=> k <= Len(s))
      BY <1>2, <2>1, <2>6
    <3> QED
      BY <1>9, <3>2, <3>3, <3>4, <3>5, <3>6
  <2>7. k = i \/ k < i \/ k = i + 1 \/ k > i + 1
    BY <1>2, <2>1
  <2> HIDE DEF after
  <2> QED
    BY <2>3, <2>4, <2>5, <2>6, <2>7
<1>12. ASSUME NEW q \in Roots
       PROVE  IF Linked(q)' THEN IsRing(q, M[q])' ELSE M[q] = <<>>
  <2>1. CASE q = r
    <3>1. p_next'[r] # NULL
      BY <1>8, <1>9, QueueAssumption DEF Linked, Nodes
    <3> QED
      BY <1>5, <1>11, <2>1, <3>1 DEF Linked
  <2>2. CASE q # r
    <3>1. \A x \in {q} \cup {L[q][k] : k \in 1 .. Len(L[q])} : x \in Nodes /\ p_next'[x] = p_next[x]
      <4>1. q # pos /\ q # e /\ q \in Nodes
        BY <1>2, <2>2, QueueAssumption DEF NodeAt, Nodes, s
      <4>2. ASSUME NEW k \in 1 .. Len(L[q])
            PROVE  L[q][k] # pos /\ L[q][k] # e /\ L[q][k] \in Nodes
        BY <1>2, <1>6, <1>7, <2>2, QueueAssumption DEF NodeAt, Nodes, s
      <4> QED
        BY <1>9, <4>1, <4>2
    <3>2. Linked(q)' <=> Linked(q)
      BY <3>1 DEF Linked
    <3>3. ASSUME IsRing(q, L[q])
          PROVE  IsRing(q, L[q])'
      BY <3>1, <3>3 DEF IsRing, NodeAt
    <3> QED
      BY <1>5, <2>2, <3>2, <3>3 DEF Lists
  <2> QED
    BY <2>1, <2>2
<1>13. ASSUME NEW q \in Roots, NEW j \in 1 .. Len(M[q])
       PROVE  \/ M[q][j] = e /\ q = r /\ j = i + 1
              \/ \E o \in 1 .. Len(L[q]) : M[q][j] = L[q][o] /\ j = IF q = r /\ o > i THEN o + 1 ELSE o
  <2>1. CASE q = r
    <3>1. j \in 1 .. Len(s) + 1
      BY <1>3, <1>5, <2>1
    <3>2. CASE j <= i
      <4>1. j \in 1 .. Len(s) /\ j \in 1 .. i /\ ~ (j > i)
        BY <1>2, <3>1, <3>2 DEF s
      <4> QED
        BY <1>4, <1>5, <2>1, <4>1 DEF s
    <3>3. CASE j = i + 1
      BY <1>4, <1>5, <2>1, <3>3
    <3>4. CASE j > i + 1
      <4>1. /\ j - 1 \in 1 .. Len(s) /\ j - 1 > i /\ (j - 1) + 1 = j
            /\ j \in i + 2 .. Len(s) + 1
        BY <1>2, <3>1, <3>4, SMTT(30) DEF s
      <4> QED
        BY <1>4, <1>5, <2>1, <4>1 DEF s
    <3> QED
      BY <1>2, <3>1, <3>2, <3>3, <3>4
  <2>2. CASE q # r
    BY <1>5, <2>2
  <2> QED
    BY <2>1, <2>2
<1>14. ASSUME NEW q \in Roots, NEW p \in Roots,
              NEW j \in 1 .. Len(M[q]), NEW k \in 1 .. Len(M[p]), M[q][j] = M[p][k]
       PROVE  q = p /\ j = k
  <2> DEFINE IsNew(p1, m) == M[p1][m] = e /\ p1 = r /\ m = i + 1
             Old(p1, m, o) == M[p1][m] = L[p1][o] /\ m = IF p1 = r /\ o > i THEN o + 1 ELSE o
  <2>1. IsNew(q, j) \/ \E o \in 1 .. Len(L[q]) : Old(q, j, o)
    BY <1>13
  <2>2. IsNew(p, k) \/ \E o \in 1 .. Len(L[p]) : Old(p, k, o)
    BY <1>13
  <2>3. \A m : \A q1 \in Roots : \A o \in 1 .. Len(L[q1]) : Old(q1, m, o) => M[q1][m] # e
    BY <1>6
  <2>4. ASSUME NEW o \in 1 .. Len(L[q]), Old(q, j, o), NEW u \in 1 .. Len(L[p]), Old(p, k, u)
        PROVE  q = p /\ j = k
    <3>1. L[q][o] = L[p][u]
      BY <1>14, <2>4
    <3>2. q = p /\ o = u
      BY <1>7, <3>1
    <3> QED
      BY <2>4, <3>2
  <2>5. CASE IsNew(q, j) /\ IsNew(p, k)
    BY <2>5
  <2> QED
    BY <1>14, <2>1, <2>2, <2>3, <2>4, <2>5
<1>15. ASSUME NEW x \in Elems, Linked(x)'
       PROVE  \E q \in Roots : \E k \in 1 .. Len(M[q]) : M[q][k] = x
  <2>1. CASE x = e
    <3>1. i + 1 \in 1 .. Len(M[r]) /\ M[r][i + 1] = e
      BY <1>2, <1>3, <1>4, <1>5 DEF s
    <3> QED
      BY <2>1, <3>1
  <2>2. CASE x # e
    <3>1. Linked(x)
      <4>1. CASE x = pos
        <5>1. i \in 1 .. Len(L[r]) /\ x = L[r][i]
          BY <4>1, QueueAssumption DEF NodeAt
        <5> QED
          BY <5>1, LinkedIsListed
      <4>2. CASE x # pos
        BY <1>9, <1>15, <2>2, <4>2 DEF Linked, Nodes
      <4> QED
        BY <4>1, <4>2
    <3>2. PICK q \in Roots : \E o \in 1 .. Len(L[q]) : L[q][o] = x
      BY <3>1, LinkedIsListed
    <3>3. PICK o \in 1 .. Len(L[q]) : L[q][o] = x
      BY <3>2
    <3>4. CASE q # r
      BY <1>5, <3>3, <3>4
    <3>5. CASE q = r /\ o <= i
      <4>1. o \in 1 .. i /\ o \in 1 .. Len(s) + 1 /\ s[o] = x
        BY <1>2, <3>3, <3>5 DEF s
      <4> QED
        BY <1>3, <1>4, <1>5, <4>1
    <3>6. CASE q = r /\ o > i
      <4>1. o + 1 \in i + 2 .. Len(s) + 1 /\ o + 1 \in 1 .. Len(s) + 1 /\ (o + 1) - 1 = o /\ s[o] = x
        BY <1>2, <3>3, <3>6 DEF s
      <4>2. t[o + 1] = x
        BY <1>4, <4>1
      <4> QED
        BY <1>3, <1>5, <4>1, <4>2
    <3> QED
      BY <1>2, <3>4, <3>5, <3>6 DEF s
  <2> QED
    BY <2>1, <2>2
<1>16. Lists(M)'
  BY <1>5, <1>12, <1>14, <1>15 DEF Lists
<1> QED
  BY <1>16 DEF M, t, s

\* queue_remove() of an element of r's ring.
LEMMA ListShrinks ==
  ASSUME Pointers, NEW L, Lists(L), NEW r \in Roots, Linked(r),
         NEW i \in 1 .. Len(L[r]), NEW prev, prev = NodeAt(r, L[r], i - 1),
         NEW e, e = L[r][i],
         p_next' = [p_next EXCEPT ![prev] = p_next[e], ![e] = NULL]
  PROVE  Lists([L EXCEPT ![r] = Without(L[r], i)])'
<1> DEFINE s == L[r]
           t == Without(s, i)
           M == [L EXCEPT ![r] = t]
<1>1. s \in Seq(Elems) /\ IsRing(r, s) /\ L \in [Roots -> Seq(Elems)] /\ e = s[i]
  BY DEF Lists
<1>2. i \in 1 .. Len(s)
  OBVIOUS
<1>3. t \in Seq(Elems) /\ Len(t) = Len(s) - 1
  BY <1>1, <1>2, WithoutIs
<1> HIDE DEF s
<1>4. /\ Len(s) \in Nat /\ i \in Nat /\ i >= 1 /\ i <= Len(s)
      /\ \A k \in 1 .. Len(s) : s[k] \in Elems /\ s[k] # r
      /\ p_next[r] = (IF Len(s) = 0 THEN r ELSE s[1])
      /\ \A k \in 1 .. Len(s) : p_next[s[k]] = IF k = Len(s) THEN r ELSE s[k + 1]
  BY <1>1, <1>2, RingFacts
<1>5. /\ \A j \in 1 .. i - 1 : t[j] = s[j]
      /\ \A j \in i .. Len(s) - 1 : t[j] = s[j + 1]
  BY <1>4 DEF Without
<1>6. /\ M \in [Roots -> Seq(Elems)] /\ M[r] = t /\ \A q \in Roots \ {r} : M[q] = L[q]
  BY <1>1, <1>3
<1> HIDE DEF M, t
<1>7. /\ \A q, p \in Roots : \A j \in 1 .. Len(L[q]), k \in 1 .. Len(L[p]) :
           L[q][j] = L[p][k] => q = p /\ j = k
  BY DEF Lists
<1>8. \A q \in Roots : \A k \in 1 .. Len(L[q]) : L[q][k] \in Elems
  BY <1>1
<1>9. prev = IF i = 1 THEN r ELSE s[i - 1]
  <2>1. i - 1 \in 1 .. Len(L[r]) <=> i # 1
    BY <1>4 DEF s
  <2> QED
    BY <2>1 DEF NodeAt, s
<1>10. prev \in Nodes /\ e \in Elems /\ e \in Nodes /\ prev # e
  <2>1. i # 1 => i - 1 \in 1 .. Len(s) /\ i - 1 # i
    BY <1>4
  <2>2. i # 1 => s[i - 1] # s[i]
    BY <1>2, <1>7, <2>1 DEF s
  <2> QED
    BY <1>1, <1>2, <1>4, <1>9, <2>1, <2>2 DEF Nodes
<1>11. p_next'[prev] = p_next[e] /\ p_next'[e] = NULL
  BY <1>10 DEF Pointers
<1>12. \A x \in Nodes : x # e /\ x # prev => p_next'[x] = p_next[x]
  BY DEF Pointers
<1>13. ASSUME NEW k \in 1 .. Len(s), k # i, k # i - 1
       PROVE  p_next'[s[k]] = IF k = Len(s) THEN r ELSE s[k + 1]
  <2>1. s[k] # e
    BY <1>1, <1>2, <1>7, <1>13 DEF s
  <2>2. s[k] # prev
    <3>1. i # 1 => i - 1 \in 1 .. Len(s)
      BY <1>4
    <3>2. i # 1 => s[k] # s[i - 1]
      BY <1>7, <1>13, <3>1 DEF s
    <3> QED
      BY <1>4, <1>9, <3>2
  <2>3. s[k] \in Nodes
    BY <1>4 DEF Nodes
  <2> QED
    BY <1>4, <1>12, <2>1, <2>2, <2>3
<1>14. IsRing(r, t)'
  <2> SUFFICES ASSUME NEW k \in 0 .. Len(s) - 1
               PROVE  p_next'[NodeAt(r, t, k)] = NodeAt(r, t, k + 1)
    BY <1>3 DEF IsRing
  <2> DEFINE here == IF k = 0 THEN r ELSE t[k]
             after == IF k + 1 <= Len(s) - 1 THEN t[k + 1] ELSE r
  <2>1. NodeAt(r, t, k) = here /\ NodeAt(r, t, k + 1) = after
    BY <1>3, <1>4 DEF NodeAt
  <2> SUFFICES p_next'[here] = after
    BY <2>1
  <2>2. CASE k = i - 1
    <3>1. here = prev
      <4>1. k # 0 => k \in 1 .. i - 1
        BY <1>4, <2>2
      <4>2. k # 0 => t[k] = s[i - 1]
        BY <1>5, <2>2, <4>1
      <4> QED
        BY <1>4, <1>9, <2>2, <4>2
    <3>2. p_next[e] = IF i = Len(s) THEN r ELSE s[i + 1]
      BY <1>1, <1>2, <1>4
    <3>3. k + 1 = i /\ (k + 1 <= Len(s) - 1 <=> i # Len(s))
      BY <1>4, <2>2
    <3>4. i # Len(s) => t[i] = s[i + 1]
      <4>1. i # Len(s) => i \in i .. Len(s) - 1
        BY <1>4
      <4> QED
        BY <1>5, <4>1
    <3>5. after = IF i = Len(s) THEN r ELSE s[i + 1]
      BY <3>3, <3>4
    <3> HIDE DEF here, after
    <3> QED
      BY <1>11, <3>1, <3>2, <3>5
  <2>3. CASE k = 0 /\ k # i - 1
    <3>1. 1 \in 1 .. i - 1 /\ 1 <= Len(s) - 1 /\ Len(s) # 0 /\ i # 1
      BY <1>4, <2>3
    <3>2. here = r /\ after = s[1] /\ p_next[r] = s[1]
      BY <1>4, <1>5, <2>3, <3>1
    <3>3. i - 1 \in 1 .. Len(s)
      BY <1>4, <3>1
    <3>4. r # prev /\ r # e /\ r \in Nodes
      BY <1>1, <1>2, <1>4, <1>9, <3>1, <3>3 DEF Nodes
    <3> HIDE DEF here, after
    <3> QED
      BY <1>12, <3>2, <3>4
  <2>4. CASE k # 0 /\ k < i - 1
    <3>1. /\ k \in 1 .. i - 1 /\ k + 1 \in 1 .. i - 1 /\ k \in 1 .. Len(s)
          /\ k # i /\ k # i - 1 /\ k # Len(s) /\ k + 1 <= Len(s) - 1
      BY <1>4, <2>4, SMTT(30)
    <3>2. here = s[k] /\ after = s[k + 1]
      BY <1>5, <2>4, <3>1
    <3>3. p_next'[s[k]] = s[k + 1]
      BY <1>13, <3>1
    <3> HIDE DEF here, after
    <3> QED
      BY <3>2, <3>3
  <2>5. CASE k > i - 1
    <3>a. /\ k \in Int /\ i \in Int /\ Len(s) \in Int
          /\ 0 <= k /\ k <= Len(s) - 1 /\ 1 <= i /\ i <= k
      BY <1>4, <2>5
    <3>1. /\ k \in i .. Len(s) - 1 /\ k + 1 \in 1 .. Len(s) /\ k + 1 # i /\ k + 1 # i - 1
          /\ k # 0 /\ (k + 1 <= Len(s) - 1 <=> k + 1 # Len(s)) /\ (k + 1) + 1 = k + 2
      BY <3>a, SMTT(30)
    <3>2. here = s[k + 1]
      BY <1>5, <3>1
    <3>3. p_next'[s[k + 1]] = IF k + 1 = Len(s) THEN r ELSE s[k + 2]
      BY <1>13, <3>1
    <3>4. k + 1 # Len(s) => t[k + 1] = s[k + 2]
      <4>1. k + 1 # Len(s) => k + 1 \in i .. Len(s) - 1
        BY <1>4, <3>1
      <4> QED
        BY <1>5, <3>1, <4>1
    <3>5. after = IF k + 1 = Len(s) THEN r ELSE s[k + 2]
      BY <3>1, <3>4
    <3> HIDE DEF here, after
    <3> QED
      BY <3>2, <3>3, <3>5
  <2>6. k = i - 1 \/ (k = 0 /\ k # i - 1) \/ (k # 0 /\ k < i - 1) \/ k > i - 1
    BY <1>4
  <2> HIDE DEF here, after
  <2> QED
    BY <2>2, <2>3, <2>4, <2>5, <2>6
<1>15. ASSUME NEW q \in Roots
       PROVE  IF Linked(q)' THEN IsRing(q, M[q])' ELSE M[q] = <<>>
  <2>1. CASE q = r
    <3>1. p_next'[r] # NULL
      <4>1. r # e /\ r \in Nodes
        BY <1>1, <1>2, <1>4 DEF Nodes
      <4>2. p_next[r] # NULL
        BY DEF Linked
      <4>3. p_next[e] = IF i = Len(s) THEN r ELSE s[i + 1]
        BY <1>1, <1>2, <1>4
      <4>4. i # Len(s) => s[i + 1] \in Elems
        <5>1. i # Len(s) => i + 1 \in 1 .. Len(s)
          BY <1>4
        <5> QED
          BY <1>4, <5>1
      <4>5. p_next[e] # NULL
        BY <4>3, <4>4, QueueAssumption
      <4> QED
        BY <1>11, <1>12, <4>1, <4>2, <4>5
    <3> QED
      BY <1>6, <1>14, <2>1, <3>1 DEF Linked
  <2>2. CASE q # r
    <3>1. \A x \in {q} \cup {L[q][k] : k \in 1 .. Len(L[q])} : x \in Nodes /\ p_next'[x] = p_next[x]
      <4>1. q # prev /\ q # e /\ q \in Nodes
        <5>1. i # 1 => i - 1 \in 1 .. Len(s)
          BY <1>4
        <5> QED
          BY <1>1, <1>2, <1>4, <1>9, <2>2, <5>1, QueueAssumption DEF Nodes
      <4>2. ASSUME NEW k \in 1 .. Len(L[q])
            PROVE  L[q][k] # prev /\ L[q][k] # e /\ L[q][k] \in Nodes
        <5>1. i # 1 => i - 1 \in 1 .. Len(L[r])
          BY <1>4 DEF s
        <5>2. L[q][k] # e
          BY <1>7, <2>2
        <5>3. i # 1 => L[q][k] # L[r][i - 1]
          BY <1>7, <2>2, <5>1
        <5>4. L[q][k] \in Elems /\ L[q][k] # r
          BY <1>8, QueueAssumption
        <5> QED
          BY <1>9, <5>2, <5>3, <5>4 DEF Nodes, s
      <4>3. p_next'[q] = p_next[q]
        BY <1>12, <4>1
      <4>4. ASSUME NEW k \in 1 .. Len(L[q])
            PROVE  p_next'[L[q][k]] = p_next[L[q][k]]
        BY <1>12, <4>2
      <4> QED
        BY <4>1, <4>2, <4>3, <4>4
    <3>2. Linked(q)' <=> Linked(q)
      BY <3>1 DEF Linked
    <3>3. ASSUME IsRing(q, L[q])
          PROVE  IsRing(q, L[q])'
      BY <3>1, <3>3 DEF IsRing, NodeAt
    <3> QED
      BY <1>6, <2>2, <3>2, <3>3 DEF Lists
  <2> QED
    BY <2>1, <2>2
<1> DEFINE From(q, j, o) == /\ M[q][j] = L[q][o] /\ (q = r => o # i)
                            /\ j = IF q = r /\ o > i THEN o - 1 ELSE o
<1>16. ASSUME NEW q \in Roots, NEW j \in 1 .. Len(M[q])
       PROVE  \E o \in 1 .. Len(L[q]) : From(q, j, o)
  <2>1. CASE q = r
    <3>1. j \in 1 .. Len(s) - 1
      BY <1>3, <1>6, <2>1
    <3>2. CASE j < i
      <4>1. j \in 1 .. Len(s) /\ j \in 1 .. i - 1 /\ ~ (j > i) /\ j # i
        BY <1>4, <3>1, <3>2
      <4>2. From(q, j, j)
        BY <1>5, <1>6, <2>1, <4>1 DEF s
      <4> QED
        BY <2>1, <4>1, <4>2 DEF s
    <3>3. CASE j >= i
      <4>a. /\ j \in Int /\ i \in Int /\ Len(s) \in Int
            /\ 1 <= j /\ j <= Len(s) - 1 /\ i <= j
        BY <1>4, <3>1, <3>3
      <4>1. /\ j + 1 \in 1 .. Len(s) /\ j + 1 > i /\ (j + 1) - 1 = j /\ j + 1 # i
            /\ j \in i .. Len(s) - 1
        BY <4>a
      <4>2. From(q, j, j + 1)
        BY <1>5, <1>6, <2>1, <4>1 DEF s
      <4> QED
        BY <2>1, <4>1, <4>2 DEF s
    <3> QED
      BY <1>4, <3>1, <3>2, <3>3
  <2>2. CASE q # r
    BY <1>6, <2>2
  <2> QED
    BY <2>1, <2>2
<1>17. ASSUME NEW q \in Roots, NEW p \in Roots,
              NEW j \in 1 .. Len(M[q]), NEW k \in 1 .. Len(M[p]), M[q][j] = M[p][k]
       PROVE  q = p /\ j = k
  <2>1. PICK o \in 1 .. Len(L[q]) : From(q, j, o)
    BY <1>16
  <2>2. PICK u \in 1 .. Len(L[p]) : From(p, k, u)
    BY <1>16
  <2>3. L[q][o] = L[p][u]
    BY <1>17, <2>1, <2>2
  <2>4. q = p /\ o = u
    BY <1>7, <2>3, SMTT(30)
  <2> QED
    BY <2>1, <2>2, <2>4
<1>18. ASSUME NEW x \in Elems, Linked(x)'
       PROVE  \E q \in Roots : \E k \in 1 .. Len(M[q]) : M[q][k] = x
  <2>1. x # e
    BY <1>11, <1>18 DEF Linked
  <2>2. Linked(x)
    <3>1. CASE x = prev
      <4>1. i # 1
        BY <1>9, <3>1, QueueAssumption
      <4>2. i - 1 \in 1 .. Len(L[r]) /\ x = L[r][i - 1]
        BY <1>4, <1>9, <3>1, <4>1 DEF s
      <4> QED
        BY <4>2, LinkedIsListed
    <3>2. CASE x # prev
      BY <1>12, <1>18, <2>1, <3>2 DEF Linked, Nodes
    <3> QED
      BY <3>1, <3>2
  <2>3. PICK q \in Roots : \E o \in 1 .. Len(L[q]) : L[q][o] = x
    BY <2>2, LinkedIsListed
  <2>4. PICK o \in 1 .. Len(L[q]) : L[q][o] = x
    BY <2>3
  <2>5. CASE q # r
    BY <1>6, <2>4, <2>5
  <2>6. CASE q = r /\ o < i
    <3>1. o \in 1 .. i - 1 /\ o \in 1 .. Len(s) - 1 /\ s[o] = x
      BY <1>4, <2>4, <2>6 DEF s
    <3> QED
      BY <1>3, <1>5, <1>6, <3>1
  <2>7. CASE q = r /\ o > i
    <3>1. o - 1 \in i .. Len(s) - 1 /\ o - 1 \in 1 .. Len(s) - 1 /\ (o - 1) + 1 = o /\ s[o] = x
      BY <1>4, <2>4, <2>7 DEF s
    <3>2. t[o - 1] = x
      BY <1>5, <3>1
    <3> QED
      BY <1>3, <1>6, <3>1, <3>2
  <2>8. q = r => o # i
    BY <2>1, <2>4
  <2> QED
    BY <1>4, <2>4, <2>5, <2>6, <2>7, <2>8
<1>19. Lists(M)'
  BY <1>6, <1>15, <1>17, <1>18 DEF Lists
<1> QED
  BY <1>19 DEF M, t, s

LEMMA PrevIs ==
  ASSUME RingInv, NEW L, Lists(L), NEW r \in Roots, Linked(r), NEW i \in 0 .. Len(L[r])
  PROVE  p_prev[NodeAt(r, L[r], i + 1)] = NodeAt(r, L[r], i)
<1>1. L[r] \in Seq(Elems) /\ IsRing(r, L[r])
  BY DEF Lists
<1>2. p_next[NodeAt(r, L[r], i)] = NodeAt(r, L[r], i + 1)
  BY <1>1 DEF IsRing
<1>3. NodeAt(r, L[r], i) \in Nodes /\ Linked(NodeAt(r, L[r], i))
  BY <1>1, LinkedIsListed DEF NodeAt, Nodes
<1> QED
  BY <1>2, <1>3 DEF RingInv, RingsAgree

Open == {r \in Roots : Linked(r)}

LEMMA InsertMaps ==
  ASSUME RingInv, NEW L, Lists(L), NEW r \in Roots, Linked(r), NEW i \in 0 .. Len(L[r]),
         NEW e \in Elems, ~ Linked(e), InsertAfter(NodeAt(r, L[r], i), e)
  PROVE  Lists([L EXCEPT ![r] = Behind(L[r], i, e)])' /\ Open' = Open
<1> DEFINE pos == NodeAt(r, L[r], i)
<1>1. pos \in Nodes /\ pos # NULL /\ Linked(pos)
  BY LinkedIsListed, QueueAssumption DEF NodeAt, Nodes, Lists
<1>2. p_next' = [p_next EXCEPT ![e] = p_next[pos], ![pos] = e]
  BY <1>1 DEF InsertAfter
<1> HIDE DEF pos
<1>3. Pointers
  BY DEF RingInv
<1>4. Lists([L EXCEPT ![r] = Behind(L[r], i, e)])'
  BY <1>2, <1>3, ListGrows DEF pos
<1>5. ASSUME NEW q \in Roots
      PROVE  Linked(q)' <=> Linked(q)
  <2>1. q # e /\ q \in Nodes /\ e # NULL /\ pos # e
    BY <1>1, QueueAssumption DEF Nodes
  <2>2. p_next'[q] = IF q = pos THEN e ELSE p_next[q]
    BY <1>2, <1>3, <2>1 DEF Pointers
  <2> QED
    BY <1>1, <2>1, <2>2 DEF Linked
<1> QED
  BY <1>4, <1>5 DEF Open

LEMMA UnlinkMaps ==
  ASSUME RingInv, NEW L, Lists(L), NEW r \in Roots, NEW i \in 1 .. Len(L[r]),
         Unlink(L[r][i])
  PROVE  Lists([L EXCEPT ![r] = Without(L[r], i)])' /\ Open' = Open
<1> DEFINE e == L[r][i]
           prev == NodeAt(r, L[r], i - 1)
<1>1. Linked(r) /\ Linked(e) /\ L[r] \in Seq(Elems)
  BY LinkedIsListed DEF Lists
<1>2. e \in Elems /\ e \in Nodes
  BY <1>1 DEF Nodes
<1>3. p_prev[e] = prev
  <2>1. i - 1 \in 0 .. Len(L[r]) /\ (i - 1) + 1 = i
    BY <1>1
  <2>2. p_prev[NodeAt(r, L[r], (i - 1) + 1)] = NodeAt(r, L[r], i - 1)
    BY <1>1, <2>1, PrevIs
  <2>3. NodeAt(r, L[r], i) = e
    BY DEF NodeAt
  <2> QED
    BY <2>1, <2>2, <2>3
<1>4. p_next' = [p_next EXCEPT ![prev] = p_next[e], ![e] = NULL]
  <2>1. p_next' = [p_next EXCEPT ![p_prev[e]] = p_next[e], ![e] = NULL]
    BY DEF Unlink
  <2> QED
    BY <1>3, <2>1, Zenon
<1>5. Linked(prev) /\ p_next[e] # NULL
  <2>1. p_next[p_prev[e]] = e /\ p_next[e] # NULL /\ e # NULL
    BY <1>1, <1>2, QueueAssumption DEF RingInv, RingsAgree, Linked, Nodes
  <2> QED
    BY <1>3, <2>1 DEF Linked
<1>6. Pointers
  BY DEF RingInv
<1>7. Lists([L EXCEPT ![r] = Without(L[r], i)])'
  <2> HIDE DEF e, prev
  <2>1. e = L[r][i] /\ prev = NodeAt(r, L[r], i - 1)
    BY DEF e, prev
  <2> QED
    BY <1>1, <1>4, <1>6, <2>1, ListShrinks
<1> HIDE DEF e, prev
<1>8. ASSUME NEW q \in Roots
      PROVE  Linked(q)' <=> Linked(q)
  <2>1. q # e /\ q \in Nodes
    BY <1>2, QueueAssumption DEF Nodes
  <2>2. p_next'[q] = IF q = prev THEN p_next[e] ELSE p_next[q]
    BY <1>4, <1>6, <2>1 DEF Pointers
  <2> QED
    BY <1>5, <2>2 DEF Linked
<1> QED
  BY <1>7, <1>8 DEF Open

LEMMA InitMaps == Init => Abstract!Init /\ \E L : Lists(L)
<1> SUFFICES ASSUME Init
             PROVE  Abstract!Init /\ \E L : Lists(L)
  OBVIOUS
<1> DEFINE L == [r \in Roots |-> <<>>]
<1>1. \A x \in Nodes : ~ Linked(x)
  BY DEF Init, Linked
<1>2. Lists(L)
  BY <1>1 DEF Lists, Nodes
<1>3. [r \in Roots |-> Contents(r)] = L /\ {r \in Roots : Linked(r)} = {}
  BY <1>1 DEF Contents, Nodes
<1> QED
  BY <1>2, <1>3 DEF Abstract!Init, Init

Queued == [r \in Roots |-> Contents(r)]

\* The lists are the contents, in a state and in the one after it.
LEMMA ContentsHere == \A L : Lists(L) => Queued = L
BY ContentsAre DEF Queued

LEMMA ContentsNext == (\A L : Lists(L) => Queued = L)'
BY ContentsHere, PTL

\* Every call does what Fifo says.
LEMMA StepMaps ==
  ASSUME RingInv, NEW L, Lists(L), [Next]_vars
  PROVE  (\E M : Lists(M)') /\ [Abstract!Next]_Abstract!vars
<1>1. Queued = L /\ L \in [Roots -> Seq(Elems)]
  BY ContentsHere DEF Lists
<1>2. \A M : Lists(M)' => Queued' = M
  BY ContentsNext
<1>3. \A e \in Elems : ~ Linked(e) => e \notin Abstract!Waiting
  BY <1>1, LinkedIsListed DEF Abstract!Waiting, Abstract!ToSet, Queued
<1>4. ASSUME UNCHANGED <<p_prev, p_next>>
      PROVE  Lists(L)' /\ Queued' = Queued /\ Open' = Open
  <2>1. Lists(L)'
    BY <1>4 DEF Lists, IsRing, Linked
  <2>2. Open' = Open
    BY <1>4 DEF Open, Linked
  <2> QED
    BY <1>1, <1>2, <2>1, <2>2
<1>5. ASSUME NEW r \in Roots, ~ Linked(r), QueueInit(r)
      PROVE  Lists(L)' /\ Abstract!Open(r)
  <2>1. /\ p_next' = [p_next EXCEPT ![r] = r] /\ call' = <<"init", r, NULL>>
    BY <1>5 DEF QueueInit
  <2>2. L[r] = <<>> /\ Pointers
    BY <1>5 DEF Lists, RingInv
  <2>3. \A x \in Nodes : p_next'[x] = IF x = r THEN r ELSE p_next[x]
    BY <2>1, <2>2 DEF Pointers
  <2>4. r \in Nodes /\ r # NULL /\ \A e \in Elems : e \in Nodes /\ e # r
    BY QueueAssumption DEF Nodes
  <2>5. ASSUME NEW q \in Roots
        PROVE  IF Linked(q)' THEN IsRing(q, L[q])' ELSE L[q] = <<>>
    <3>1. CASE q = r
      <4>1. L[q] = <<>> /\ Len(L[q]) = 0
        BY <2>2, <3>1
      <4>2. NodeAt(q, L[q], 0) = r /\ NodeAt(q, L[q], 0 + 1) = r /\ 0 .. Len(L[q]) = {0}
        BY <3>1, <4>1 DEF NodeAt
      <4>3. p_next'[r] = r
        BY <2>3, <2>4
      <4>4. IsRing(q, L[q])'
        BY <4>2, <4>3 DEF IsRing
      <4> QED
        BY <2>4, <3>1, <4>3, <4>4 DEF Linked
    <3>2. CASE q # r
      <4>1. L[q] \in Seq(Elems) /\ q \in Nodes
        BY <1>1 DEF Nodes
      <4>2. \A i \in Nat : NodeAt(q, L[q], i) \in Nodes /\ NodeAt(q, L[q], i) # r
        BY <2>4, <3>2, <4>1 DEF NodeAt
      <4>3. \A i \in Nat : p_next'[NodeAt(q, L[q], i)] = p_next[NodeAt(q, L[q], i)]
        BY <2>3, <4>2
      <4>4. \A i \in 0 .. Len(L[q]) : i \in Nat
        BY <4>1
      <4>5. Linked(q)' <=> Linked(q)
        BY <2>3, <3>2, <4>1 DEF Linked
      <4> QED
        BY <4>3, <4>4, <4>5 DEF Lists, IsRing
    <3> QED
      BY <3>1, <3>2
  <2>6. \A e \in Elems : Linked(e)' <=> Linked(e)
    BY <2>3, <2>4 DEF Linked
  <2>7. Lists(L)'
    BY <1>1, <2>5, <2>6 DEF Lists
  <2>8. Open' = Open \cup {r}
    BY <2>3, <2>4 DEF Open, Linked, Nodes
  <2>9. Queued' = [Queued EXCEPT ![r] = <<>>]
    BY <1>1, <1>2, <2>2, <2>7
  <2> QED
    BY <2>1, <2>7, <2>8, <2>9 DEF Abstract!Open, Queued, Open
<1>6. ASSUME NEW r \in Roots, QueuePop(r)
      PROVE  (\E M : Lists(M)') /\ (Abstract!Pop(r) \/ Abstract!PopNothing(r))
  <2>1. Linked(r) => IsRing(r, L[r]) /\ L[r] \in Seq(Elems)
    BY <1>1 DEF Lists
  <2>2. Linked(r) => p_next[r] = IF Len(L[r]) = 0 THEN r ELSE L[r][1]
    BY <2>1, RingFacts
  <2>3. CASE L[r] = <<>>
    <3>1. IsEmpty(r) \/ p_next[r] = NULL
      BY <2>2, <2>3 DEF IsEmpty, Linked
    <3>2. UNCHANGED <<p_prev, p_next>> /\ call' = <<"pop", r, NULL>>
      BY <1>6, <3>1 DEF QueuePop
    <3>3. Lists(L)' /\ Queued' = Queued /\ Open' = Open
      BY <1>4, <3>2
    <3> QED
      BY <1>1, <2>3, <3>2, <3>3 DEF Abstract!PopNothing, Queued, Open
  <2>4. CASE L[r] # <<>>
    <3>1. L[r] \in Seq(Elems) /\ 1 \in 1 .. Len(L[r]) /\ Len(L[r]) # 0 /\ Linked(r)
      BY <1>1, <2>4 DEF Lists
    <3>2. p_next[r] = L[r][1] /\ L[r][1] \in Elems
      BY <2>2, <3>1
    <3>3. ~ IsEmpty(r) /\ p_next[r] # NULL
      BY <3>2, QueueAssumption DEF IsEmpty
    <3>4. Unlink(L[r][1]) /\ call' = <<"pop", r, L[r][1]>>
      BY <1>6, <3>2, <3>3 DEF QueuePop
    <3> DEFINE M == [L EXCEPT ![r] = Without(L[r], 1)]
    <3>5. Lists(M)' /\ Open' = Open
      BY <3>1, <3>4, UnlinkMaps
    <3>6. Tail(L[r]) = Without(L[r], 1)
      BY <3>1, WithoutIs
    <3>7. Queued' = [Queued EXCEPT ![r] = Tail(Queued[r])]
      BY <1>1, <1>2, <3>5, <3>6
    <3>8. Queued[r] # <<>> /\ call' = <<"pop", r, Head(Queued[r])>>
      BY <1>1, <2>4, <3>1, <3>4
    <3> QED
      BY <3>5, <3>7, <3>8 DEF Abstract!Pop, Queued, Open
  <2> QED
    BY <2>3, <2>4
<1>7. ASSUME NEW r \in Roots, NEW e \in Elems, ~ Linked(e), QueuePush(r, e)
      PROVE  (\E M : Lists(M)') /\ Abstract!Push(r, e)
  <2>1. InsertAfter(p_prev[r], e) /\ call' = <<"push", r, e>> /\ e \notin Abstract!Waiting
    BY <1>3, <1>7 DEF QueuePush
  <2>2. CASE ~ Linked(r)
    <3>1. p_prev[r] = NULL
      BY <2>2 DEF RingInv, Nodes
    <3>2. UNCHANGED <<p_prev, p_next>>
      BY <2>1, <3>1 DEF InsertAfter
    <3>3. Lists(L)' /\ Queued' = Queued /\ Open' = Open
      BY <1>4, <3>2
    <3>4. Queued' = [Queued EXCEPT ![r] = IF r \in Open THEN Append(@, e) ELSE @]
      BY <1>1, <2>2, <3>3 DEF Open
    <3> QED
      BY <2>1, <3>3, <3>4 DEF Abstract!Push, Queued, Open
  <2>3. CASE Linked(r)
    <3>1. L[r] \in Seq(Elems) /\ Len(L[r]) \in 0 .. Len(L[r])
      BY <1>1
    <3>2. p_prev[r] = NodeAt(r, L[r], Len(L[r]))
      <4>1. p_prev[NodeAt(r, L[r], Len(L[r]) + 1)] = NodeAt(r, L[r], Len(L[r]))
        BY <2>3, <3>1, PrevIs
      <4>2. NodeAt(r, L[r], Len(L[r]) + 1) = r
        BY <3>1 DEF NodeAt
      <4> QED
        BY <4>1, <4>2
    <3> DEFINE M == [L EXCEPT ![r] = Behind(L[r], Len(L[r]), e)]
    <3>3. Lists(M)' /\ Open' = Open
      BY <1>7, <2>1, <2>3, <3>1, <3>2, InsertMaps
    <3>4. Append(L[r], e) = Behind(L[r], Len(L[r]), e)
      BY <3>1, BehindIs
    <3>5. Queued' = [Queued EXCEPT ![r] = IF r \in Open THEN Append(@, e) ELSE @]
      BY <1>1, <1>2, <2>3, <3>3, <3>4 DEF Open
    <3> QED
      BY <2>1, <3>3, <3>5 DEF Abstract!Push, Queued, Open
  <2> QED
    BY <2>2, <2>3
<1>8. ASSUME NEW e \in Elems, Linked(e), QueueRemove(e)
      PROVE  /\ \E M : Lists(M)'
             /\ \E r \in Roots : \E i \in 1 .. Len(Queued[r]) : Abstract!Withdraw(r, i)
  <2>1. PICK r \in Roots : \E i \in 1 .. Len(L[r]) : L[r][i] = e
    BY <1>8, LinkedIsListed
  <2>2. PICK i \in 1 .. Len(L[r]) : L[r][i] = e
    BY <2>1
  <2>3. Unlink(L[r][i]) /\ call' = <<"remove", NULL, L[r][i]>>
    BY <1>8, <2>2 DEF QueueRemove
  <2> DEFINE M == [L EXCEPT ![r] = Without(L[r], i)]
  <2>4. Lists(M)' /\ Open' = Open
    BY <2>3, UnlinkMaps
  <2>5. Abstract!RemoveAt(L[r], i) = Without(L[r], i)
    BY <1>1, WithoutIs
  <2>6. Queued' = [Queued EXCEPT ![r] = Abstract!RemoveAt(Queued[r], i)]
    BY <1>1, <1>2, <2>4, <2>5
  <2>7. i \in 1 .. Len(Queued[r]) /\ call' = <<"remove", NULL, Queued[r][i]>>
    BY <1>1, <2>3
  <2>8. Abstract!Withdraw(r, i)
    BY <2>4, <2>6, <2>7 DEF Abstract!Withdraw, Queued, Open
  <2> QED
    BY <2>4, <2>7, <2>8
<1>9. ASSUME NEW pos \in Nodes, NEW e \in Elems, Linked(pos), ~ Linked(e),
             QueueInsertAfter(pos, e)
      PROVE  /\ \E M : Lists(M)'
             /\ \E r \in Roots : \/ Abstract!InsertFirst(r, e)
                                 \/ \E i \in 1 .. Len(Queued[r]) : Abstract!InsertBehind(r, i, e)
  <2>1. InsertAfter(pos, e) /\ call' = <<"insert", pos, e>> /\ e \notin Abstract!Waiting
    BY <1>3, <1>9 DEF QueueInsertAfter
  <2>2. CASE pos \in Roots
    <3>1. L[pos] \in Seq(Elems) /\ 0 \in 0 .. Len(L[pos]) /\ NodeAt(pos, L[pos], 0) = pos
      BY <1>1, <2>2 DEF NodeAt
    <3> DEFINE M == [L EXCEPT ![pos] = Behind(L[pos], 0, e)]
    <3>2. Lists(M)' /\ Open' = Open
      BY <1>9, <2>1, <2>2, <3>1, InsertMaps
    <3>3. <<e>> \o L[pos] = Behind(L[pos], 0, e)
      BY <3>1, BehindIs
    <3>4. Queued' = [Queued EXCEPT ![pos] = <<e>> \o @] /\ pos \in Open
      BY <1>1, <1>2, <1>9, <2>2, <3>2, <3>3 DEF Open
    <3>5. Abstract!InsertFirst(pos, e)
      BY <2>1, <3>2, <3>4 DEF Abstract!InsertFirst, Queued, Open
    <3> QED
      BY <2>2, <3>2, <3>5
  <2>3. CASE pos \in Elems
    <3>1. PICK r \in Roots : \E i \in 1 .. Len(L[r]) : L[r][i] = pos
      BY <1>9, <2>3, LinkedIsListed
    <3>2. PICK i \in 1 .. Len(L[r]) : L[r][i] = pos
      BY <3>1
    <3>3. L[r] \in Seq(Elems) /\ i \in 0 .. Len(L[r]) /\ NodeAt(r, L[r], i) = pos /\ Linked(r)
      BY <1>1, <3>2, LinkedIsListed DEF NodeAt
    <3> DEFINE M == [L EXCEPT ![r] = Behind(L[r], i, e)]
    <3>4. Lists(M)' /\ Open' = Open
      BY <1>9, <2>1, <3>3, InsertMaps
    <3>5. Abstract!InsertAt(L[r], i + 1, e) = Behind(L[r], i, e)
      BY <3>3, BehindIs
    <3>6. Queued' = [Queued EXCEPT ![r] = Abstract!InsertAt(@, i + 1, e)]
      BY <1>1, <1>2, <3>4, <3>5
    <3>7. i \in 1 .. Len(Queued[r]) /\ call' = <<"insert", Queued[r][i], e>>
      BY <1>1, <2>1, <3>2
    <3>8. Abstract!InsertBehind(r, i, e)
      BY <2>1, <3>4, <3>6, <3>7 DEF Abstract!InsertBehind, Queued, Open
    <3> QED
      BY <3>4, <3>7, <3>8
  <2> QED
    BY <1>9, <2>2, <2>3 DEF Nodes
<1>10. CASE UNCHANGED vars
  <2>1. UNCHANGED <<p_prev, p_next, call>>
    BY <1>10 DEF vars
  <2>2. Lists(L)' /\ Queued' = Queued /\ Open' = Open
    BY <1>4, <2>1
  <2> QED
    BY <2>1, <2>2 DEF Abstract!vars, Queued, Open
<1> QED
  BY <1>5, <1>6, <1>7, <1>8, <1>9, <1>10 DEF Next, Abstract!Next, Queued

\* No element is in two queues, lost or out of order: what the rings hold, read from
\* their roots, is what Fifo says after any sequence of calls.
THEOREM Refinement == Spec => ImplementsFifo
<1> DEFINE Listed == \E L : Lists(L)
<1>1. RingInv /\ Listed /\ [Next]_vars => Listed' /\ [Abstract!Next]_Abstract!vars
  BY StepMaps
<1> QED
  BY <1>1, InitMaps, RingInvInit, RingInvStep, PTL DEF Spec, ImplementsFifo, Abstract!Spec

-----------------------------------------------------------------------------
(* Spin lock: the sections *)

Labels == {"out", "set", "load", "body", "clear", "enable"}

\* A section is held where the code is in one, and only by the running task; interrupts
\* are masked for as long, and nobody writes what was read.
SectionInv ==
  /\ masked \in BOOLEAN /\ running \in Tasks
  /\ lock \in [Locks -> {0, 1}] /\ data \in [Locks -> 0 .. Values - 1]
  /\ pc \in [Tasks -> Labels]
  /\ held \in [Tasks -> Seq(Locks \X (0 .. Values - 1))]
  /\ \A t \in Tasks : Len(held[t]) = IF pc[t] = "out" THEN 0 ELSE 1
  /\ \A t \in Tasks : pc[t] # "out" => masked /\ t = running
  /\ \A t \in Tasks : pc[t] = "body" => held[t][1][2] = data[held[t][1][1]]

LEMMA SectionInvInit == SectionInit => SectionInv
<1> SUFFICES ASSUME SectionInit
             PROVE  SectionInv
  OBVIOUS
<1>1. 0 \in 0 .. Values - 1
  BY ClientAssumption
<1>2. \A t \in Tasks : held[t] = <<>> /\ pc[t] = "out"
  BY DEF SectionInit
<1>3. held \in [Tasks -> Seq(Locks \X (0 .. Values - 1))]
  BY DEF SectionInit
<1>4. masked \in BOOLEAN
  BY DEF SectionInit
<1>5. \A t \in Tasks : Len(held[t]) = 0
  BY <1>2
<1>6. running \in Tasks /\ lock \in [Locks -> {0, 1}] /\ data \in [Locks -> 0 .. Values - 1]
  BY <1>1 DEF SectionInit
<1>7. pc \in [Tasks -> Labels]
  BY DEF SectionInit, Labels
<1> QED
  BY <1>2, <1>3, <1>4, <1>5, <1>6, <1>7 DEF SectionInv

\* What a step of the running task has to leave: the rest of SectionInv follows.
LEMMA RunningSteps ==
  ASSUME SectionInv, running' = running,
         NEW label \in Labels, pc' = [pc EXCEPT ![running] = label],
         NEW new \in Seq(Locks \X (0 .. Values - 1)),
         held' = [held EXCEPT ![running] = new],
         Len(new) = IF label = "out" THEN 0 ELSE 1,
         masked' \in BOOLEAN, label = "out" \/ masked' = TRUE,
         lock' \in [Locks -> {0, 1}], data' \in [Locks -> 0 .. Values - 1],
         label = "body" => new[1][2] = data'[new[1][1]]
  PROVE  SectionInv'
<1> USE DEF SectionInv
<1>1. pc' \in [Tasks -> Labels] /\ pc'[running] = label
  OBVIOUS
<1>2. held' \in [Tasks -> Seq(Locks \X (0 .. Values - 1))] /\ held'[running] = new
  OBVIOUS
<1>3. \A t \in Tasks \ {running} : pc[t] = "out"
  OBVIOUS
<1>4. \A t \in Tasks \ {running} : pc'[t] = "out" /\ held'[t] = held[t] /\ Len(held[t]) = 0
  BY <1>3
<1>5. \A t \in Tasks : Len(held'[t]) = IF pc'[t] = "out" THEN 0 ELSE 1
  BY <1>1, <1>2, <1>4
<1>6. \A t \in Tasks : pc'[t] # "out" => masked' /\ t = running'
  BY <1>1, <1>4, Zenon
<1>7. \A t \in Tasks : pc'[t] = "body" => held'[t][1][2] = data'[held'[t][1][1]]
  BY <1>1, <1>2, <1>4
<1> QED
  BY <1>1, <1>2, <1>5, <1>6, <1>7

LEMMA SectionInvStep ==
  ASSUME MaxHeld = 1
  PROVE  SectionInv /\ [SectionNext]_sectionVars => SectionInv'
<1> SUFFICES ASSUME SectionInv, [SectionNext]_sectionVars
             PROVE  SectionInv'
  OBVIOUS
<1> DEFINE h == held[running]
           Entries == Locks \X (0 .. Values - 1)
<1> HIDE DEF Entries
<1>a. /\ running \in Tasks /\ h \in Seq(Entries) /\ masked \in BOOLEAN
      /\ lock \in [Locks -> {0, 1}] /\ data \in [Locks -> 0 .. Values - 1]
      /\ held = [held EXCEPT ![running] = h]
  BY DEF SectionInv, Entries
<1>b. ASSUME pc[running] # "out"
      PROVE  Len(h) = 1 /\ Depth = 1 /\ Inner = h[1] /\ h[1] \in Entries
             /\ h[1] \in Locks \X (0 .. Values - 1)
  <2>1. Len(h) = 1
    BY <1>a, <1>b DEF SectionInv
  <2>2. h[1] \in Entries
    BY <1>a, <2>1
  <2> QED
    BY <2>1, <2>2 DEF Depth, Inner, Entries
<1>c. pc[running] # "out" => masked = TRUE
  <2>1. pc[running] # "out" => masked
    BY <1>a, Zenon DEF SectionInv
  <2> QED
    BY <1>a, <2>1
<1>d. \A x \in {"out", "set", "load", "body", "clear", "enable"} : x \in Labels
  BY DEF Labels
<1>1. ASSUME NEW l \in Locks, LockDisables(l)
      PROVE  SectionInv'
  <2>1. Len(h) = 0
    <3>1. Depth < 1 /\ Len(h) \in Nat
      BY <1>1, <1>a DEF LockDisables
    <3> QED
      BY <3>1 DEF Depth
  <2>2. <<l, 0>> \in Entries
    BY ClientAssumption DEF Entries
  <2> DEFINE new == Append(h, <<l, 0>>)
  <2>3. new \in Seq(Entries) /\ Len(new) = 1
    BY <1>a, <2>1, <2>2
  <2>4. held' = [held EXCEPT ![running] = new]
    BY <1>1 DEF LockDisables
  <2>5. pc' = [pc EXCEPT ![running] = "set"] /\ masked' = TRUE
    BY <1>1 DEF LockDisables, Goto, DisableException
  <2>6. running' = running /\ lock' = lock /\ data' = data
    BY <1>1 DEF LockDisables
  <2> HIDE DEF new, h
  <2> QED
    BY <1>a, <2>3, <2>4, <2>5, <2>6, <1>d, RunningSteps DEF Entries
<1>2. CASE LockSets
  <2>1. pc[running] = "set"
    BY <1>2 DEF LockSets, At
  <2>2. lock' \in [Locks -> {0, 1}]
    BY <1>2, <1>a DEF LockSets, SetLock
  <2>3. pc' = [pc EXCEPT ![running] = "load"]
    BY <1>2 DEF LockSets, Goto
  <2>4. running' = running /\ masked' = masked /\ held' = held /\ data' = data
    BY <1>2 DEF LockSets
  <2>5. masked = TRUE /\ Len(h) = 1
    BY <1>b, <1>c, <2>1
  <2> HIDE DEF h
  <2> QED
    BY <1>a, <2>1, <2>2, <2>3, <2>4, <2>5, <1>d, RunningSteps DEF Entries
<1>3. CASE Load
  <2>1. pc[running] = "load"
    BY <1>3 DEF Load, At
  <2>2. PICK l \in Locks, v \in 0 .. Values - 1 : h[1] = <<l, v>>
    BY <1>b, <2>1
  <2> DEFINE new == [h EXCEPT ![1][2] = data[l]]
  <2>3. data[l] \in 0 .. Values - 1 /\ <<l, data[l]>> \in Entries
    BY <1>a DEF Entries
  <2>4. [h[1] EXCEPT ![2] = data[l]] = <<l, data[l]>>
    BY <2>2
  <2>5. new = [h EXCEPT ![1] = <<l, data[l]>>]
    BY <2>4
  <2>6. new \in Seq(Entries) /\ Len(new) = 1 /\ new[1] = <<l, data[l]>>
    BY <1>a, <1>b, <2>1, <2>3, <2>5
  <2>7. held' = [held EXCEPT ![running] =
              [held[running] EXCEPT ![Depth] =
                 [held[running][Depth] EXCEPT ![2] = data[Inner[1]]]]]
    BY <1>3 DEF Load
  <2>8. Depth = 1 /\ Inner[1] = l
    BY <1>b, <2>1, <2>2
  <2>9. held' = [held EXCEPT ![running] = new]
    BY <2>7, <2>8
  <2>10. pc' = [pc EXCEPT ![running] = "body"]
    BY <1>3 DEF Load, Goto
  <2>11. running' = running /\ masked' = masked /\ lock' = lock /\ data' = data
    BY <1>3 DEF Load, lockVars
  <2>12. new[1][2] = data'[new[1][1]]
    BY <2>6, <2>11
  <2>13. masked = TRUE
    BY <1>c, <2>1
  <2> HIDE DEF new, h
  <2> QED
    BY <1>a, <2>1, <2>6, <2>9, <2>10, <2>11, <2>12, <2>13, <1>d, RunningSteps DEF Entries
<1>4. CASE Store
  <2>1. pc[running] = "body"
    BY <1>4 DEF Store, At
  <2>2. PICK l \in Locks, v \in 0 .. Values - 1 : h[1] = <<l, v>>
    BY <1>b, <2>1
  <2>3. (v + 1) % Values \in 0 .. Values - 1
    BY ClientAssumption
  <2>4. Inner = <<l, v>>
    BY <1>b, <2>1, <2>2
  <2>5. data' = [data EXCEPT ![Inner[1]] = (Inner[2] + 1) % Values]
    BY <1>4 DEF Store
  <2>6. data' = [data EXCEPT ![l] = (v + 1) % Values]
    BY <2>4, <2>5
  <2>7. data' \in [Locks -> 0 .. Values - 1]
    BY <1>a, <2>3, <2>6
  <2>8. pc' = [pc EXCEPT ![running] = "clear"]
    BY <1>4 DEF Store, Goto
  <2>9. running' = running /\ masked' = masked /\ held' = held /\ lock' = lock
    BY <1>4 DEF Store, lockVars
  <2>10. masked = TRUE /\ Len(h) = 1
    BY <1>b, <1>c, <2>1
  <2>11. /\ masked' \in BOOLEAN /\ masked' = TRUE /\ "clear" \in Labels
         /\ lock' \in [Locks -> {0, 1}] /\ h \in Seq(Locks \X (0 .. Values - 1))
    BY <1>a, <1>d, <2>9, <2>10 DEF Entries
  <2>12. held' = [held EXCEPT ![running] = h]
    BY <1>a, <2>9
  <2> HIDE DEF h
  <2> QED
    BY <2>7, <2>8, <2>9, <2>10, <2>11, <2>12, RunningSteps
<1>5. CASE UnlockClears
  <2>1. pc[running] = "clear"
    BY <1>5 DEF UnlockClears, At
  <2>2. lock' \in [Locks -> {0, 1}]
    BY <1>5, <1>a DEF UnlockClears, ClearLock
  <2>3. pc' = [pc EXCEPT ![running] = "enable"]
    BY <1>5 DEF UnlockClears, Goto
  <2>4. running' = running /\ masked' = masked /\ held' = held /\ data' = data
    BY <1>5 DEF UnlockClears
  <2>5. masked = TRUE /\ Len(h) = 1
    BY <1>b, <1>c, <2>1
  <2> HIDE DEF h
  <2> QED
    BY <1>a, <2>1, <2>2, <2>3, <2>4, <2>5, <1>d, RunningSteps DEF Entries
<1>6. CASE UnlockEnables
  <2>1. pc[running] = "enable"
    BY <1>6 DEF UnlockEnables, At
  <2> DEFINE new == SubSeq(h, 1, 0)
  <2>2. new \in Seq(Entries) /\ Len(new) = 0
    BY <1>a
  <2>3. held' = [held EXCEPT ![running] = new]
    BY <1>6, <1>b, <2>1 DEF UnlockEnables
  <2>4. pc' = [pc EXCEPT ![running] = "out"] /\ masked' = FALSE
    BY <1>6, <1>b, <2>1 DEF UnlockEnables, Goto, EnableException
  <2>5. running' = running /\ lock' = lock /\ data' = data
    BY <1>6 DEF UnlockEnables
  <2> HIDE DEF new, h
  <2> QED
    BY <1>a, <2>1, <2>2, <2>3, <2>4, <2>5, <1>d, RunningSteps DEF Entries
<1>7. CASE Switch
  <2>1. ~ masked /\ running' \in Tasks
    BY <1>7 DEF Switch
  <2>2. masked' = masked /\ lock' = lock /\ pc' = pc /\ held' = held /\ data' = data
    BY <1>7 DEF Switch, lockVars
  <2>3. \A t \in Tasks : pc[t] = "out"
    BY <2>1 DEF SectionInv
  <2> QED
    BY <2>1, <2>2, <2>3 DEF SectionInv
<1>8. CASE UNCHANGED sectionVars
  BY <1>8 DEF sectionVars, lockVars, clientVars, SectionInv
<1> QED
  BY <1>1, <1>2, <1>3, <1>4, <1>5, <1>6, <1>7, <1>8 DEF SectionNext, InSection

\* No other section of the lock comes between a task's reading and its writing.
THEOREM SectionsAtomic ==
  ASSUME MaxHeld = 1
  PROVE  SectionSpec => []ReadStaysValid
<1>1. SectionInv => ReadStaysValid
  BY DEF SectionInv, ReadStaysValid, Read
<1> QED
  BY <1>1, SectionInvInit, SectionInvStep, PTL DEF SectionSpec

-----------------------------------------------------------------------------
(* The word *)

Within == {"load", "body", "clear"}

\* Whose section a lock's word shows.
WordInv ==
  \A l \in Locks :
    lock[l] = IF pc[running] \in Within /\ held[running][1][1] = l THEN 1 ELSE 0

LEMMA WordInvStep ==
  ASSUME MaxHeld = 1
  PROVE  SectionInv /\ SectionInv' /\ WordInv /\ [SectionNext]_sectionVars => WordInv'
<1> SUFFICES ASSUME SectionInv, SectionInv', WordInv, [SectionNext]_sectionVars
             PROVE  WordInv'
  OBVIOUS
<1>a. /\ running \in Tasks /\ pc \in [Tasks -> Labels]
      /\ held \in [Tasks -> Seq(Locks \X (0 .. Values - 1))]
      /\ lock \in [Locks -> {0, 1}]
      /\ Len(held[running]) = IF pc[running] = "out" THEN 0 ELSE 1
  BY DEF SectionInv
<1>1. ASSUME NEW l \in Locks, LockDisables(l)
      PROVE  WordInv'
  <2>1. pc[running] = "out"
    <3>1. Depth < 1 /\ Len(held[running]) \in Nat
      BY <1>1, <1>a DEF LockDisables
    <3> QED
      BY <1>a, <3>1 DEF Depth
  <2>2. pc' = [pc EXCEPT ![running] = "set"] /\ running' = running /\ lock' = lock
    BY <1>1 DEF LockDisables, Goto
  <2> QED
    BY <1>a, <2>1, <2>2 DEF WordInv, Within
<1>2. CASE LockSets
  <2>1. pc[running] = "set" /\ Depth = 1
    BY <1>2, <1>a DEF LockSets, At, Depth
  <2>2. /\ lock' = [lock EXCEPT ![held[running][1][1]] = 1]
        /\ pc' = [pc EXCEPT ![running] = "load"] /\ running' = running /\ held' = held
    BY <1>2, <2>1 DEF LockSets, SetLock, Goto, Inner
  <2> QED
    BY <1>a, <2>1, <2>2 DEF WordInv, Within
<1>3. CASE Load
  <2>1. pc[running] = "load" /\ Depth = 1 /\ Len(held[running]) = 1
    BY <1>3, <1>a DEF Load, At, Depth
  <2>2. /\ pc' = [pc EXCEPT ![running] = "body"] /\ running' = running /\ lock' = lock
    BY <1>3 DEF Load, Goto, lockVars
  <2>3. held' = [held EXCEPT ![running] =
              [held[running] EXCEPT ![Depth] =
                 [held[running][Depth] EXCEPT ![2] = data[Inner[1]]]]]
    BY <1>3 DEF Load
  <2>4. held'[running] =
          [held[running] EXCEPT ![1] = [held[running][1] EXCEPT ![2] = data[Inner[1]]]]
    BY <1>a, <2>1, <2>3
  <2> DEFINE Entries == Locks \X (0 .. Values - 1)
  <2>5. held[running] \in Seq(Entries)
    BY <1>a
  <2>6. held[running][1] \in Entries
    <3> HIDE DEF Entries
    <3> QED
      BY <2>1, <2>5
  <2>7. PICK l \in Locks, v \in 0 .. Values - 1 : held[running][1] = <<l, v>>
    BY <2>6
  <2>8. held'[running][1] = <<l, data[Inner[1]]>>
    BY <1>a, <2>1, <2>4, <2>7
  <2> QED
    BY <1>a, <2>1, <2>2, <2>7, <2>8 DEF WordInv, Within
<1>4. CASE Store
  <2>1. pc[running] = "body"
    BY <1>4 DEF Store, At
  <2>2. /\ pc' = [pc EXCEPT ![running] = "clear"]
        /\ running' = running /\ lock' = lock /\ held' = held
    BY <1>4 DEF Store, Goto, lockVars
  <2> QED
    BY <1>a, <2>1, <2>2 DEF WordInv, Within
<1>5. CASE UnlockClears
  <2>1. pc[running] = "clear" /\ Depth = 1
    BY <1>5, <1>a DEF UnlockClears, At, Depth
  <2>2. /\ lock' = [lock EXCEPT ![held[running][1][1]] = 0]
        /\ pc' = [pc EXCEPT ![running] = "enable"] /\ running' = running /\ held' = held
    BY <1>5, <2>1 DEF UnlockClears, ClearLock, Goto, Inner
  <2> QED
    BY <1>a, <2>1, <2>2 DEF WordInv, Within
<1>6. CASE UnlockEnables
  <2>1. pc[running] = "enable" /\ Depth = 1
    BY <1>6, <1>a DEF UnlockEnables, At, Depth
  <2>2. pc' = [pc EXCEPT ![running] = "out"] /\ running' = running /\ lock' = lock
    BY <1>6, <2>1 DEF UnlockEnables, Goto
  <2> QED
    BY <1>a, <2>1, <2>2 DEF WordInv, Within
<1>7. CASE Switch
  <2>1. ~ masked /\ running' \in Tasks /\ lock' = lock /\ pc' = pc /\ held' = held
    BY <1>7 DEF Switch, lockVars
  <2>2. \A t \in Tasks : pc[t] = "out"
    BY <2>1 DEF SectionInv
  <2> QED
    BY <1>a, <2>1, <2>2 DEF WordInv, Within
<1>8. CASE UNCHANGED sectionVars
  BY <1>8 DEF sectionVars, lockVars, clientVars, WordInv
<1> QED
  BY <1>1, <1>2, <1>3, <1>4, <1>5, <1>6, <1>7, <1>8 DEF SectionNext, InSection

\* A lock's word is 1 exactly while some task is in a section of it.
THEOREM WordTells ==
  ASSUME MaxHeld = 1
  PROVE  SectionSpec => []WordTellsHeld
<1>1. SectionInit => WordInv
  BY DEF SectionInit, WordInv, Within
<1>2. SectionInv /\ WordInv => WordTellsHeld
  <2> SUFFICES ASSUME SectionInv, WordInv, NEW l \in Locks
               PROVE  lock[l] = 1 <=> \E t \in Tasks : Holds(t, l) /\ pc[t] \in Within
    BY DEF WordTellsHeld, Within
  <2>1. \A t \in Tasks : pc[t] \in Within => t = running
    BY DEF SectionInv, Within
  <2>2. ASSUME pc[running] \in Within
        PROVE  Holds(running, l) <=> held[running][1][1] = l
    BY <2>2 DEF SectionInv, Within, Holds
  <2>3. lock[l] = 1 <=> pc[running] \in Within /\ held[running][1][1] = l
    BY DEF WordInv
  <2> QED
    BY <2>1, <2>2, <2>3 DEF SectionInv
<1> QED
  BY <1>1, <1>2, SectionInvInit, SectionInvStep, WordInvStep, PTL DEF SectionSpec
=============================================================================
