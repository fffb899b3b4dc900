--------------------------- MODULE FreeListProofs ---------------------------
(***************************************************************************)
(* For a page of any size and any requests: the heap's blocks tile their   *)
(* page after any sequence of calls, neighbours in the free list are       *)
(* merged, and kmalloc implements Heap.                                    *)
(***************************************************************************)
EXTENDS FreeList, FiniteSetTheorems, WellFoundedInduction, TLAPS

-----------------------------------------------------------------------------
(***************************************************************************)
(* Following pointers.  A list is f[0], f[1], ... where each element leads *)
(* to the next; such an f is a recursive function, and the lemmas here     *)
(* show that it exists and satisfies its own equation.  Induction is by    *)
(* the least natural number for which a claim fails.                       *)
(***************************************************************************)

\* Every set of natural numbers that is not empty has a least element.
LEMMA LeastNat ==
  ASSUME NEW S \in SUBSET Nat, S # {}
  PROVE  \E n \in S : \A m \in S : n <= m
<1> DEFINE R == OpToRel(<, Nat)
<1>1. \E x \in S : \A y \in S : ~ (<<y, x>> \in R)
  <2>1. IsWellFoundedOn(R, Nat)
    BY NatLessThanWellFounded, Zenon
  <2> HIDE DEF R
  <2> QED
    BY <2>1, WFMin, Zenon
<1>2. PICK x \in S : \A y \in S : ~ (<<y, x>> \in R)
  BY <1>1, Zenon
<1>3. \A y \in S : ~ (y < x)
  BY <1>2, Zenon DEF OpToRel
<1> QED
  BY <1>3

\* A set of natural numbers that has 0, and with each number the next one, has all.
LEMMA NatClosed ==
  ASSUME NEW S, 0 \in S, \A n \in Nat : n \in S => n + 1 \in S
  PROVE  Nat \subseteq S
<1> DEFINE T == Nat \ S
<1>1. SUFFICES ASSUME T # {}
               PROVE  FALSE
  OBVIOUS
<1>2. PICK m \in T : \A k \in T : m <= k
  BY <1>1, LeastNat
<1>3. m # 0 /\ m - 1 \in Nat /\ m - 1 \notin T
  BY <1>2
<1> QED
  BY <1>2, <1>3

\* The first n elements and one more, from b on.
Partial(D, b, step, n) ==
  {g \in [0 .. n -> D] : g[0] = b /\ \A i \in 0 .. n - 1 : g[i + 1] = step[g[i]]}

LEMMA PartialExists ==
  ASSUME NEW D, NEW b \in D, NEW step \in [D -> D], NEW n \in Nat
  PROVE  Partial(D, b, step, n) # {}
<1> DEFINE S == {k \in Nat : Partial(D, b, step, k) # {}}
<1>1. 0 \in S
  <2>1. [i \in 0 .. 0 |-> b] \in Partial(D, b, step, 0)
    BY DEF Partial
  <2> QED
    BY <2>1
<1>2. ASSUME NEW k \in Nat, k \in S
      PROVE  k + 1 \in S
  <2>1. PICK g : g \in Partial(D, b, step, k)
    BY <1>2
  <2> DEFINE h == [i \in 0 .. k + 1 |-> IF i = k + 1 THEN step[g[k]] ELSE g[i]]
  <2>2. g \in [0 .. k -> D] /\ g[0] = b /\ \A i \in 0 .. k - 1 : g[i + 1] = step[g[i]]
    BY <2>1 DEF Partial
  <2>3. h \in [0 .. k + 1 -> D] /\ h[0] = b
    BY <2>2
  <2>4. \A i \in 0 .. (k + 1) - 1 : h[i + 1] = step[h[i]]
    BY <2>2
  <2>5. h \in Partial(D, b, step, k + 1)
    BY <2>3, <2>4 DEF Partial
  <2> QED
    BY <2>5
<1> HIDE DEF S
<1>3. Nat \subseteq S
  BY <1>1, <1>2, NatClosed
<1> QED
  BY <1>3 DEF S

LEMMA PartialAgree ==
  ASSUME NEW D, NEW b \in D, NEW step \in [D -> D], NEW m \in Nat, NEW n \in Nat,
         NEW g \in Partial(D, b, step, m), NEW h \in Partial(D, b, step, n),
         NEW i \in Nat, i <= m, i <= n
  PROVE  g[i] = h[i]
<1> DEFINE S == {k \in Nat : k <= m /\ k <= n => g[k] = h[k]}
<1>1. 0 \in S
  BY DEF Partial
<1>2. ASSUME NEW k \in Nat, k \in S
      PROVE  k + 1 \in S
  <2> SUFFICES ASSUME k + 1 <= m, k + 1 <= n
               PROVE  g[k + 1] = h[k + 1]
    OBVIOUS
  <2>1. g[k] = h[k] /\ k \in 0 .. m - 1 /\ k \in 0 .. n - 1
    BY <1>2
  <2> QED
    BY <2>1 DEF Partial
<1> HIDE DEF S
<1>3. Nat \subseteq S
  BY <1>1, <1>2, NatClosed
<1> QED
  BY <1>3 DEF S

\* From any element one can go on forever, by a step that stays in D.
LEMMA IterationExists ==
  ASSUME NEW D, NEW b \in D, NEW step \in [D -> D]
  PROVE  \E f \in [Nat -> D] : f[0] = b /\ \A n \in Nat : f[n + 1] = step[f[n]]
<1> DEFINE p(n) == CHOOSE g : g \in Partial(D, b, step, n)
           f == [n \in Nat |-> p(n)[n]]
<1>1. \A n \in Nat : p(n) \in Partial(D, b, step, n)
  BY PartialExists
<1>2. ASSUME NEW n \in Nat
      PROVE  f[n] \in D /\ f[n + 1] = step[f[n]]
  <2> DEFINE g == p(n)
             h == p(n + 1)
  <2>1. g \in Partial(D, b, step, n) /\ h \in Partial(D, b, step, n + 1)
    BY <1>1
  <2>2. f[n] = g[n] /\ f[n + 1] = h[n + 1]
    OBVIOUS
  <2> HIDE DEF g, h, f, p
  <2>3. g[n] = h[n]
    BY <2>1, PartialAgree
  <2>4. g[n] \in D /\ h[n + 1] = step[h[n]]
    BY <2>1 DEF Partial
  <2> QED
    BY <2>2, <2>3, <2>4
<1>3. f[0] = b
  BY <1>1 DEF Partial
<1>4. f \in [Nat -> D]
  BY <1>2
<1> HIDE DEF f, p
<1> QED
  BY <1>2, <1>3, <1>4

-----------------------------------------------------------------------------
(* The free list as a set *)

\* The free list of h has the blocks F, in the order of their addresses.  ROOT lies
\* before every address.
Sorted(F, h) ==
  /\ \A b \in F : b \in Addrs
  /\ \A b \in F \cup {ROOT} :
       /\ h[b].next \in F \cup {NULL}
       /\ h[b].next = NULL => \A c \in F : c <= b
       /\ h[b].next # NULL => /\ b < h[b].next
                              /\ \A c \in F : b < c => h[b].next <= c

LEMMA AddrsFinite == IsFiniteSet(Addrs) /\ Cardinality(Addrs) \in Nat
<1>1. IsFiniteSet(0 .. PAGE_SIZE - 1)
  BY FreeListAssumption, FS_Interval
<1>2. Addrs \subseteq 0 .. PAGE_SIZE - 1
  BY DEF Addrs
<1> QED
  BY <1>1, <1>2, FS_Subset, FS_CardinalityType

\* The definition of Element is one of a function: following the list never ends.
LEMMA ElementIs ==
  ASSUME NEW F, Sorted(F, hdr)
  PROVE  /\ Element \in [Nat -> F \cup {NULL}]
         /\ Element[0] = hdr[ROOT].next
         /\ \A i \in Nat : Element[i + 1] = After(Element[i])
<1> DEFINE D == F \cup {NULL}
           first == hdr[ROOT].next
           step == [b \in D |-> After(b)]
           Is(f) == f = [i \in Nat |-> IF i = 0 THEN hdr[ROOT].next ELSE After(f[i - 1])]
<1>1. first \in D /\ step \in [D -> D]
  BY DEF Sorted, After
<1>2. PICK f \in [Nat -> D] :
        f[0] = first /\ \A n \in Nat : f[n + 1] = step[f[n]]
  <2> HIDE DEF D, first, step
  <2> QED
    BY <1>1, IterationExists
<1>3. \A n \in Nat : f[n + 1] = After(f[n])
  BY <1>2
<1>4. \A i \in Nat : f[i] = IF i = 0 THEN hdr[ROOT].next ELSE After(f[i - 1])
  BY <1>2, <1>3
<1>5. Is(f)
  BY <1>2, <1>4
<1>6. Is(Element)
  BY <1>5 DEF Element
<1>7. \A i \in Nat : Element[i] = IF i = 0 THEN hdr[ROOT].next ELSE After(Element[i - 1])
  BY <1>6
<1>8. Element[0] = hdr[ROOT].next /\ \A i \in Nat : Element[i + 1] = After(Element[i])
  BY <1>7
<1>9. \A i \in Nat : Element[i] \in D
  <2> DEFINE S == {i \in Nat : Element[i] \in D}
  <2>1. 0 \in S
    BY <1>1, <1>8
  <2>2. \A n \in Nat : n \in S => n + 1 \in S
    BY <1>1, <1>8
  <2> HIDE DEF S
  <2>3. Nat \subseteq S
    BY <2>1, <2>2, NatClosed
  <2> QED
    BY <2>3 DEF S
<1> QED
  BY <1>6, <1>8, <1>9

\* What following the list meets are the blocks of F, all of them.
LEMMA FreeBlocksAre ==
  ASSUME NEW F, Sorted(F, hdr)
  PROVE  FreeBlocks = F
<1> DEFINE E == Element
<1>1. /\ E \in [Nat -> F \cup {NULL}] /\ E[0] = hdr[ROOT].next
      /\ \A i \in Nat : E[i + 1] = After(E[i])
  BY ElementIs
<1> HIDE DEF E
<1>2. (\A b \in F : b \in Nat) /\ NULL \notin F
  BY DEF Sorted, Addrs, NULL
<1>a. ASSUME NEW i \in Nat, E[i] \in F
      PROVE  /\ E[i + 1] = hdr[E[i]].next /\ E[i + 1] \in F \cup {NULL}
             /\ \A c \in F : E[i] < c => E[i + 1] \in F /\ E[i] < E[i + 1] /\ E[i + 1] <= c
  <2>1. E[i + 1] = hdr[E[i]].next /\ E[i + 1] \in F \cup {NULL}
    BY <1>1, <1>2, <1>a DEF After
  <2>2. ASSUME NEW c \in F, E[i] < c
        PROVE  E[i + 1] \in F /\ E[i] < E[i + 1] /\ E[i + 1] <= c
    BY <1>2, <1>a, <2>1, <2>2 DEF Sorted
  <2> QED
    BY <2>1, <2>2
<1>3. FreeBlocks = {E[i] : i \in 0 .. Cardinality(Addrs)} \ {NULL}
  BY DEF E, FreeBlocks
<1>4. FreeBlocks \subseteq F
  BY <1>1, <1>3, AddrsFinite
<1>5. ASSUME NEW c \in F
      PROVE  c \in FreeBlocks
  <2> DEFINE Short(i) == \A j \in 0 .. i : E[j] \in F /\ E[j] < c
  <2>1. ASSUME NEW i \in Nat, Short(i)
        PROVE  E[i] >= i
    <3> DEFINE S == {k \in Nat : k <= i => E[k] >= k}
    <3>1. 0 \in S
      BY <1>1, <1>2, <2>1
    <3>2. ASSUME NEW k \in Nat, k \in S
          PROVE  k + 1 \in S
      <4> SUFFICES ASSUME k + 1 <= i
                   PROVE  E[k + 1] >= k + 1
        OBVIOUS
      <4>1. E[k] >= k /\ E[k] \in F /\ E[k] < c
        BY <2>1, <3>2
      <4>2. E[k + 1] \in F /\ E[k] < E[k + 1]
        BY <1>a, <4>1
      <4> QED
        BY <1>2, <4>1, <4>2
    <3> HIDE DEF S
    <3>3. Nat \subseteq S
      BY <3>1, <3>2, NatClosed
    <3> QED
      BY <3>3 DEF S
  <2>2. PICK i \in Nat : ~ Short(i) /\ \A j \in Nat : ~ Short(j) => i <= j
    <3> DEFINE S == {j \in Nat : ~ Short(j)}
    <3>1. ~ Short(c)
      BY <1>2, <2>1
    <3>2. S # {} /\ S \subseteq Nat
      BY <1>2, <3>1
    <3> HIDE DEF S
    <3>3. \E j \in S : \A k \in S : j <= k
      BY <3>2, LeastNat
    <3> QED
      BY <3>3 DEF S
  <2>3. E[i] \notin F \/ E[i] >= c
    BY <1>2, <2>2
  <2>4. \A j \in 0 .. i - 1 : E[j] \in F /\ E[j] < c
    BY <2>2
  <2>5. E[i] = c
    <3>1. CASE i = 0
      BY <1>1, <1>2, <2>3, <3>1 DEF Sorted, ROOT
    <3>2. CASE i # 0
      <4>1. i - 1 \in Nat /\ E[i - 1] \in F /\ E[i - 1] < c /\ (i - 1) + 1 = i
        BY <2>4, <3>2
      <4> QED
        BY <1>2, <1>a, <2>3, <4>1
    <3> QED
      BY <3>1, <3>2
  <2>6. i <= Cardinality(Addrs)
    <3> DEFINE met == [j \in 1 .. i |-> E[j - 1]]
    <3>1. \A j \in 0 .. i - 1 : E[j] \in Addrs
      BY <2>4 DEF Sorted
    <3>2. \A k \in Nat : k < i => \A j \in 0 .. k - 1 : E[j] < E[k]
      <4> DEFINE S == {k \in Nat : k < i => \A j \in 0 .. k - 1 : E[j] < E[k]}
      <4>1. 0 \in S
        OBVIOUS
      <4>2. ASSUME NEW k \in Nat, k \in S
            PROVE  k + 1 \in S
        <5> SUFFICES ASSUME k + 1 < i, NEW j \in 0 .. k
                     PROVE  E[j] < E[k + 1]
          OBVIOUS
        <5>1. E[k] \in F /\ E[k] < c /\ E[j] \in F
          BY <2>4
        <5>2. E[k] < E[k + 1] /\ E[k + 1] \in F
          BY <1>a, <5>1
        <5>3. j = k \/ E[j] < E[k]
          BY <4>2
        <5> QED
          BY <1>2, <5>1, <5>2, <5>3
      <4> HIDE DEF S
      <4>3. Nat \subseteq S
        BY <4>1, <4>2, NatClosed
      <4> QED
        BY <4>3 DEF S
    <3>3. met \in [1 .. i -> Addrs]
      BY <3>1
    <3>4. \A j, k \in 1 .. i : j < k => met[j] < met[k]
      BY <3>2
    <3>5. \A j, k \in 1 .. i : met[j] = met[k] => j = k
      <4> SUFFICES ASSUME NEW j \in 1 .. i, NEW k \in 1 .. i, met[j] = met[k], j # k
                   PROVE  FALSE
        OBVIOUS
      <4>1. met[j] \in Nat
        BY <3>3 DEF Addrs
      <4>2. j < k \/ k < j
        OBVIOUS
      <4> HIDE DEF met
      <4> QED
        BY <3>4, <4>1, <4>2
    <3> HIDE DEF met
    <3>6. met \in Injection(1 .. i, Addrs)
      BY <3>3, <3>5 DEF Injection, IsInjective
    <3>7. Cardinality(1 .. i) <= Cardinality(Addrs)
      BY <3>6, AddrsFinite, FS_Injection
    <3>8. Cardinality(1 .. i) = i
      BY FS_Interval
    <3> QED
      BY <3>7, <3>8
  <2> QED
    BY <1>2, <1>3, <2>5, <2>6, AddrsFinite
<1> QED
  BY <1>4, <1>5

-----------------------------------------------------------------------------
(* The inductive invariant *)

\* The blocks B tile the page: none overlaps another, together they cover it.
Tiles(B, h) ==
  /\ \A b \in B : /\ b \in Addrs
                  /\ h[b].size % BLOCK_ALIGN_SIZE = 0 /\ h[b].size > HEADER_SIZE
                  /\ b + h[b].size <= PAGE_SIZE
  /\ \A b, c \in B : b < c => b + h[b].size <= c
  /\ \A a \in Addrs : \E b \in B : b <= a /\ a < b + h[b].size

\* No block of F touches another one.
Apart(F, h) == \A b, c \in F : b < c => b + h[b].size < c

\* kmalloc_malloc() has passed only blocks that are too small.
MallocInv(F) ==
  op = "malloc" =>
    /\ asked \in Requests
    /\ p_prev \in F \cup {ROOT} /\ p_block = hdr[p_prev].next
    /\ \A b \in F : b <= p_prev => hdr[b].size < BlockSize(asked)

\* kmalloc_free() has passed only blocks before the one it was given.
FreeInv(F) ==
  op = "free" =>
    /\ p_block \in Addrs /\ p_block \notin F /\ p_block \notin DOMAIN live
    /\ p_prev \in F \cup {ROOT} /\ p_prev < p_block

Blocks(F) == F \cup DOMAIN live \cup InFlight

HeapInv(F) ==
  /\ Sorted(F, hdr)
  /\ Tiles(Blocks(F), hdr)
  /\ Apart(F, hdr)
  /\ \A b \in F : b \notin DOMAIN live
  /\ \A b \in DOMAIN live : hdr[b].size >= HEADER_SIZE + live[b]
  /\ op # "malloc" => asked = 0
  /\ MallocInv(F)
  /\ FreeInv(F)

Inv == TypeOK /\ \E F \in SUBSET Addrs : HeapInv(F)

-----------------------------------------------------------------------------
(* Blocks *)

LEMMA BlockSizeIs ==
  ASSUME NEW n \in Requests
  PROVE  /\ n \in Nat /\ n > 0
         /\ BlockSize(n) \in Nat /\ BlockSize(n) % BLOCK_ALIGN_SIZE = 0
         /\ BlockSize(n) >= n + HEADER_SIZE /\ BlockSize(n) > HEADER_SIZE
<1>1. n \in Nat /\ n > 0
  BY FreeListAssumption
<1> QED
  BY <1>1 DEF BlockSize, MemAlign, BLOCK_ALIGN_SIZE, HEADER_SIZE

LEMMA AddrsAre ==
  \A a \in Addrs : /\ a \in Nat /\ a < PAGE_SIZE /\ a % 16 = 0
                   /\ a # ROOT /\ a # NULL /\ ROOT < a /\ NULL < a
BY FreeListAssumption DEF Addrs, ROOT, NULL, BLOCK_ALIGN_SIZE

\* What TypeOK says of the headers.
Headers == [Addrs \cup {ROOT} -> [next : Addrs \cup {NULL}, size : 0 .. PAGE_SIZE]]

\* Taking a block out of the list.
LEMMA UnlinkKeeps ==
  ASSUME NEW F, NEW h, NEW g, NEW p \in F \cup {ROOT}, NEW q \in F,
         Sorted(F, h), h[p].next = q, g[p].next = h[q].next,
         \A b \in F \cup {ROOT} : b # p /\ b # q => g[b].next = h[b].next
  PROVE  Sorted(F \ {q}, g) /\ p < q
<1>1. /\ p \in Int /\ q \in Int /\ ROOT \in Int /\ ROOT \notin F
      /\ \A b \in F : b \in Addrs /\ b \in Int /\ b # NULL /\ ROOT < b
  <2>1. \A b \in F : b \in Addrs
    BY DEF Sorted
  <2> QED
    BY <2>1, AddrsAre DEF ROOT
<1>2. p < q /\ \A c \in F : p < c => q <= c
  BY <1>1 DEF Sorted
<1>3. /\ h[q].next \in F \cup {NULL}
      /\ h[q].next # NULL => h[q].next \in F /\ h[q].next \in Int
      /\ h[q].next = NULL => \A c \in F : c <= q
      /\ h[q].next # NULL => q < h[q].next /\ \A c \in F : q < c => h[q].next <= c
  BY <1>1 DEF Sorted
<1>4. ASSUME NEW b \in (F \ {q}) \cup {ROOT}
      PROVE  /\ g[b].next \in (F \ {q}) \cup {NULL}
             /\ g[b].next = NULL => \A c \in F \ {q} : c <= b
             /\ g[b].next # NULL => /\ b < g[b].next
                                    /\ \A c \in F \ {q} : b < c => g[b].next <= c
  <2>1. CASE b = p
    <3>1. g[b].next \in (F \ {q}) \cup {NULL}
      BY <1>1, <1>3, <2>1
    <3>2. g[b].next = NULL => \A c \in F \ {q} : c <= b
      BY <1>1, <1>2, <1>3, <2>1
    <3>3. ASSUME g[b].next # NULL
          PROVE  b < g[b].next /\ \A c \in F \ {q} : b < c => g[b].next <= c
      BY <1>1, <1>2, <1>3, <2>1, <3>3
    <3> QED
      BY <3>1, <3>2, <3>3
  <2>2. CASE b # p
    <3>1. g[b].next = h[b].next /\ b \in Int
      BY <1>1, <2>2
    <3>2. h[b].next # q
      <4> SUFFICES ASSUME h[b].next = q
                   PROVE  FALSE
        OBVIOUS
      <4>1. b < q /\ \A c \in F : b < c => q <= c
        BY <1>1 DEF Sorted
      <4>2. ~ (b < p /\ p \in F)
        BY <1>1, <1>2, <3>1, <4>1
      <4>3. b \in F /\ p < b
        BY <1>1, <2>2, <3>1, <4>2
      <4> QED
        BY <1>1, <1>2, <3>1, <4>1, <4>3
    <3> QED
      BY <3>1, <3>2 DEF Sorted
  <2> QED
    BY <2>1, <2>2
<1> QED
  BY <1>1, <1>2, <1>4 DEF Sorted

\* Putting one in at its place.
LEMMA LinkKeeps ==
  ASSUME NEW F, NEW h, NEW g, NEW p \in F \cup {ROOT}, NEW q \in Addrs, q \notin F,
         Sorted(F, h), p < q, h[p].next = NULL \/ q < h[p].next,
         g[p].next = q, g[q].next = h[p].next,
         \A b \in F \cup {ROOT} : b # p => g[b].next = h[b].next
  PROVE  Sorted(F \cup {q}, g)
<1>1. /\ p \in Int /\ ROOT \in Int /\ q \in Int /\ q # NULL /\ ROOT < q
      /\ \A b \in F : b \in Addrs /\ b \in Int /\ b # NULL /\ ROOT < b
  <2>1. \A b \in F : b \in Addrs
    BY DEF Sorted
  <2> QED
    BY <2>1, AddrsAre DEF ROOT
<1>2. /\ h[p].next \in F \cup {NULL}
      /\ h[p].next # NULL => h[p].next \in F /\ h[p].next \in Int
      /\ h[p].next = NULL => \A c \in F : c <= p
      /\ h[p].next # NULL => p < h[p].next /\ \A c \in F : p < c => h[p].next <= c
  BY <1>1 DEF Sorted
<1>3. \A c \in F : p < c => q < c
  <2> TAKE c \in F
  <2>1. c \in Int
    BY <1>1
  <2>2. CASE h[p].next = NULL
    BY <1>1, <1>2, <2>1, <2>2
  <2>3. CASE h[p].next # NULL
    <3>1. h[p].next \in Int /\ q < h[p].next
      BY <1>2, <2>3
    <3> QED
      BY <1>1, <1>2, <2>1, <2>3, <3>1
  <2> QED
    BY <2>2, <2>3
<1>4. ASSUME NEW b \in (F \cup {q}) \cup {ROOT}
      PROVE  /\ g[b].next \in (F \cup {q}) \cup {NULL}
             /\ g[b].next = NULL => \A c \in F \cup {q} : c <= b
             /\ g[b].next # NULL => /\ b < g[b].next
                                    /\ \A c \in F \cup {q} : b < c => g[b].next <= c
  <2>1. CASE b = p
    <3>1. g[b].next = q /\ \A c \in F : b < c => q <= c
      BY <1>1, <1>3, <2>1
    <3> QED
      BY <1>1, <2>1, <3>1
  <2>2. CASE b = q
    <3>1. g[b].next = NULL => \A c \in F \cup {q} : c <= b
      BY <1>1, <1>2, <2>2
    <3>2. ASSUME g[b].next # NULL
          PROVE  b < g[b].next /\ \A c \in F \cup {q} : b < c => g[b].next <= c
      <4>1. h[p].next \in Int /\ q < h[p].next
        BY <1>1, <1>2, <2>2, <3>2
      <4> QED
        BY <1>1, <1>2, <1>3, <2>2, <3>2, <4>1
    <3> QED
      BY <1>2, <2>2, <3>1, <3>2
  <2>3. CASE b # p /\ b # q
    <3>1. g[b].next = h[b].next /\ b \in Int /\ b \in F \cup {ROOT}
      BY <1>1, <2>3
    <3>2. /\ h[b].next \in F \cup {NULL}
          /\ h[b].next = NULL => \A c \in F : c <= b
          /\ h[b].next # NULL => b < h[b].next /\ \A c \in F : b < c => h[b].next <= c
      BY <3>1 DEF Sorted
    <3>3. p < b => q < b
      BY <1>1, <1>3, <3>1
    <3>4. b < p => p \in F
      BY <1>1, <3>1
    <3>5. ASSUME h[b].next = NULL
          PROVE  q <= b
      BY <1>1, <2>3, <3>1, <3>2, <3>3, <3>4, <3>5
    <3>6. ASSUME h[b].next # NULL, b < q
          PROVE  h[b].next <= q
      <4>1. h[b].next \in F /\ h[b].next \in Int
        BY <1>1, <3>2, <3>6
      <4>2. b < p /\ p \in F
        BY <1>1, <2>3, <3>1, <3>3, <3>4, <3>6
      <4>3. h[b].next <= p
        BY <3>2, <3>6, <4>2
      <4> QED
        BY <1>1, <4>1, <4>3
    <3> QED
      BY <3>1, <3>2, <3>5, <3>6
  <2> QED
    BY <2>1, <2>2, <2>3
<1> QED
  BY <1>1, <1>4 DEF Sorted

\* Whether blocks tile the page depends on their sizes only.
LEMMA TilesSame ==
  ASSUME NEW B, NEW h, NEW g, Tiles(B, h), \A b \in B : g[b].size = h[b].size
  PROVE  Tiles(B, g)
BY DEF Tiles

\* Combining two neighbours of the free list that touch keeps it sorted and keeps
\* the page tiled.
Combined(F, B, h, g, p, q) ==
  /\ h \in Headers /\ p \in F /\ q \in F /\ \A b \in F : b \in B
  /\ Sorted(F, h) /\ Tiles(B, h)
  /\ h[p].next = q /\ CanCoalesce(h, p, q)
  /\ g = Combine(h, p, q)

Merged(B, h, g, p, q) ==
  /\ \A b \in B \cup {ROOT} : b # p /\ b # q => g[b] = h[b]
  /\ g[p].size = h[p].size + h[q].size

LEMMA CombineKeeps ==
  ASSUME NEW F, NEW B, NEW h, NEW g, NEW p, NEW q, Combined(F, B, h, g, p, q)
  PROVE  /\ g \in Headers
         /\ Sorted(F \ {q}, g)
         /\ Tiles(B \ {q}, g)
         /\ Merged(B, h, g, p, q)
         /\ p < q
<1>0. /\ h \in Headers /\ p \in F /\ q \in F /\ \A b \in F : b \in B
      /\ Sorted(F, h) /\ Tiles(B, h) /\ h[p].next = q /\ CanCoalesce(h, p, q)
      /\ g = Combine(h, p, q)
  BY DEF Combined
<1>1. /\ PAGE_SIZE \in Nat
      /\ p \in Nat /\ q \in Nat /\ p \in Addrs /\ q \in Addrs /\ p \in B /\ q \in B
      /\ \A b \in B : b \in Addrs /\ b \in Nat
      /\ \A b \in Addrs : h[b].size \in Nat
  BY <1>0, FreeListAssumption, AddrsAre DEF Headers, Tiles
<1>2. p < q /\ h[q].next # q /\ h[q].next # p
  BY <1>0, AddrsAre, <1>1 DEF Sorted, NULL
<1>3. /\ p + h[p].size = q /\ q + h[q].size <= PAGE_SIZE
      /\ h[p].size + h[q].size \in 0 .. PAGE_SIZE
  BY <1>0, <1>1 DEF CanCoalesce, Tiles
<1>4. /\ g[p] = [next |-> h[q].next, size |-> h[p].size + h[q].size]
      /\ g[q] = [next |-> NULL, size |-> 0]
      /\ \A b \in Addrs \cup {ROOT} : b # p /\ b # q => g[b] = h[b]
  BY <1>0, <1>1, <1>2 DEF Combine, Headers
<1>5. g \in Headers
  <2> DEFINE r == [next |-> h[q].next, size |-> h[p].size + h[q].size]
             z == [next |-> NULL, size |-> 0]
  <2>1. r \in [next : Addrs \cup {NULL}, size : 0 .. PAGE_SIZE]
    BY <1>0, <1>1, <1>3 DEF Headers
  <2>2. z \in [next : Addrs \cup {NULL}, size : 0 .. PAGE_SIZE]
    BY <1>0, <1>1
  <2>3. g = [h EXCEPT ![p] = r, ![q] = z]
    BY <1>0 DEF Combine
  <2> HIDE DEF r, z
  <2> QED
    BY <1>0, <2>1, <2>2, <2>3 DEF Headers
<1>6. Sorted(F \ {q}, g)
  <2>1. g[p].next = h[q].next /\ p \in F \cup {ROOT}
    BY <1>0, <1>4
  <2>2. \A b \in F \cup {ROOT} : b # p /\ b # q => g[b].next = h[b].next
    BY <1>0, <1>1, <1>4
  <2> QED
    BY <1>0, <2>1, <2>2, UnlinkKeeps
<1>7. Tiles(B \ {q}, g)
  <2>0. \A b \in B : /\ h[b].size % 16 = 0 /\ h[b].size > HEADER_SIZE
                     /\ b + h[b].size <= PAGE_SIZE
    BY <1>0 DEF Tiles, BLOCK_ALIGN_SIZE
  <2>1. ASSUME NEW b \in B \ {q}
        PROVE  /\ b \in Addrs
               /\ g[b].size % 16 = 0 /\ g[b].size > HEADER_SIZE
               /\ b + g[b].size <= PAGE_SIZE
    <3>1. CASE b = p
      BY <1>0, <1>1, <1>3, <1>4, <2>0, <3>1 DEF HEADER_SIZE
    <3>2. CASE b # p
      BY <1>0, <1>1, <1>4, <2>0, <3>2
    <3> QED
      BY <1>0, <3>1, <3>2
  <2>2. ASSUME NEW b \in B \ {q}, NEW c \in B \ {q}, b < c
        PROVE  b + g[b].size <= c
    <3>0. \A d, e \in B : d < e => d + h[d].size <= e
      BY <1>0 DEF Tiles
    <3>1. CASE b = p
      <4>1. q < c
        BY <1>0, <1>1, <1>3, <2>2, <3>0, <3>1
      <4> QED
        BY <1>0, <1>1, <1>3, <1>4, <3>0, <3>1, <4>1
    <3>2. CASE b # p
      BY <1>0, <1>1, <1>4, <2>2, <3>0, <3>2
    <3> QED
      BY <1>0, <3>1, <3>2
  <2>3. ASSUME NEW a \in Addrs
        PROVE  \E b \in B \ {q} : b <= a /\ a < b + g[b].size
    <3>1. PICK b \in B : b <= a /\ a < b + h[b].size
      BY <1>0 DEF Tiles
    <3>2. CASE b = p \/ b = q
      BY <1>0, <1>1, <1>2, <1>3, <1>4, <3>1, <3>2, AddrsAre
    <3>3. CASE b # p /\ b # q
      BY <1>0, <1>1, <1>4, <3>1, <3>3
    <3> QED
      BY <1>0, <3>2, <3>3
  <2> QED
    BY <1>0, <2>1, <2>2, <2>3 DEF Tiles, BLOCK_ALIGN_SIZE
<1> QED
  BY <1>0, <1>1, <1>2, <1>4, <1>5, <1>6, <1>7 DEF Merged

\* The end q of the block p becomes a block of its own.
Splits(B, h, g, p, q) ==
  /\ h \in Headers /\ p \in B
  /\ g[q].size \in Nat /\ g[q].size % 16 = 0 /\ g[q].size > HEADER_SIZE
  /\ g[p].size = h[p].size - g[q].size /\ g[p].size > HEADER_SIZE
  /\ q = p + g[p].size
  /\ \A b \in B : b # p /\ b # q => g[b].size = h[b].size

LEMMA SplitKeeps ==
  ASSUME NEW B, NEW h, NEW g, NEW p, NEW q,
         Tiles(B, h), Splits(B, h, g, p, q)
  PROVE  /\ q \in Addrs /\ q \notin B
         /\ Tiles(B \cup {q}, g)
<1>1. /\ PAGE_SIZE \in Nat
      /\ \A b \in B : /\ b \in Addrs /\ b \in Nat /\ b % 16 = 0 /\ h[b].size \in Nat
                      /\ h[b].size % 16 = 0 /\ h[b].size > 16 /\ b + h[b].size <= PAGE_SIZE
      /\ \A b, c \in B : b < c => b + h[b].size <= c
  <2>1. \A b \in B : h[b].size \in Nat
    BY DEF Tiles, Headers, Splits
  <2> QED
    BY <2>1, FreeListAssumption, AddrsAre DEF Tiles, BLOCK_ALIGN_SIZE, HEADER_SIZE
<1> DEFINE n == g[q].size
<1>2. /\ p \in B /\ p \in Nat /\ p % 16 = 0 /\ p + h[p].size <= PAGE_SIZE
      /\ h[p].size \in Nat /\ h[p].size % 16 = 0
      /\ n > 16 /\ n \in Nat /\ n % 16 = 0
      /\ h[p].size - n > 16 /\ g[p].size = h[p].size - n
      /\ q = p + (h[p].size - n) /\ g[q].size = n
      /\ \A b \in B : b # p /\ b # q => g[b].size = h[b].size
  BY <1>1 DEF HEADER_SIZE, Splits
<1> HIDE DEF n
<1>3. q \in Nat /\ q % 16 = 0 /\ p < q /\ q + n = p + h[p].size /\ q < PAGE_SIZE
  <2> DEFINE s == h[p].size
  <2>1. /\ PAGE_SIZE \in Nat /\ p \in Nat /\ s \in Nat /\ n \in Nat /\ q = p + (s - n)
        /\ p % 16 = 0 /\ s % 16 = 0 /\ n % 16 = 0
        /\ p + s <= PAGE_SIZE /\ n > 16 /\ s - n > 16
    BY <1>1, <1>2
  <2> HIDE DEF s
  <2>2. q \in Nat /\ p < q /\ q + n = p + s /\ q < PAGE_SIZE
    BY <2>1
  <2>3. q % 16 = 0
    BY <2>1
  <2> QED
    BY <2>2, <2>3 DEF s
<1>4. q \in Addrs
  BY <1>3, FreeListAssumption DEF Addrs, BLOCK_ALIGN_SIZE
<1>5. q \notin B
  BY <1>1, <1>2, <1>3
<1>6. ASSUME NEW b \in B \cup {q}
      PROVE  /\ b \in Addrs
             /\ g[b].size % 16 = 0 /\ g[b].size > 16
             /\ b + g[b].size <= PAGE_SIZE
  <2>1. CASE b = p
    BY <1>1, <1>2, <2>1
  <2>2. CASE b = q
    BY <1>1, <1>2, <1>3, <1>4, <2>2
  <2>3. CASE b # p /\ b # q
    BY <1>1, <1>2, <2>3
  <2> QED
    BY <2>1, <2>2, <2>3
<1>7. ASSUME NEW b \in B \cup {q}, NEW c \in B \cup {q}, b < c
      PROVE  b + g[b].size <= c
  <2>1. CASE b = p
    BY <1>1, <1>2, <1>3, <1>7, <2>1
  <2>2. CASE b = q
    <3>1. c \in B /\ c \in Nat /\ p < c
      BY <1>1, <1>2, <1>3, <1>7, <2>2
    <3>2. p + h[p].size <= c
      BY <1>1, <1>2, <3>1
    <3> QED
      BY <1>2, <1>3, <2>2, <3>1, <3>2
  <2>3. CASE b # p /\ b # q /\ c = q
    <3>1. b \in B /\ b < p
      <4>1. b \in B /\ b \in Nat /\ b < q
        BY <1>1, <1>7, <2>3
      <4>2. p < b => p + h[p].size <= b
        BY <1>1, <1>2, <4>1
      <4> QED
        BY <1>2, <1>3, <2>3, <4>1, <4>2
    <3>2. b + h[b].size <= p /\ h[b].size \in Nat /\ b \in Nat /\ p \in Nat
      BY <1>1, <1>2, <3>1
    <3> QED
      BY <1>2, <1>3, <2>3, <3>1, <3>2
  <2>4. CASE b # p /\ b # q /\ c # q
    BY <1>1, <1>2, <1>7, <2>4
  <2> QED
    BY <2>1, <2>2, <2>3, <2>4
<1>8. ASSUME NEW a \in Addrs
      PROVE  \E b \in B \cup {q} : b <= a /\ a < b + g[b].size
  <2>1. PICK b \in B : b <= a /\ a < b + h[b].size
    BY DEF Tiles
  <2>2. CASE b = p
    <3>1. a \in Nat
      BY AddrsAre
    <3> QED
      BY <1>1, <1>2, <1>3, <2>1, <2>2, <3>1
  <2>3. CASE b # p
    BY <1>2, <1>5, <2>1, <2>3
  <2> QED
    BY <2>2, <2>3
<1> QED
  BY <1>4, <1>5, <1>6, <1>7, <1>8 DEF Tiles, BLOCK_ALIGN_SIZE, HEADER_SIZE

-----------------------------------------------------------------------------
(* kmalloc_malloc() keeps the invariant *)

LEMMA InvGives ==
  ASSUME TypeOK, NEW F \in SUBSET Addrs, HeapInv(F)
  PROVE  /\ hdr \in Headers /\ PAGE_SIZE \in Nat
         /\ \A b \in Blocks(F) : /\ b \in Addrs /\ b \in Nat
                                 /\ hdr[b].size \in Nat /\ hdr[b].size % 16 = 0
                                 /\ hdr[b].size > 16 /\ b + hdr[b].size <= PAGE_SIZE
         /\ \A b, c \in Blocks(F) : b < c => b + hdr[b].size <= c
         /\ \A b \in F : b \in Blocks(F) /\ b \in Nat /\ ROOT < b /\ b # NULL /\ b # ROOT
         /\ \A b \in DOMAIN live : b \in Blocks(F)
<1>1. hdr \in Headers /\ PAGE_SIZE \in Nat
  BY FreeListAssumption DEF TypeOK, Headers
<1>2. ASSUME NEW b \in Blocks(F)
      PROVE  /\ b \in Addrs /\ b \in Nat
             /\ hdr[b].size \in Nat /\ hdr[b].size % 16 = 0
             /\ hdr[b].size > 16 /\ b + hdr[b].size <= PAGE_SIZE
  <2>1. /\ b \in Addrs /\ hdr[b].size % 16 = 0
        /\ hdr[b].size > 16 /\ b + hdr[b].size <= PAGE_SIZE
    BY DEF HeapInv, Tiles, HEADER_SIZE, BLOCK_ALIGN_SIZE
  <2> QED
    BY <1>1, <2>1, AddrsAre DEF Headers
<1>3. \A b, c \in Blocks(F) : b < c => b + hdr[b].size <= c
  BY DEF HeapInv, Tiles
<1> QED
  BY <1>1, <1>2, <1>3, AddrsAre DEF Blocks

LEMMA MallocKeeps ==
  ASSUME Inv, NEW n \in Requests, Malloc(n)
  PROVE  Inv'
<1>1. PICK F \in SUBSET Addrs : HeapInv(F)
  BY DEF Inv
<1>2. hdr[ROOT].next \in Addrs \cup {NULL}
  BY DEF Inv, TypeOK
<1>3. TypeOK'
  BY <1>2 DEF Inv, TypeOK, Malloc
<1>4. Blocks(F)' = Blocks(F)
  BY DEF Blocks, InFlight, Malloc
<1>5. MallocInv(F)'
  <2>1. \A b \in F : ~ (b <= ROOT)
    BY <1>1, InvGives DEF Inv, ROOT
  <2> QED
    BY <2>1 DEF MallocInv, Malloc
<1>6. HeapInv(F)'
  BY <1>1, <1>4, <1>5 DEF HeapInv, FreeInv, Malloc
<1> QED
  BY <1>3, <1>6 DEF Inv

LEMMA MallocNextKeeps ==
  ASSUME Inv, MallocNext
  PROVE  Inv'
<1>1. PICK F \in SUBSET Addrs : HeapInv(F)
  BY DEF Inv
<1>2. /\ op = "malloc" /\ asked \in Requests /\ p_block = hdr[p_prev].next
      /\ p_prev \in F \cup {ROOT} /\ p_block \in F
      /\ p_prev < p_block /\ \A b \in F : p_prev < b => p_block <= b
  BY <1>1 DEF HeapInv, MallocInv, MallocNext, Searching, Sorted
<1>3. TypeOK'
  <2>1. hdr[p_block].next \in Addrs \cup {NULL}
    BY <1>2 DEF Inv, TypeOK
  <2> QED
    BY <1>2, <2>1 DEF Inv, TypeOK, MallocNext
<1>4. Blocks(F)' = Blocks(F)
  BY <1>2 DEF Blocks, InFlight, MallocNext
<1>5. MallocInv(F)'
  <2>1. ASSUME NEW b \in F, b <= p_block
        PROVE  hdr[b].size < BlockSize(asked)
    <3>1. /\ b \in Nat /\ hdr[b].size \in Nat /\ BlockSize(asked) \in Nat
          /\ p_block \in Nat /\ hdr[p_block].size \in Nat /\ p_prev \in Int
      BY <1>1, <1>2, InvGives, BlockSizeIs DEF Inv, ROOT
    <3>2. CASE b <= p_prev
      BY <1>1, <1>2, <3>2 DEF HeapInv, MallocInv
    <3>3. CASE ~ (b <= p_prev)
      <4>1. b = p_block
        BY <1>2, <2>1, <3>1, <3>3
      <4> QED
        BY <3>1, <4>1 DEF MallocNext, Remain
    <3> QED
      BY <3>2, <3>3
  <2> QED
    BY <1>2, <2>1 DEF MallocInv, MallocNext
<1>6. HeapInv(F)'
  BY <1>1, <1>2, <1>4, <1>5 DEF HeapInv, FreeInv, MallocNext
<1> QED
  BY <1>3, <1>6 DEF Inv

LEMMA MallocFailsKeeps ==
  ASSUME Inv, MallocFails
  PROVE  Inv'
<1>1. PICK F \in SUBSET Addrs : HeapInv(F)
  BY DEF Inv
<1>2. TypeOK'
  BY DEF Inv, TypeOK, MallocFails, Return
<1>3. Blocks(F)' = Blocks(F)
  BY DEF Blocks, InFlight, MallocFails, Return
<1>4. HeapInv(F)'
  BY <1>1, <1>3 DEF HeapInv, MallocInv, FreeInv, MallocFails, Return
<1> QED
  BY <1>2, <1>4 DEF Inv

LEMMA MallocWholeKeeps ==
  ASSUME Inv, MallocWhole
  PROVE  Inv'
<1>1. PICK F \in SUBSET Addrs : HeapInv(F)
  BY DEF Inv
<1>2. /\ op = "malloc" /\ asked \in Requests /\ p_block = hdr[p_prev].next
      /\ p_prev \in F \cup {ROOT} /\ p_block \in F
  BY <1>1 DEF HeapInv, MallocInv, MallocWhole, Searching, Sorted
<1>a. PICK G : G = F \ {p_block}
  OBVIOUS
<1>3. /\ hdr' = [hdr EXCEPT ![p_prev].next = hdr[p_block].next]
      /\ DOMAIN live' = DOMAIN live \cup {p_block}
      /\ live'[p_block] = asked /\ \A b \in DOMAIN live : b # p_block => live'[b] = live[b]
      /\ op' = "idle" /\ asked' = 0 /\ p_prev' = ROOT /\ p_block' = NULL
  BY DEF MallocWhole, Hand, Return
<1>4. /\ hdr'[p_prev].next = hdr[p_block].next
      /\ \A b \in Addrs \cup {ROOT} : b # p_prev => hdr'[b] = hdr[b]
      /\ \A b \in Addrs : hdr'[b].size = hdr[b].size
  BY <1>2, <1>3 DEF Inv, TypeOK
<1>5. TypeOK'
  <2>1. hdr' \in [Addrs \cup {ROOT} -> [next : Addrs \cup {NULL}, size : 0 .. PAGE_SIZE]]
    BY <1>2, <1>3 DEF Inv, TypeOK
  <2> QED
    BY <1>2, <1>3, <2>1 DEF Inv, TypeOK
<1>6. Sorted(G, hdr')
  <2>1. Sorted(F, hdr)
    BY <1>1 DEF HeapInv
  <2>2. \A b \in F \cup {ROOT} : b # p_prev => hdr'[b].next = hdr[b].next
    BY <1>4
  <2> QED
    BY <1>2, <1>a, <1>4, <2>1, <2>2, UnlinkKeeps
<1>7. Blocks(G)' = Blocks(F)
  <2>1. InFlight = {} /\ InFlight' = {}
    BY <1>2, <1>3 DEF InFlight
  <2> QED
    BY <1>2, <1>a, <1>3, <2>1 DEF Blocks
<1>8. Tiles(Blocks(F), hdr')
  <2>1. Tiles(Blocks(F), hdr) /\ \A b \in Blocks(F) : b \in Addrs
    BY <1>1 DEF HeapInv, Tiles
  <2> QED
    BY <1>4, <2>1, TilesSame
<1>9. Apart(G, hdr')
  BY <1>1, <1>a, <1>4 DEF HeapInv, Apart
<1>10. ASSUME NEW b \in DOMAIN live'
       PROVE  hdr'[b].size >= HEADER_SIZE + live'[b]
  <2>1. CASE b = p_block
    <3>1. /\ hdr'[b].size = hdr[p_block].size /\ hdr[p_block].size \in Nat
          /\ hdr[p_block].size - BlockSize(asked) >= 0 /\ live'[b] = asked
      BY <1>1, <1>2, <1>3, <1>4, <2>1, InvGives DEF MallocWhole, Remain, Inv
    <3> QED
      BY <1>2, <3>1, BlockSizeIs DEF HEADER_SIZE
  <2>2. CASE b # p_block
    <3>1. b \in DOMAIN live /\ live'[b] = live[b] /\ b \in Addrs
      BY <1>3, <2>2 DEF Inv, TypeOK
    <3> QED
      BY <1>1, <1>4, <3>1 DEF HeapInv
  <2> QED
    BY <2>1, <2>2
<1>11. HeapInv(G)'
  BY <1>1, <1>a, <1>3, <1>6, <1>7, <1>8, <1>9, <1>10 DEF HeapInv, MallocInv, FreeInv
<1> QED
  BY <1>a, <1>5, <1>11 DEF Inv

LEMMA MallocSplitKeeps ==
  ASSUME Inv, MallocSplit
  PROVE  Inv'
<1>1. PICK F \in SUBSET Addrs : HeapInv(F)
  BY DEF Inv
<1>2. /\ op = "malloc" /\ asked \in Requests
      /\ p_prev \in F \cup {ROOT} /\ p_block \in F
  BY <1>1 DEF HeapInv, MallocInv, MallocSplit, Searching, Sorted
<1>3. PICK n, new : n = BlockSize(asked) /\ new = p_block + (hdr[p_block].size - n)
  OBVIOUS
<1>4. /\ n \in Nat /\ n % 16 = 0 /\ n > HEADER_SIZE /\ n >= asked + HEADER_SIZE /\ asked \in Nat
  BY <1>2, <1>3, BlockSizeIs DEF BLOCK_ALIGN_SIZE
<1>5. /\ hdr[p_block].size - n >= SmallestRemain
      /\ hdr' = [hdr EXCEPT ![p_block].size = hdr[p_block].size - n,
                            ![new] = [next |-> NULL, size |-> n]]
      /\ DOMAIN live' = DOMAIN live \cup {new}
      /\ live'[new] = asked /\ \A b \in DOMAIN live : b # new => live'[b] = live[b]
      /\ op' = "idle" /\ asked' = 0 /\ p_prev' = ROOT /\ p_block' = NULL
  BY <1>3 DEF MallocSplit, Remain, Hand, Return
<1>6. /\ hdr \in Headers /\ PAGE_SIZE \in Nat /\ p_block \in Addrs /\ p_block \in Nat
      /\ p_block \in Blocks(F) /\ hdr[p_block].size \in Nat /\ hdr[p_block].size <= PAGE_SIZE
      /\ p_block + hdr[p_block].size <= PAGE_SIZE
      /\ p_block % 16 = 0 /\ hdr[p_block].size % 16 = 0
      /\ \A b \in Blocks(F) : hdr[b].size \in Nat
      /\ Tiles(Blocks(F), hdr)
  BY <1>1, <1>2, InvGives, AddrsAre DEF Inv, HeapInv
<1>7. new \in Nat /\ new # p_block /\ new < PAGE_SIZE /\ new # ROOT /\ new \in Addrs
  <2>1. new \in Nat /\ new # p_block /\ new < PAGE_SIZE
    BY <1>3, <1>4, <1>5, <1>6 DEF SmallestRemain, HEADER_SIZE
  <2>2. new % 16 = 0
    BY <1>3, <1>4, <1>6
  <2>3. new \in Addrs
    BY <1>6, <2>1, <2>2 DEF Addrs, BLOCK_ALIGN_SIZE
  <2> QED
    BY <2>1, <2>3, AddrsAre
<1>8. /\ hdr'[p_block].next = hdr[p_block].next
      /\ hdr'[p_block].size = hdr[p_block].size - n
      /\ hdr'[new] = [next |-> NULL, size |-> n]
      /\ \A b \in Addrs \cup {ROOT} : b # p_block /\ b # new => hdr'[b] = hdr[b]
  BY <1>5, <1>6, <1>7 DEF Headers
<1>9. new \notin Blocks(F) /\ Tiles(Blocks(F) \cup {new}, hdr')
  <2>1. \A b \in Blocks(F) : b # p_block /\ b # new => hdr'[b].size = hdr[b].size
    BY <1>1, <1>8, InvGives DEF Inv
  <2>2. /\ hdr'[new].size = n /\ hdr'[p_block].size = hdr[p_block].size - hdr'[new].size
        /\ hdr'[p_block].size > HEADER_SIZE /\ new = p_block + hdr'[p_block].size
        /\ hdr'[new].size \in Nat /\ hdr'[new].size % 16 = 0 /\ hdr'[new].size > HEADER_SIZE
    BY <1>3, <1>4, <1>5, <1>6, <1>8 DEF SmallestRemain, HEADER_SIZE
  <2>3. Splits(Blocks(F), hdr, hdr', p_block, new)
    BY <1>6, <2>1, <2>2 DEF Splits
  <2> QED
    BY <1>6, <2>3, SplitKeeps
<1>10. TypeOK'
  <2> DEFINE r == hdr[p_block].size - n
             z == [next |-> NULL, size |-> n]
  <2>1. r \in 0 .. PAGE_SIZE /\ n \in 0 .. PAGE_SIZE
    BY <1>4, <1>5, <1>6 DEF SmallestRemain, HEADER_SIZE
  <2>2. z \in [next : Addrs \cup {NULL}, size : 0 .. PAGE_SIZE]
    BY <2>1
  <2>3. hdr' = [hdr EXCEPT ![p_block].size = r, ![new] = z]
    BY <1>5
  <2> HIDE DEF r, z
  <2>4. hdr' \in [Addrs \cup {ROOT} -> [next : Addrs \cup {NULL}, size : 0 .. PAGE_SIZE]]
    BY <1>6, <2>1, <2>2, <2>3 DEF Headers
  <2> QED
    BY <1>2, <1>5, <1>7, <2>4 DEF Inv, TypeOK
<1>11. Sorted(F, hdr')
  <2>1. \A b \in F \cup {ROOT} : hdr'[b].next = hdr[b].next
    BY <1>7, <1>8, <1>9 DEF Blocks
  <2> QED
    BY <1>1, <2>1 DEF HeapInv, Sorted
<1>12. Blocks(F)' = Blocks(F) \cup {new}
  <2>1. InFlight = {} /\ InFlight' = {}
    BY <1>2, <1>5 DEF InFlight
  <2> QED
    BY <1>5, <2>1 DEF Blocks
<1>13. Apart(F, hdr')
  <2> SUFFICES ASSUME NEW b \in F, NEW c \in F, b < c
               PROVE  b + hdr'[b].size < c
    BY DEF Apart
  <2>1. b + hdr[b].size < c /\ b \in Nat /\ c \in Nat /\ hdr[b].size \in Nat /\ b # new
    BY <1>1, <1>9, InvGives DEF Inv, HeapInv, Apart, Blocks
  <2>2. CASE b = p_block
    BY <1>4, <1>8, <2>1, <2>2
  <2>3. CASE b # p_block
    BY <1>8, <2>1, <2>3
  <2> QED
    BY <2>2, <2>3
<1>14. ASSUME NEW b \in DOMAIN live'
       PROVE  hdr'[b].size >= HEADER_SIZE + live'[b]
  <2>1. CASE b = new
    BY <1>4, <1>5, <1>8, <2>1 DEF HEADER_SIZE
  <2>2. CASE b # new
    <3>1. b \in DOMAIN live /\ live'[b] = live[b] /\ b \in Addrs /\ b # p_block
      BY <1>1, <1>2, <1>5, <2>2 DEF Inv, TypeOK, HeapInv
    <3> QED
      BY <1>1, <1>8, <2>2, <3>1 DEF HeapInv
  <2> QED
    BY <2>1, <2>2
<1>15. \A b \in F : b \notin DOMAIN live'
  BY <1>1, <1>5, <1>9 DEF HeapInv, Blocks
<1>16. HeapInv(F)'
  BY <1>5, <1>9, <1>11, <1>12, <1>13, <1>14, <1>15 DEF HeapInv, MallocInv, FreeInv
<1> QED
  BY <1>10, <1>16 DEF Inv

-----------------------------------------------------------------------------
(* kmalloc_free() keeps it *)

LEMMA FreeKeeps ==
  ASSUME Inv, NEW b \in DOMAIN live, Free(b)
  PROVE  Inv'
<1>1. PICK F \in SUBSET Addrs : HeapInv(F)
  BY DEF Inv
<1>2. /\ op = "idle" /\ op' = "free" /\ p_block' = b /\ p_prev' = ROOT
      /\ hdr' = hdr /\ asked' = asked
      /\ DOMAIN live' = DOMAIN live \ {b} /\ \A a \in DOMAIN live' : live'[a] = live[a]
  BY DEF Free
<1>3. b \in Addrs /\ ROOT < b /\ b \notin F
  BY <1>1, AddrsAre DEF Inv, TypeOK, HeapInv
<1>4. TypeOK'
  BY <1>2, <1>3 DEF Inv, TypeOK
<1>5. Blocks(F)' = Blocks(F)
  <2>1. InFlight = {} /\ InFlight' = {b}
    BY <1>2 DEF InFlight
  <2> QED
    BY <1>2, <2>1 DEF Blocks
<1>6. HeapInv(F)'
  BY <1>1, <1>2, <1>3, <1>5 DEF HeapInv, MallocInv, FreeInv
<1> QED
  BY <1>4, <1>6 DEF Inv

LEMMA FreeNextKeeps ==
  ASSUME Inv, FreeNext
  PROVE  Inv'
<1>1. PICK F \in SUBSET Addrs : HeapInv(F)
  BY DEF Inv
<1>2. p_prev' \in F /\ p_prev' < p_block /\ op = "free"
  BY <1>1 DEF FreeNext, Before, HeapInv, FreeInv, Sorted
<1>3. TypeOK'
  BY <1>2 DEF Inv, TypeOK, FreeNext
<1>4. Blocks(F)' = Blocks(F)
  BY <1>2 DEF Blocks, InFlight, FreeNext
<1>5. HeapInv(F)'
  BY <1>1, <1>2, <1>4 DEF HeapInv, MallocInv, FreeInv, FreeNext
<1> QED
  BY <1>3, <1>5 DEF Inv

\* The list has the blocks F, it and the blocks L tile the page.
Listed(F, L, h) ==
  /\ h \in Headers
  /\ Sorted(F, h)
  /\ Tiles(F \cup L, h)
  /\ \A b \in F : b \notin L

\* The block given back is in the list; nothing else in it touches.
Inserted(F, L, h) ==
  /\ Listed(F, L, h)
  /\ p_block \in F /\ p_prev \in F \cup {ROOT} /\ h[p_prev].next = p_block
  /\ \A b, c \in F : b < c /\ b # p_block /\ c # p_block => b + h[b].size < c

\* It has been merged with the one behind it, if it can be.
NextDone(F, L, h) ==
  /\ Inserted(F, L, h)
  /\ \A c \in F : p_block < c => p_block + h[p_block].size < c

LEMMA ListedGives ==
  ASSUME NEW F, NEW L, NEW h, Listed(F, L, h)
  PROVE  /\ \A b \in F : /\ b \in Addrs /\ b \in Nat /\ b # NULL /\ ROOT < b /\ b # ROOT
                         /\ h[b].size \in Nat
         /\ \A b, c \in F : b < c => b + h[b].size <= c
<1>1. \A b \in F : b \in Addrs
  BY DEF Listed, Sorted
<1>2. \A b \in Addrs : h[b].size \in Nat
  BY FreeListAssumption DEF Listed, Headers
<1> QED
  BY <1>1, <1>2, AddrsAre DEF Listed, Tiles

LEMMA LinkedIs ==
  ASSUME Inv, NEW F \in SUBSET Addrs, HeapInv(F), op = "free", ~ Before
  PROVE  /\ Inserted(F \cup {p_block}, DOMAIN live, Linked(hdr))
         /\ \A b \in DOMAIN live : Linked(hdr)[b].size = hdr[b].size
<1> DEFINE h == Linked(hdr)
           p == p_block
<1>1. /\ p \in Addrs /\ p \notin F /\ p \notin DOMAIN live
      /\ p_prev \in F \cup {ROOT} /\ p_prev < p
      /\ hdr \in Headers /\ Sorted(F, hdr) /\ \A b \in DOMAIN live : b \in Addrs
  BY InvGives DEF HeapInv, FreeInv, Inv, TypeOK
<1>2. \A b \in F \cup {p} : b \in Nat /\ b # ROOT /\ b \in Addrs
  BY <1>1, AddrsAre
<1>3. p # p_prev
  BY <1>1, <1>2, AddrsAre
<1>4. /\ h \in Headers
      /\ h[p].next = hdr[p_prev].next /\ h[p_prev].next = p
      /\ \A b \in Addrs \cup {ROOT} : b # p /\ b # p_prev => h[b].next = hdr[b].next
      /\ \A b \in Addrs \cup {ROOT} : h[b].size = hdr[b].size
  BY <1>1, <1>3 DEF Linked, Headers
<1> HIDE DEF h
<1>5. hdr[p_prev].next = NULL \/ p < hdr[p_prev].next
  <2>1. hdr[p_prev].next \in F \cup {NULL}
    BY <1>1 DEF Sorted
  <2> QED
    BY <1>1, <1>2, <2>1 DEF Before
<1>6. Sorted(F \cup {p}, h)
  <2>1. \A b \in F \cup {ROOT} : b # p_prev => h[b].next = hdr[b].next
    BY <1>1, <1>2, <1>4
  <2> HIDE DEF p
  <2> QED
    BY <1>1, <1>4, <1>5, <2>1, LinkKeeps
<1>7. Tiles((F \cup {p}) \cup DOMAIN live, h)
  <2>1. Blocks(F) = (F \cup {p}) \cup DOMAIN live
    BY DEF Blocks, InFlight
  <2>2. Tiles(Blocks(F), hdr)
    BY DEF HeapInv
  <2>3. \A b \in Blocks(F) : h[b].size = hdr[b].size
    BY <1>1, <1>2, <1>4, <2>1
  <2> QED
    BY <2>1, <2>2, <2>3, TilesSame
<1>8. \A b, c \in F \cup {p} : b < c /\ b # p /\ c # p => b + h[b].size < c
  BY <1>2, <1>4 DEF HeapInv, Apart
<1>9. \A b \in F \cup {p} : b \notin DOMAIN live
  BY <1>1 DEF HeapInv
<1> QED
  BY <1>1, <1>4, <1>6, <1>7, <1>8, <1>9 DEF Inserted, Listed, h

LEMMA CoalesceNextIs ==
  ASSUME NEW F, NEW L, NEW h, Inserted(F, L, h)
  PROVE  \E G \in SUBSET F :
           /\ NextDone(G, L, CoalesceNext(h))
           /\ \A b \in L : CoalesceNext(h)[b].size = h[b].size
<1>0. PICK p, q : p = p_block /\ q = h[p_block].next
  OBVIOUS
<1>1. /\ Listed(F, L, h) /\ p \in F /\ p_prev \in F \cup {ROOT} /\ h[p_prev].next = p
      /\ q \in F \cup {NULL}
      /\ q = NULL => \A c \in F : c <= p
      /\ q # NULL => p < q /\ \A c \in F : p < c => q <= c
      /\ p_prev < p
      /\ \A b, c \in F : b < c /\ b # p /\ c # p => b + h[b].size < c
  <2>1. p # NULL
    BY <1>0, ListedGives DEF Inserted
  <2> QED
    BY <1>0, <2>1 DEF Inserted, Listed, Sorted
<1>2. /\ \A b \in F : b \in Addrs /\ b \in Nat /\ h[b].size \in Nat /\ b # NULL
      /\ p_prev \in Int /\ p \in Nat /\ h[p].size \in Nat
  <2>1. \A b \in F : b \in Addrs /\ b \in Nat /\ h[b].size \in Nat /\ b # NULL
    BY <1>1, ListedGives
  <2> QED
    BY <1>1, <2>1 DEF ROOT
<1>3. CASE q # NULL /\ CanCoalesce(h, p, q)
  <2>0. PICK g : g = Combine(h, p, q)
    OBVIOUS
  <2>1. CoalesceNext(h) = g
    BY <1>0, <1>3, <2>0 DEF CoalesceNext
  <2>2. q \in F /\ q \in Nat /\ h[q].size \in Nat /\ p + h[p].size = q
    BY <1>1, <1>2, <1>3 DEF CanCoalesce
  <2>3. /\ g \in Headers /\ Sorted(F \ {q}, g) /\ Tiles((F \cup L) \ {q}, g)
        /\ \A b \in (F \cup L) \cup {ROOT} : b # p /\ b # q => g[b] = h[b]
        /\ g[p].size = h[p].size + h[q].size
        /\ p < q
    <3>1. /\ h \in Headers /\ Sorted(F, h) /\ Tiles(F \cup L, h)
          /\ \A b \in F : b \in F \cup L
      BY <1>1 DEF Listed
    <3>2. Combined(F, F \cup L, h, g, p, q)
      BY <1>0, <1>1, <1>3, <2>0, <2>2, <3>1 DEF Combined
    <3>3. g \in Headers /\ Merged(F \cup L, h, g, p, q)
      BY <3>2, CombineKeeps
    <3> QED
      BY <3>2, <3>3, CombineKeeps DEF Merged
  <2>4. PICK G : G = F \ {q}
    OBVIOUS
  <2>5. (F \cup L) \ {q} = G \cup L /\ \A b \in G : b \notin L
    BY <1>1, <2>2, <2>4 DEF Listed
  <2>6. Listed(G, L, g)
    BY <2>3, <2>4, <2>5 DEF Listed
  <2>7. p \in G /\ p_prev \in G \cup {ROOT}
    BY <1>1, <1>2, <2>2, <2>3, <2>4
  <2>8. g[p_prev].next = p
    BY <1>1, <1>2, <2>2, <2>3, <2>7
  <2>9. \A b, c \in G : b < c /\ b # p /\ c # p => b + g[b].size < c
    BY <1>1, <2>3, <2>4
  <2>10. \A c \in G : p < c => p + g[p].size < c
    <3> SUFFICES ASSUME NEW c \in G, p < c
                 PROVE  p + g[p].size < c
      OBVIOUS
    <3>1. c \in F /\ q < c /\ c \in Nat
      BY <1>1, <1>2, <1>3, <2>2, <2>4
    <3>2. q + h[q].size < c
      BY <1>1, <1>2, <2>2, <3>1
    <3> QED
      BY <1>2, <2>2, <2>3, <3>1, <3>2
  <2>11. \A b \in L : g[b].size = h[b].size
    BY <1>1, <2>2, <2>3 DEF Listed
  <2> QED
    BY <1>0, <2>1, <2>4, <2>6, <2>7, <2>8, <2>9, <2>10, <2>11 DEF NextDone, Inserted
<1>4. CASE ~ (q # NULL /\ CanCoalesce(h, p, q))
  <2>1. CoalesceNext(h) = h
    BY <1>0, <1>4 DEF CoalesceNext
  <2>2. \A c \in F : p < c => p + h[p].size < c
    <3> SUFFICES ASSUME NEW c \in F, p < c
                 PROVE  p + h[p].size < c
      OBVIOUS
    <3>0. q # NULL
      BY <1>1, <1>2
    <3>1. q \in F /\ q \in Nat /\ c \in Nat /\ q <= c /\ p + h[p].size # q
      BY <1>1, <1>2, <1>4, <3>0 DEF CanCoalesce
    <3>2. p + h[p].size <= q
      BY <1>1, <3>1, ListedGives
    <3> QED
      BY <1>2, <3>1, <3>2
  <2> QED
    BY <1>0, <2>1, <2>2 DEF NextDone
<1> QED
  BY <1>3, <1>4

LEMMA CoalescePrevIs ==
  ASSUME NEW F, NEW L, NEW h, NextDone(F, L, h)
  PROVE  \E G \in SUBSET F :
           /\ Listed(G, L, CoalescePrev(h)) /\ Apart(G, CoalescePrev(h))
           /\ \A b \in L : CoalescePrev(h)[b].size = h[b].size
<1>0. PICK p, q : p = p_prev /\ q = p_block
  OBVIOUS
<1>1. /\ Listed(F, L, h) /\ q \in F /\ p \in F \cup {ROOT} /\ h[p].next = q
      /\ p < q /\ \A c \in F : p < c => q <= c
      /\ \A b, c \in F : b < c /\ b # q /\ c # q => b + h[b].size < c
      /\ \A c \in F : q < c => q + h[q].size < c
  <2>1. q # NULL
    BY <1>0, ListedGives DEF NextDone, Inserted
  <2> QED
    BY <1>0, <2>1 DEF NextDone, Inserted, Listed, Sorted
<1>2. /\ \A b \in F : b \in Addrs /\ b \in Nat /\ h[b].size \in Nat
      /\ p \in Int /\ q \in Nat /\ h[q].size \in Nat
      /\ \A b, c \in F : b < c => b + h[b].size <= c
  <2>1. /\ \A b \in F : b \in Addrs /\ b \in Nat /\ h[b].size \in Nat
        /\ \A b, c \in F : b < c => b + h[b].size <= c
    BY <1>1, ListedGives
  <2> QED
    BY <1>1, <2>1 DEF ROOT
<1>3. CASE p # ROOT /\ CanCoalesce(h, p, q)
  <2>0. PICK g : g = Combine(h, p, q)
    OBVIOUS
  <2>1. CoalescePrev(h) = g
    BY <1>0, <1>3, <2>0 DEF CoalescePrev
  <2>2. p \in F /\ p \in Nat /\ h[p].size \in Nat /\ p + h[p].size = q
    BY <1>1, <1>2, <1>3 DEF CanCoalesce
  <2>3. Combined(F, F \cup L, h, g, p, q)
    BY <1>1, <1>3, <2>0, <2>2 DEF Combined, Listed
  <2>4. /\ g \in Headers /\ Sorted(F \ {q}, g) /\ Tiles((F \cup L) \ {q}, g)
        /\ Merged(F \cup L, h, g, p, q)
    BY <2>3, CombineKeeps
  <2>5. /\ \A b \in F \cup L : b # p /\ b # q => g[b] = h[b]
        /\ g[p].size = h[p].size + h[q].size
    BY <2>4 DEF Merged
  <2>6. PICK G : G = F \ {q}
    OBVIOUS
  <2>7. (F \cup L) \ {q} = G \cup L /\ \A b \in G : b \notin L
    BY <1>1, <2>6 DEF Listed
  <2>8. Listed(G, L, g)
    BY <2>4, <2>6, <2>7 DEF Listed
  <2>9. Apart(G, g)
    <3> SUFFICES ASSUME NEW b \in G, NEW c \in G, b < c
                 PROVE  b + g[b].size < c
      BY DEF Apart
    <3>1. CASE b = p
      <4>1. c \in Nat /\ q < c
        BY <1>1, <1>2, <2>6, <3>1
      <4>2. q + h[q].size < c
        BY <1>1, <2>6, <4>1
      <4> QED
        BY <1>2, <2>2, <2>5, <3>1, <4>1, <4>2
    <3>2. CASE b # p
      BY <1>1, <2>5, <2>6, <3>2
    <3> QED
      BY <3>1, <3>2
  <2>10. \A b \in L : g[b].size = h[b].size
    BY <1>1, <2>2, <2>5 DEF Listed
  <2> QED
    BY <2>1, <2>6, <2>8, <2>9, <2>10
<1>4. CASE ~ (p # ROOT /\ CanCoalesce(h, p, q))
  <2>1. CoalescePrev(h) = h
    BY <1>0, <1>4 DEF CoalescePrev
  <2>2. Apart(F, h)
    <3> SUFFICES ASSUME NEW b \in F, NEW c \in F, b < c
                 PROVE  b + h[b].size < c
      BY DEF Apart
    <3>1. CASE c = q
      <4>0. b \in Nat /\ h[b].size \in Nat /\ b < q /\ p \in Int /\ q \in Nat
        BY <1>2, <3>1
      <4>1. ~ (p < b) /\ b \in Nat /\ h[b].size \in Nat
        BY <1>1, <4>0
      <4>2. CASE b = p
        <5>1. b + h[b].size <= q /\ b + h[b].size # q
          BY <1>1, <1>2, <1>4, <3>1, <4>2, AddrsAre DEF CanCoalesce
        <5> QED
          BY <1>2, <3>1, <4>1, <5>1
      <4>3. CASE b # p
        <5>1. b < p /\ p \in F
          BY <1>1, <1>2, <4>1, <4>3, AddrsAre
        <5>2. b + h[b].size <= p
          BY <1>2, <5>1
        <5> QED
          BY <1>1, <1>2, <3>1, <4>1, <5>2
      <4> QED
        BY <4>2, <4>3
    <3>2. CASE c # q
      BY <1>1, <3>2
    <3> QED
      BY <3>1, <3>2
  <2> QED
    BY <1>1, <2>1, <2>2
<1> QED
  BY <1>3, <1>4

LEMMA FreeInsertKeeps ==
  ASSUME Inv, FreeInsert
  PROVE  /\ Inv'
         /\ \A b \in DOMAIN live : hdr'[b].size = hdr[b].size
<1>1. PICK E \in SUBSET Addrs : HeapInv(E)
  BY DEF Inv
<1>2. PICK L : L = DOMAIN live
  OBVIOUS
<1>3. PICK h1, h2, h3 : /\ h1 = Linked(hdr) /\ h2 = CoalesceNext(h1)
                        /\ h3 = CoalescePrev(h2)
  OBVIOUS
<1>4. op = "free" /\ ~ Before /\ p_block \in Addrs
  BY <1>1 DEF FreeInsert, HeapInv, FreeInv
<1>5. PICK F : F = E \cup {p_block} /\ F \in SUBSET Addrs
  BY <1>4
<1>6. Inserted(F, L, h1) /\ \A b \in L : h1[b].size = hdr[b].size
  BY <1>1, <1>2, <1>3, <1>4, <1>5, LinkedIs
<1>7. PICK G2 \in SUBSET F : NextDone(G2, L, h2) /\ \A b \in L : h2[b].size = h1[b].size
  BY <1>3, <1>6, CoalesceNextIs
<1>8. PICK G \in SUBSET G2 : /\ Listed(G, L, h3) /\ Apart(G, h3)
                             /\ \A b \in L : h3[b].size = h2[b].size
  BY <1>3, <1>7, CoalescePrevIs
<1>9. \A b \in L : h3[b].size = hdr[b].size
  BY <1>6, <1>7, <1>8
<1>10. /\ hdr' = h3 /\ live' = live /\ op' = "idle" /\ asked' = 0
       /\ p_prev' = ROOT /\ p_block' = NULL
  BY <1>3 DEF FreeInsert, Return
<1>11. TypeOK'
  BY <1>8, <1>10 DEF Inv, TypeOK, Listed, Headers
<1>12. Blocks(G)' = G \cup L
  <2>1. InFlight' = {}
    BY <1>10 DEF InFlight
  <2> QED
    BY <1>2, <1>10, <2>1 DEF Blocks
<1>13. HeapInv(G)'
  <2>1. Sorted(G, hdr') /\ Tiles(Blocks(G)', hdr') /\ Apart(G, hdr')
    BY <1>8, <1>10, <1>12 DEF Listed
  <2>2. \A b \in G : b \notin DOMAIN live'
    BY <1>2, <1>8, <1>10 DEF Listed
  <2>3. \A b \in DOMAIN live' : hdr'[b].size >= HEADER_SIZE + live'[b]
    BY <1>1, <1>2, <1>9, <1>10 DEF HeapInv
  <2> QED
    BY <1>10, <2>1, <2>2, <2>3 DEF HeapInv, MallocInv, FreeInv
<1> QED
  BY <1>2, <1>5, <1>9, <1>10, <1>11, <1>13 DEF Inv

-----------------------------------------------------------------------------
(* The client keeps it *)

LEMMA ClientWritesKeeps ==
  ASSUME Inv, NEW b \in DOMAIN live, ClientWrites(b)
  PROVE  /\ Inv'
         /\ \A a \in DOMAIN live : hdr'[a].size = hdr[a].size
<1>1. PICK F \in SUBSET Addrs : HeapInv(F)
  BY DEF Inv
<1>2. PICK mem : mem = {a \in Addrs : b + HEADER_SIZE <= a /\ a < b + HEADER_SIZE + live[b]}
  OBVIOUS
<1>3. /\ hdr' = [a \in DOMAIN hdr |-> IF a \in mem THEN [next |-> 0, size |-> PAGE_SIZE]
                                    ELSE hdr[a]]
      /\ live' = live /\ op' = op /\ asked' = asked /\ p_prev' = p_prev /\ p_block' = p_block
      /\ op = "idle"
  BY <1>2 DEF ClientWrites
<1>4. hdr' \in Headers
  <2>1. [next |-> 0, size |-> PAGE_SIZE] \in [next : Addrs \cup {NULL}, size : 0 .. PAGE_SIZE]
    BY FreeListAssumption DEF Addrs, HEADER_SIZE, BLOCK_ALIGN_SIZE
  <2> QED
    BY <1>3, <2>1 DEF Inv, TypeOK, Headers
<1>5. \A a \in Blocks(F) \cup {ROOT} : a \notin mem
  <2> SUFFICES ASSUME NEW a \in Blocks(F), a \in mem
               PROVE  FALSE
    BY <1>2, AddrsAre
  <2>1. /\ a \in Nat /\ b \in Nat /\ hdr[b].size \in Nat /\ live[b] \in Nat
        /\ b \in Blocks(F) /\ hdr[b].size >= 16 + live[b]
    BY <1>1, InvGives, BlockSizeIs DEF Inv, TypeOK, HeapInv, HEADER_SIZE
  <2>2. b < a /\ a < b + hdr[b].size
    BY <1>2, <2>1 DEF HEADER_SIZE
  <2> QED
    BY <1>1, <2>1, <2>2, InvGives DEF Inv
<1>6. \A a \in Blocks(F) \cup {ROOT} : hdr'[a] = hdr[a]
  BY <1>1, <1>3, <1>5, InvGives DEF Inv, TypeOK
<1>7. Blocks(F)' = Blocks(F)
  BY <1>3 DEF Blocks, InFlight
<1>8. Sorted(F, hdr')
  <2>1. \A a \in F \cup {ROOT} : hdr'[a] = hdr[a]
    BY <1>6 DEF Blocks
  <2> QED
    BY <1>1, <2>1 DEF HeapInv, Sorted
<1>9. Tiles(Blocks(F), hdr')
  BY <1>1, <1>6, TilesSame DEF HeapInv
<1>10. Apart(F, hdr')
  BY <1>1, <1>6 DEF HeapInv, Apart, Blocks
<1>11. \A a \in DOMAIN live : hdr'[a].size = hdr[a].size
  BY <1>6 DEF Blocks
<1>12. TypeOK'
  BY <1>3, <1>4 DEF Inv, TypeOK, Headers
<1>13. HeapInv(F)'
  BY <1>1, <1>3, <1>7, <1>8, <1>9, <1>10, <1>11 DEF HeapInv, MallocInv, FreeInv
<1> QED
  BY <1>11, <1>12, <1>13 DEF Inv

-----------------------------------------------------------------------------
(* The theorems *)

LEMMA InvInit == Init => Inv
<1> SUFFICES ASSUME Init
             PROVE  Inv
  OBVIOUS
<1>1. 0 \in Addrs /\ 0 # ROOT /\ PAGE_SIZE \in Nat /\ PAGE_SIZE > 16 /\ PAGE_SIZE % 16 = 0
  BY FreeListAssumption DEF Addrs, ROOT, HEADER_SIZE, BLOCK_ALIGN_SIZE
<1>2. /\ hdr[ROOT].next = 0 /\ hdr[0].next = NULL /\ hdr[0].size = PAGE_SIZE
      /\ DOMAIN live = {} /\ op = "idle" /\ asked = 0 /\ p_prev = ROOT /\ p_block = NULL
  BY <1>1 DEF Init, KmallocInit
<1>3. TypeOK
  <2>1. hdr \in Headers
    BY <1>1 DEF Init, KmallocInit, Headers
  <2> QED
    BY <1>2, <2>1 DEF TypeOK, Headers
<1>4. Blocks({0}) = {0}
  BY <1>2 DEF Blocks, InFlight
<1>5. Sorted({0}, hdr)
  BY <1>1, <1>2 DEF Sorted, ROOT, NULL
<1>6. Tiles({0}, hdr)
  BY <1>1, <1>2, AddrsAre DEF Tiles, HEADER_SIZE, BLOCK_ALIGN_SIZE
<1>7. Apart({0}, hdr)
  BY DEF Apart
<1>8. HeapInv({0})
  BY <1>2, <1>4, <1>5, <1>6, <1>7 DEF HeapInv, MallocInv, FreeInv
<1> QED
  BY <1>1, <1>3, <1>8 DEF Inv

LEMMA InvNext == Inv /\ [Next]_vars => Inv'
<1> SUFFICES ASSUME Inv, [Next]_vars
             PROVE  Inv'
  OBVIOUS
<1>1. CASE Kmalloc
  BY <1>1, MallocNextKeeps, MallocWholeKeeps, MallocSplitKeeps, MallocFailsKeeps,
     FreeNextKeeps, FreeInsertKeeps DEF Kmalloc
<1>2. CASE Client
  BY <1>2, MallocKeeps, FreeKeeps, ClientWritesKeeps DEF Client
<1>3. CASE UNCHANGED vars
  <2>1. PICK F \in SUBSET Addrs : HeapInv(F)
    BY DEF Inv
  <2>2. TypeOK' /\ Blocks(F)' = Blocks(F)
    BY <1>3 DEF vars, Inv, TypeOK, Blocks, InFlight
  <2>3. HeapInv(F)'
    BY <1>3, <2>1, <2>2 DEF vars, HeapInv, MallocInv, FreeInv
  <2> QED
    BY <2>2, <2>3 DEF Inv
<1> QED
  BY <1>1, <1>2, <1>3 DEF Next

\* Every word of a header holds an address in the page or a size that fits it,
\* through all of kmalloc_malloc(), kmalloc_free() and what the client writes.
THEOREM TypeCorrect == Spec => []TypeOK
<1>1. Inv => TypeOK
  BY DEF Inv
<1> QED
  BY <1>1, InvInit, InvNext, PTL DEF Spec

LEMMA InvTiled == Inv => Tiled
<1> SUFFICES ASSUME Inv, NEW a \in Addrs
             PROVE  Cardinality({b \in FreeBlocks \cup DOMAIN live \cup InFlight :
                                   b <= a /\ a < b + hdr[b].size}) = 1
  BY DEF Tiled
<1>1. PICK F \in SUBSET Addrs : HeapInv(F)
  BY DEF Inv
<1>2. FreeBlocks \cup DOMAIN live \cup InFlight = Blocks(F)
  BY <1>1, FreeBlocksAre DEF HeapInv, Blocks
<1>3. PICK b \in Blocks(F) : b <= a /\ a < b + hdr[b].size
  BY <1>1 DEF HeapInv, Tiles
<1>4. ASSUME NEW c \in Blocks(F), c <= a, a < c + hdr[c].size
      PROVE  c = b
  <2>1. /\ a \in Nat /\ b \in Nat /\ c \in Nat /\ hdr[b].size \in Nat /\ hdr[c].size \in Nat
        /\ b < c => b + hdr[b].size <= c
        /\ c < b => c + hdr[c].size <= b
    BY <1>1, InvGives, AddrsAre DEF Inv
  <2> QED
    BY <1>3, <1>4, <2>1
<1>5. {c \in Blocks(F) : c <= a /\ a < c + hdr[c].size} = {b}
  BY <1>3, <1>4
<1> QED
  BY <1>2, <1>5, FS_Singleton

\* After any sequence of calls every byte of the page is in exactly one block: none is
\* handed out twice and none is lost, whatever kmalloc_malloc() splits and
\* kmalloc_free() combines.
THEOREM PageTiled == Spec => []Tiled
BY InvInit, InvNext, InvTiled, PTL DEF Spec

LEMMA InvCoalesced == Inv => Coalesced /\ RoomForRequest
<1> SUFFICES ASSUME Inv
             PROVE  Coalesced /\ RoomForRequest
  OBVIOUS
<1>1. PICK F \in SUBSET Addrs : HeapInv(F)
  BY DEF Inv
<1>2. FreeBlocks = F
  BY <1>1, FreeBlocksAre DEF HeapInv
<1>3. \A b \in F : hdr[b].next # NULL => hdr[b].next \in F /\ b < hdr[b].next
  BY <1>1 DEF HeapInv, Sorted
<1>4. \A b \in F : hdr[b].next # NULL => b + hdr[b].size < hdr[b].next
  BY <1>1, <1>3 DEF HeapInv, Apart
<1>5. ASSUME NEW b \in F, hdr[b].next # NULL
      PROVE  hdr[b].next > b + hdr[b].size
  BY <1>4, <1>5
<1>6. Coalesced
  BY <1>2, <1>5 DEF Coalesced
<1>7. \A b \in F : hdr[b].size > HEADER_SIZE
  BY <1>1 DEF HeapInv, Tiles, Blocks
<1>8. RoomForRequest
  BY <1>1, <1>2, <1>7 DEF HeapInv, RoomForRequest
<1> QED
  BY <1>6, <1>8

\* No two neighbours in the free list touch: kmalloc_free() never leaves behind two
\* blocks that it could have combined, on either side.
THEOREM NeighboursMerged == Spec => []Coalesced
BY InvInit, InvNext, InvCoalesced, PTL DEF Spec

\* A block given to the client has room for what it asked for, and a free one for
\* more than its header, so that a split never leaves a block of no use.
THEOREM BlocksLargeEnough == Spec => []RoomForRequest
BY InvInit, InvNext, InvCoalesced, PTL DEF Spec

-----------------------------------------------------------------------------
(* kmalloc implements Heap *)

LEMMA RefinesInit == Init => Abstract!Init
BY DEF Init, Abstract!Init

\* A block between two of the client's is free, and large enough for all that is free
\* between them: free blocks do not touch.
LEMMA RefinesFails ==
  ASSUME Inv, MallocFails
  PROVE  Abstract!Refuse
<1> DEFINE n == BlockSize(asked)
<1>1. PICK F \in SUBSET Addrs : HeapInv(F)
  BY DEF Inv
<1>2. /\ op = "malloc" /\ p_block = NULL /\ asked \in Requests /\ asked > 0
      /\ asked' = 0 /\ live' = live /\ hdr' = hdr
      /\ n \in Nat /\ n > 0 /\ n % 16 = 0
  <2>1. op = "malloc" /\ p_block = NULL /\ asked' = 0 /\ live' = live /\ hdr' = hdr
    BY DEF MallocFails, Return
  <2>2. asked \in Requests
    BY <1>1, <2>1 DEF HeapInv, MallocInv
  <2> QED
    BY <2>1, <2>2, BlockSizeIs DEF BLOCK_ALIGN_SIZE, HEADER_SIZE
<1> HIDE DEF n
<1>3. /\ PAGE_SIZE \in Nat
      /\ \A b \in Blocks(F) : /\ b \in Addrs /\ b \in Nat /\ b % 16 = 0
                              /\ hdr[b].size \in Nat /\ hdr[b].size % 16 = 0
                              /\ hdr[b].size > 16 /\ b + hdr[b].size <= PAGE_SIZE
      /\ \A b, c \in Blocks(F) : b < c => b + hdr[b].size <= c
      /\ \A a \in Addrs : \E b \in Blocks(F) : b <= a /\ a < b + hdr[b].size
      /\ \A b \in Blocks(F) : b \in F \/ b \in DOMAIN live
      /\ \A b, c \in F : b < c => b + hdr[b].size < c
  BY <1>1, <1>2, InvGives, AddrsAre DEF Inv, HeapInv, Tiles, Apart, Blocks, InFlight
<1>4. \A b \in F : hdr[b].size < n
  BY <1>1, <1>2 DEF HeapInv, MallocInv, Sorted, n
<1>5. ASSUME NEW a \in Addrs, a + n <= PAGE_SIZE,
             \A b \in DOMAIN live : a + n <= b \/ b + hdr[b].size <= a
      PROVE  FALSE
  <2>1. PICK b \in Blocks(F) : b <= a /\ a < b + hdr[b].size
    BY <1>3
  <2>2. a \in Nat /\ b \in Nat /\ hdr[b].size \in Nat
    BY <1>3, AddrsAre
  <2>3. b \in F
    BY <1>2, <1>3, <1>5, <2>1, <2>2
  <2>4. PICK e : e = b + hdr[b].size
    OBVIOUS
  <2>5. e \in Nat /\ e < a + n /\ a < e
    BY <1>2, <1>4, <2>1, <2>2, <2>3, <2>4
  <2>6. e \in Addrs
    <3>1. e % 16 = 0
      <4>1. PICK s : s = hdr[b].size /\ s \in Nat /\ s % 16 = 0 /\ b % 16 = 0
        BY <1>3
      <4> QED
        BY <2>2, <2>4, <4>1
    <3>2. e < PAGE_SIZE
      BY <1>2, <1>3, <1>5, <2>2, <2>5
    <3> QED
      BY <1>3, <2>5, <3>1, <3>2 DEF Addrs, BLOCK_ALIGN_SIZE
  <2>7. PICK c \in Blocks(F) : c <= e /\ e < c + hdr[c].size
    BY <1>3, <2>6
  <2>8. c \in Nat /\ hdr[c].size \in Nat
    BY <1>3
  <2>9. b < c
    <3>1. c # b
      BY <2>4, <2>5, <2>7
    <3>2. c < b => c + hdr[c].size <= b
      BY <1>3
    <3> QED
      BY <2>2, <2>4, <2>5, <2>7, <2>8, <3>1, <3>2
  <2>10. c = e
    <3>1. e <= c
      BY <1>3, <2>4, <2>9
    <3> QED
      BY <2>5, <2>7, <2>8, <3>1
  <2>11. c \notin F
    BY <1>3, <2>2, <2>3, <2>4, <2>8, <2>9, <2>10
  <2>12. c \in DOMAIN live
    BY <1>3, <2>11
  <2> QED
    BY <1>2, <1>5, <2>2, <2>5, <2>7, <2>8, <2>10, <2>12
<1>6. \A a \in Addrs : ~ Abstract!Vacant(a, a + n)
  BY <1>5 DEF Abstract!Vacant
<1> QED
  BY <1>2, <1>6 DEF Abstract!Refuse, n

\* A grant of the block b, whose bytes were in a block of the free list.
LEMMA RefinesGrant ==
  ASSUME Inv, asked \in Requests, asked' = 0,
         NEW b \in Addrs, b \notin DOMAIN live, DOMAIN live' = DOMAIN live \cup {b},
         hdr'[b].size \in Nat, hdr'[b].size % 16 = 0, hdr'[b].size >= BlockSize(asked),
         b + hdr'[b].size <= PAGE_SIZE,
         \A c \in DOMAIN live : /\ hdr'[c].size = hdr[c].size
                                /\ b + hdr'[b].size <= c \/ c + hdr[c].size <= b
  PROVE  Abstract!Next
<1> DEFINE alloc == [c \in DOMAIN live |-> c + hdr[c].size]
<1>0. PICK e : e = b + hdr'[b].size
  OBVIOUS
<1>1. asked > 0
  BY BlockSizeIs
<1>2. e \in Addrs \cup {PAGE_SIZE}
  <2>1. PICK s : s = hdr'[b].size /\ s \in Nat /\ s % 16 = 0
    OBVIOUS
  <2>2. b \in Nat /\ b % 16 = 0 /\ b + s \in Nat /\ (b + s) % 16 = 0 /\ PAGE_SIZE \in Nat
    BY <2>1, AddrsAre, FreeListAssumption
  <2> QED
    BY <1>0, <2>1, <2>2 DEF Addrs, BLOCK_ALIGN_SIZE
<1>3. Abstract!Vacant(b, e)
  BY <1>0 DEF Abstract!Vacant
<1>4. e >= b + BlockSize(asked)
  BY <1>0, AddrsAre, BlockSizeIs
<1>5. alloc' = [c \in DOMAIN alloc \cup {b} |-> IF c = b THEN e ELSE alloc[c]]
  BY <1>0
<1>6. Abstract!Grant(b, e)
  BY <1>1, <1>3, <1>4, <1>5 DEF Abstract!Grant
<1> QED
  BY <1>2, <1>6 DEF Abstract!Next

LEMMA RefinesWhole ==
  ASSUME Inv, MallocWhole
  PROVE  Abstract!Next
<1>1. PICK F \in SUBSET Addrs : HeapInv(F)
  BY DEF Inv
<1>2. /\ op = "malloc" /\ asked \in Requests /\ p_prev \in F \cup {ROOT} /\ p_block \in F
      /\ p_block \notin DOMAIN live
  BY <1>1 DEF HeapInv, MallocInv, MallocWhole, Searching, Sorted
<1>3. /\ DOMAIN live' = DOMAIN live \cup {p_block} /\ asked' = 0
      /\ hdr' = [hdr EXCEPT ![p_prev].next = hdr[p_block].next]
      /\ hdr[p_block].size - BlockSize(asked) >= 0
  BY DEF MallocWhole, Hand, Return, Remain
<1>4. \A b \in Addrs : hdr'[b].size = hdr[b].size
  BY <1>3 DEF Inv, TypeOK
<1>5. /\ p_block \in Addrs /\ p_block \in Nat
      /\ hdr[p_block].size \in Nat /\ hdr[p_block].size % 16 = 0
      /\ p_block + hdr[p_block].size <= PAGE_SIZE
      /\ \A c \in DOMAIN live : /\ c \in Addrs /\ c \in Nat
                                /\ p_block < c => p_block + hdr[p_block].size <= c
                                /\ c < p_block => c + hdr[c].size <= p_block
  BY <1>1, <1>2, InvGives DEF Inv
<1>6. /\ hdr'[p_block].size = hdr[p_block].size
      /\ hdr[p_block].size >= BlockSize(asked)
      /\ \A c \in DOMAIN live : /\ hdr'[c].size = hdr[c].size
                                /\ p_block + hdr[p_block].size <= c \/ c + hdr[c].size <= p_block
  BY <1>2, <1>3, <1>4, <1>5, BlockSizeIs
<1> QED
  BY <1>2, <1>3, <1>5, <1>6, RefinesGrant

LEMMA RefinesSplit ==
  ASSUME Inv, MallocSplit
  PROVE  Abstract!Next
<1>1. PICK F \in SUBSET Addrs : HeapInv(F)
  BY DEF Inv
<1>2. /\ op = "malloc" /\ asked \in Requests /\ p_block \in F /\ p_block \notin DOMAIN live
  BY <1>1 DEF HeapInv, MallocInv, MallocSplit, Searching, Sorted
<1>3. PICK n, s, new : n = BlockSize(asked) /\ s = hdr[p_block].size /\ new = p_block + (s - n)
  OBVIOUS
<1>4. /\ n \in Nat /\ n % 16 = 0 /\ n > 16
  BY <1>2, <1>3, BlockSizeIs DEF BLOCK_ALIGN_SIZE, HEADER_SIZE
<1>5. /\ s - n >= 32
      /\ hdr' = [hdr EXCEPT ![p_block].size = s - n, ![new] = [next |-> NULL, size |-> n]]
      /\ DOMAIN live' = DOMAIN live \cup {new} /\ asked' = 0
  BY <1>3 DEF MallocSplit, Remain, Hand, Return, SmallestRemain, HEADER_SIZE
<1>6. /\ p_block \in Addrs /\ p_block \in Nat /\ p_block % 16 = 0
      /\ s \in Nat /\ s % 16 = 0 /\ p_block + s <= PAGE_SIZE
      /\ \A c \in DOMAIN live : /\ c \in Addrs /\ c \in Nat /\ hdr[c].size \in Nat
                                /\ p_block < c => p_block + s <= c
                                /\ c < p_block => c + hdr[c].size <= p_block
      /\ PAGE_SIZE \in Nat /\ hdr \in Headers
  BY <1>1, <1>2, <1>3, InvGives, AddrsAre DEF Inv
<1>7. /\ new \in Nat /\ p_block < new /\ new + n = p_block + s /\ new < PAGE_SIZE
      /\ new + n <= PAGE_SIZE
  BY <1>3, <1>4, <1>5, <1>6
<1>8. new % 16 = 0
  <2>1. PICK p : p = p_block /\ p \in Nat /\ p % 16 = 0 /\ new = p + (s - n)
    BY <1>3, <1>6
  <2>2. s \in Nat /\ s % 16 = 0 /\ n \in Nat /\ n % 16 = 0
    BY <1>4, <1>6
  <2> QED
    BY <2>1, <2>2
<1>9. new \in Addrs
  BY <1>6, <1>7, <1>8 DEF Addrs, BLOCK_ALIGN_SIZE
<1>10. \A c \in DOMAIN live : new + n <= c \/ c + hdr[c].size <= new
  BY <1>2, <1>4, <1>6, <1>7
<1>11. new \notin DOMAIN live
  BY <1>4, <1>6, <1>7
<1>12. hdr'[new].size = n /\ \A c \in DOMAIN live : hdr'[c].size = hdr[c].size
  BY <1>2, <1>5, <1>6, <1>9, <1>11 DEF Headers
<1>13. /\ hdr'[new].size \in Nat /\ hdr'[new].size % 16 = 0 /\ hdr'[new].size >= BlockSize(asked)
       /\ new + hdr'[new].size <= PAGE_SIZE
       /\ \A c \in DOMAIN live : /\ hdr'[c].size = hdr[c].size
                                 /\ new + hdr'[new].size <= c \/ c + hdr[c].size <= new
  BY <1>3, <1>4, <1>7, <1>10, <1>12
<1> QED
  BY <1>2, <1>5, <1>9, <1>11, <1>13, RefinesGrant

LEMMA RefinesStep == Inv /\ [Next]_vars => [Abstract!Next]_(Abstract!vars)
<1> SUFFICES ASSUME Inv, [Next]_vars
             PROVE  Abstract!Next \/ UNCHANGED Abstract!vars
  OBVIOUS
<1>1. ASSUME live' = live, asked' = asked, \A b \in DOMAIN live : hdr'[b].size = hdr[b].size
      PROVE  UNCHANGED Abstract!vars
  BY <1>1 DEF Abstract!vars
<1>2. CASE MallocNext \/ FreeNext \/ UNCHANGED vars
  BY <1>1, <1>2 DEF MallocNext, FreeNext, vars
<1>3. CASE FreeInsert
  <2>1. asked' = asked
    BY <1>3 DEF FreeInsert, Return, Inv, HeapInv
  <2> QED
    BY <1>1, <1>3, <2>1, FreeInsertKeeps DEF FreeInsert
<1>4. CASE MallocFails
  BY <1>4, RefinesFails DEF Abstract!Next
<1>5. CASE MallocWhole \/ MallocSplit
  BY <1>5, RefinesWhole, RefinesSplit
<1>6. ASSUME NEW n \in Requests, Malloc(n)
      PROVE  Abstract!Next
  <2>1. Abstract!Ask(n)
    BY <1>6 DEF Malloc, Abstract!Ask, Inv, HeapInv
  <2> QED
    BY <2>1 DEF Abstract!Next
<1>7. ASSUME NEW b \in DOMAIN live, Free(b)
      PROVE  Abstract!Next
  <2>1. asked = 0
    BY <1>7 DEF Free, Inv, HeapInv
  <2>2. Abstract!Release(b)
    BY <1>7, <2>1 DEF Free, Abstract!Release
  <2> QED
    BY <2>2 DEF Abstract!Next
<1>8. ASSUME NEW b \in DOMAIN live, ClientWrites(b)
      PROVE  UNCHANGED Abstract!vars
  BY <1>1, <1>8, ClientWritesKeeps DEF ClientWrites
<1> QED
  BY <1>2, <1>3, <1>4, <1>5, <1>6, <1>7, <1>8 DEF Next, Kmalloc, Client

\* kmalloc implements Heap on a page of any size: the regions of the client never
\* overlap, each has room for its request, and a request is refused only when no
\* stretch of free bytes could hold it.
THEOREM Refinement == Spec => ImplementsHeap
BY RefinesInit, RefinesStep, InvInit, InvNext, PTL
   DEF Spec, ImplementsHeap, Abstract!Spec
=============================================================================
