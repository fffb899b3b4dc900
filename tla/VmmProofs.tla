----------------------------- MODULE VmmProofs -----------------------------
(***************************************************************************)
(* For tables of any size, any layout of RAM, any calls of ioremap() under *)
(* the assumptions: every page has one owner, RAM, the console and every   *)
(* region that ioremap() returned stay mapped, the TLB is never stale, and *)
(* the tables implement AddressSpace.                                      *)
(***************************************************************************)
EXTENDS Vmm, FiniteSetTheorems, WellFoundedInduction, TLAPS

LEMMA DdrLastIs == DDR_LAST \in Nat
<1>1. PICK P, e : P = PAGE_SIZE /\ e = DDR_END
  OBVIOUS
<1>2. e \div P \in Nat
  BY <1>1, DdrAssumption
<1> QED
  BY <1>1, <1>2 DEF DDR_LAST

USE PmmAssumption, DdrLastIs

-----------------------------------------------------------------------------
(* Virtual pages as paths *)

\* The i-th one of what entry b of a level covers, and the way back.
Sub(b, i) == b * PTRS + i
Up(n) == n \div PTRS
At(n) == n % PTRS

\* Which table of a level the walk for page n comes to.
Path(n, l) ==
  CASE l = 0 -> 0
    [] l = 1 -> Up(Up(Up(n)))
    [] l = 2 -> Up(Up(n))
    [] l = 3 -> Up(n)

-----------------------------------------------------------------------------
(* The tables as a tree *)

\* The entry at i of table t leads to child, or to nothing.
Leads(m, t, i, child) ==
  /\ child # NULL => m[t][i] = Word("table", child)
  /\ child = NULL => m[t][i] = ZERO

\* Only one table is at the first level, and a table is below another one.
Rooted(N, top) ==
  /\ N[0][0] = top
  /\ \A b \in Nat : b # 0 => N[0][b] = NULL
  /\ \A l \in 1 .. 3, b \in Nat : N[l][b] # NULL => N[l - 1][Up(b)] # NULL

\* No page is a table in two places.
Single(N) ==
  \A k, l \in 0 .. 3 : \A b, c \in Nat :
    N[k][b] = N[l][c] /\ N[k][b] # NULL => k = l /\ b = c

Linking(m, N) ==
  \A l \in 0 .. 2, b \in Nat, i \in Indices :
    N[l][b] # NULL => Leads(m, N[l][b], i, N[l + 1][Sub(b, i)])

\* The entries at the last level are what is mapped.
Leaves(m, N, M) ==
  /\ \A b \in Nat, i \in Indices : N[3][b] # NULL => m[N[3][b]][i] = M[Sub(b, i)]
  /\ \A n \in Nat : M[n] # ZERO => N[3][Up(n)] # NULL

\* The pages of m below top are the tables N: N[l][b] is the one that the walk comes
\* to with the prefix b, at level l, NULL if there is none.  M are the entries at the
\* last level, by virtual page.
Tree(m, top, N, M) ==
  Rooted(N, top) /\ Single(N) /\ Linking(m, N) /\ Leaves(m, N, M)

\* s is the free list from its bottom to its top, the root.
IsStack(m, r, k, s) ==
  /\ r = IF k = 0 THEN NULL ELSE s[k]
  /\ \A i, j \in 1 .. k : s[i] = s[j] => i = j
  /\ \A j \in 1 .. k : m[s[j]][0].page = IF j = 1 THEN NULL ELSE s[j - 1]

\* The free list from r on has the pages F.
Stack(m, r, F) ==
  \E k \in Nat : \E s \in [1 .. k -> Pages] :
    IsStack(m, r, k, s) /\ F = {s[j] : j \in 1 .. k}

IsTable(N, p) == \E l \in 0 .. 3 : \E b \in Nat : N[l][b] = p

\* Every page has one owner.
Owned(N, F, H) ==
  /\ \A p \in Pages : p \in F \/ p \in H \/ IsTable(N, p)
  /\ \A p \in Pages : ~ (p \in F /\ p \in H)
  /\ \A p \in Pages : IsTable(N, p) => p \notin F /\ p \notin H

-----------------------------------------------------------------------------
(* What is mapped *)

\* RAM up to ram, devices in the upper half up to dev.
Mapping(M, ram, dev) ==
  /\ ram \in DDR_START .. DDR_LAST + 1 /\ dev \in VMALLOC_START .. VPages
  /\ \A n \in Nat :
       /\ n \in DDR_START .. ram - 1 => M[n] = Word("normal", n)
       /\ n \in VMALLOC_START .. dev - 1 =>
            \E page \in 0 .. Block - 1 : M[n] = Word("device", page)
       /\ n \notin DDR_START .. ram - 1 /\ n \notin VMALLOC_START .. dev - 1 => M[n] = ZERO

Seen(w) == IF w = ZERO THEN FAULT ELSE <<w.page, w.kind>>

\* The translation, by what is mapped.
View(M, low, high, v) ==
  LET top == IF v[1] = "low" THEN low ELSE high
  IN IF top = BOOT THEN BootWalk(v[2])
     ELSE IF top = NULL THEN FAULT ELSE Seen(M[v[2]])

\* The first n pages of the region at pa are mapped from page v on.
Backed(M, v, addr, n) ==
  \A j \in 0 .. n - 1 : M[v + j] = Word("device", addr \div PAGE_SIZE + j)

-----------------------------------------------------------------------------
(* The inductive invariant *)

Fresh == phase \in {"pmm_init", "vmm_init", "setup", "switch", "invalidate"}

Control ==
  /\ phase \in {"pmm_init", "vmm_init"} => op = "none"
  /\ phase = "setup" => op \in {"none", "setup"}
  /\ phase \in {"switch", "invalidate"} => op = "none"
  /\ phase = "run" => op \in {"none", "ioremap"}
  /\ phase = "panic" => op = "none"
  /\ phase \in {"pmm_init", "vmm_init", "setup"} => p_kernel_pgd = NULL
  /\ phase \in {"switch", "invalidate", "run"} => p_kernel_pgd # NULL
  /\ pgd # NULL /\ p_kernel_pgd # NULL => pgd = p_kernel_pgd
  /\ op # "none" => pgd # NULL
  /\ op = "none" /\ phase # "panic" => pgd = NULL /\ left = 0 /\ level = 0
  /\ op # "none" /\ left = 0 => level = 0

Registers ==
  \/ /\ phase \in {"pmm_init", "vmm_init", "setup", "switch", "panic"}
     /\ ttbr0 = BOOT /\ ttbr1 = BOOT /\ regions = {}
  \/ /\ phase = "invalidate"
     /\ ttbr0 = BOOT /\ ttbr1 = p_kernel_pgd
  \/ /\ phase \in {"run", "panic"}
     /\ ttbr0 = NULL /\ ttbr1 = p_kernel_pgd /\ p_kernel_pgd # NULL

Progress(N, ram, dev) ==
  /\ op # "none" => table = N[level][Path(va, level)] /\ table # NULL
  /\ op = "setup" => va = ram /\ pa = ram /\ va + left = DDR_LAST + 1
  /\ op = "ioremap" => va = dev /\ va + left = next_vaddr
  /\ phase \in {"pmm_init", "vmm_init"} => N[0][0] = NULL
  /\ phase = "setup" /\ op = "none" => N[0][0] = NULL
  /\ N[0][0] = NULL => ram = DDR_START
  /\ phase \in {"switch", "invalidate", "run"} => ram = DDR_LAST + 1
  /\ ttbr1 # BOOT => ram = DDR_LAST + 1
  /\ Fresh => dev = VMALLOC_START
  /\ phase \in {"setup", "switch", "invalidate"} => next_vaddr = VMALLOC_START
  /\ phase = "run" => next_vaddr <= VMALLOC_START + calls * Block
  /\ phase = "run" /\ op = "none" => next_vaddr = dev

\* The call of ioremap() under way.
Asked(M) ==
  op = "ioremap" =>
    LET pages == PagesOf(asked[1] % PAGE_SIZE, asked[2])
        done == pages - left
    IN /\ done \in Nat /\ va - done >= VMALLOC_START
       /\ pa = asked[1] \div PAGE_SIZE + done
       /\ asked[1] \div PAGE_SIZE + pages <= Block
       /\ Backed(M, va - done, asked[1], done)
       /\ calls = 1 => asked = BootRequests[1]

Returns(M, dev) ==
  \A r \in regions :
    /\ r.va >= VMALLOC_START
    /\ Backed(M, r.va, r.pa, PagesOf(r.pa % PAGE_SIZE, r.size))

Printer(M) ==
  /\ Fresh => p_reg_base = <<"low", UART>> /\ regions = {} /\ calls = 0 /\ held = {}
  /\ phase = "run" /\ regions = {} =>
       \/ op = "none" /\ calls = 0
       \/ op = "ioremap" /\ calls = 1
  /\ regions # {} => /\ p_reg_base[1] = "high"
                     /\ M[p_reg_base[2]] = Word("device", UART)

Cached(M) ==
  \A e \in tlb : /\ e[1] \in Probes /\ e[2] # FAULT
                 /\ e[2] = View(M, ttbr0, ttbr1, e[1])

Good(N, M, F, ram, dev) ==
  /\ Tree(mem, Root, N, M)
  /\ phase # "pmm_init" => Stack(mem, root, F) /\ Owned(N, F, held)
  /\ Mapping(M, ram, dev)
  /\ Progress(N, ram, dev)
  /\ Asked(M) /\ Returns(M, dev) /\ Printer(M) /\ Cached(M)

Trees == [0 .. 3 -> [Nat -> Pages \cup {NULL}]]
Maps == [Nat -> {ZERO} \cup [kind : {"normal", "device"}, page : Nat]]

Ghosts(N, M, F, ram, dev) ==
  N \in Trees /\ M \in Maps /\ F \in SUBSET Pages /\ ram \in Nat /\ dev \in Nat

Still(N, M, F, ram, dev) ==
  /\ TypeOK /\ Control /\ Registers
  /\ Ghosts(N, M, F, ram, dev) /\ Good(N, M, F, ram, dev)

\* What is mapped is M.
Keeps(M) == \E N, F, ram, dev : Still(N, M, F, ram, dev)

Inv == \E M : Keeps(M)

-----------------------------------------------------------------------------
(* Arithmetic *)

\* Every set of natural numbers that is not empty has a least element.
LEMMA LeastNat ==
  ASSUME NEW S \in SUBSET Nat, S # {}
  PROVE  \E n \in S : \A m \in S : n <= m
<1> DEFINE R == OpToRel(<, Nat)
<1>1. \E x \in S : \A y \in S : ~ (<<y, x>> \in R)
  <2>1. IsWellFoundedOn(R, Nat)
    BY NatLessThanWellFounded, Zenon
  <2> HIDE DEF R
  <2> QED
    BY <2>1, WFMin, Zenon
<1>2. PICK x \in S : \A y \in S : ~ (<<y, x>> \in R)
  BY <1>1, Zenon
<1>3. \A y \in S : ~ (y < x)
  BY <1>2, Zenon DEF OpToRel
<1> QED
  BY <1>3

LEMMA SubIs ==
  ASSUME NEW b \in Nat, NEW i \in Indices
  PROVE  Sub(b, i) \in Nat /\ Up(Sub(b, i)) = b /\ At(Sub(b, i)) = i
<1>1. b * PTRS \in Nat
  OBVIOUS
<1>2. Sub(b, i) \in Nat
  BY <1>1 DEF Sub, Indices
<1>3. Up(Sub(b, i)) = b
  BY DEF Sub, Up, Indices
<1>4. At(Sub(b, i)) = i
  BY DEF Sub, At, Indices
<1> QED
  BY <1>2, <1>3, <1>4

LEMMA UpIs ==
  ASSUME NEW n \in Nat
  PROVE  Up(n) \in Nat /\ At(n) \in Indices /\ Sub(Up(n), At(n)) = n
<1>1. Up(n) \in Nat
  BY DEF Up
<1>2. At(n) \in Indices
  BY DEF At, Indices
<1>3. Sub(Up(n), At(n)) = n
  BY DEF Up, At, Sub
<1> QED
  BY <1>1, <1>2, <1>3

\* The walk for page n goes down its path.
LEMMA PathIs ==
  ASSUME NEW n \in 0 .. VPages - 1
  PROVE  /\ n \in Nat
         /\ \A l \in 0 .. 3 : Path(n, l) \in Nat /\ IndexAt(n, l) \in Indices
         /\ \A l \in 0 .. 2 : Path(n, l + 1) = Sub(Path(n, l), IndexAt(n, l))
         /\ n = Sub(Path(n, 3), IndexAt(n, 3))
         /\ Path(n, 0) = 0 /\ Path(n, 3) = Up(n)
<1>1. n \in Nat
  BY DEF VPages
<1>2. n \div PTRS = Up(n) /\ n % PTRS = At(n)
  BY DEF Up, At
<1>3. n \div (PTRS * PTRS) = Up(Up(n))
  BY <1>1 DEF Up
<1>4. n \div (PTRS * PTRS * PTRS) = Up(Up(Up(n)))
  BY <1>1 DEF Up
<1>5. Up(Up(Up(Up(n)))) = 0
  BY DEF Up, VPages
<1>6. IndexAt(n, 0) = At(Up(Up(Up(n)))) /\ IndexAt(n, 1) = At(Up(Up(n)))
  BY <1>3, <1>4 DEF IndexAt, At
<1>7. IndexAt(n, 2) = At(Up(n)) /\ IndexAt(n, 3) = At(n)
  BY <1>2 DEF IndexAt, At
<1>8. Up(n) \in Nat /\ Up(Up(n)) \in Nat /\ Up(Up(Up(n))) \in Nat
  BY <1>1, UpIs
<1>9. /\ Path(n, 0) = 0 /\ Path(n, 1) = Up(Up(Up(n))) /\ Path(n, 2) = Up(Up(n))
      /\ Path(n, 3) = Up(n)
  BY DEF Path
<1> HIDE DEF Up, At
<1>10. \A l \in 0 .. 3 : l = 0 \/ l = 1 \/ l = 2 \/ l = 3
  OBVIOUS
<1>11. \A l \in 0 .. 2 : l = 0 \/ l = 1 \/ l = 2
  OBVIOUS
<1>12. /\ At(Up(Up(Up(n)))) \in Indices /\ Sub(0, At(Up(Up(Up(n))))) = Up(Up(Up(n)))
       /\ At(Up(Up(n))) \in Indices /\ Sub(Up(Up(Up(n))), At(Up(Up(n)))) = Up(Up(n))
       /\ At(Up(n)) \in Indices /\ Sub(Up(Up(n)), At(Up(n))) = Up(n)
       /\ At(n) \in Indices /\ Sub(Up(n), At(n)) = n
  BY <1>1, <1>5, <1>8, UpIs
<1>13. \A l \in 0 .. 3 : Path(n, l) \in Nat /\ IndexAt(n, l) \in Indices
  BY <1>6, <1>7, <1>8, <1>9, <1>10, <1>12
<1>14. \A l \in 0 .. 2 : Path(n, l + 1) = Sub(Path(n, l), IndexAt(n, l))
  BY <1>6, <1>7, <1>9, <1>11, <1>12
<1> QED
  BY <1>1, <1>7, <1>9, <1>12, <1>13, <1>14

\* The loops `addr < DDR_END` do the last page of RAM too: DDR_END is a byte of it.
LEMMA LastPageIs == LastPage = DDR_LAST
<1>1. PICK P, e : P = PAGE_SIZE /\ e = DDR_END
  OBVIOUS
<1>2. P \in Nat /\ P > 1 /\ e \in Nat /\ (e + 1) % P = 0
  BY <1>1, DdrAssumption
<1>3. PICK q \in Nat : e + 1 = P * q
  <2>1. PICK f \in Nat : f = e + 1
    BY <1>2
  <2>2. f \div P \in Nat /\ f = P * (f \div P) + (f % P)
    BY <1>2, <2>1
  <2>3. f % P = 0
    BY <1>2, <2>1
  <2> QED
    BY <1>2, <2>1, <2>2, <2>3
<1>4. q > 0 /\ e = P * (q - 1) + (P - 1) /\ e - 1 = P * (q - 1) + (P - 2)
  BY <1>2, <1>3
<1>5. e \div P = q - 1 /\ (e - 1) \div P = q - 1
  BY <1>2, <1>4
<1> QED
  BY <1>1, <1>5 DEF LastPage, DDR_LAST

LEMMA Sizes ==
  /\ Block \in Nat /\ Block > 0 /\ VPages \in Nat /\ VMALLOC_START \in Nat
  /\ 2 * Block <= VMALLOC_START /\ VMALLOC_START < VPages
  /\ DDR_LAST < VMALLOC_START /\ Block <= DDR_START
<1>1. VPages \in Nat /\ Block \in Nat
  BY DEF VPages, Block
<1>2. VPages = Block * Block
  BY DEF VPages, Block
<1>3. Block >= 4
  BY DEF Block
<1>4. Block * Block >= 4 * Block
  BY <1>1, <1>3
<1> HIDE DEF VPages, Block
<1>5. VPages >= 4 * Block
  BY <1>2, <1>4
<1>6. DDR_LAST \in Ram /\ DDR_START \in Ram
  BY DEF Ram
<1>7. DDR_LAST <= 2 * Block - 1 /\ Block <= DDR_START
  BY <1>1, <1>6, VmmAssumption
<1> QED
  BY <1>1, <1>3, <1>5, <1>7 DEF VMALLOC_START

LEMMA PagesAre ==
  /\ NULL \notin Pages /\ BOOT \notin Pages /\ BOOT # NULL
  /\ \A p \in Pages : p \in Nat /\ p # NULL /\ p # BOOT
BY DEF Pages, NULL, BOOT

LEMMA WordIs ==
  /\ \A kind, page : Word(kind, page).kind = kind /\ Word(kind, page).page = page
  /\ \A kind, page : kind # "zero" => Word(kind, page) # ZERO
  /\ ZERO.kind = "zero" /\ ZERO.page = NULL
  /\ 0 \in Indices
<1>1. \A kind, page : Word(kind, page).kind = kind /\ Word(kind, page).page = page
  BY DEF Word
<1>2. ZERO.kind = "zero" /\ ZERO.page = NULL
  BY <1>1 DEF ZERO
<1>3. 0 \in Indices
  BY DEF Indices
<1> QED
  BY <1>1, <1>2, <1>3

-----------------------------------------------------------------------------
(* The walk *)

DownIn(m, t, i) == IF t \in Pages /\ m[t][i].kind = "table" THEN m[t][i].page ELSE NULL

WalkIn(m, top, n) ==
  LET last == DownIn(m, DownIn(m, DownIn(m, top, IndexAt(n, 0)), IndexAt(n, 1)), IndexAt(n, 2))
      w == m[last][IndexAt(n, 3)]
  IN IF last \in Pages /\ w.kind \in {"normal", "device"} THEN <<w.page, w.kind>>
     ELSE FAULT

LEMMA TreesAre ==
  ASSUME NEW N \in Trees, NEW l \in 0 .. 3, NEW b \in Nat
  PROVE  N[l][b] \in Pages \cup {NULL}
BY DEF Trees

Follows(m, N) ==
  \A l \in 0 .. 2, b \in Nat, i \in Indices : DownIn(m, N[l][b], i) = N[l + 1][Sub(b, i)]

LEMMA DownIs ==
  ASSUME NEW m, NEW top, NEW N \in Trees, NEW M, Tree(m, top, N, M)
  PROVE  Follows(m, N)
<1> SUFFICES ASSUME NEW l \in 0 .. 2, NEW b \in Nat, NEW i \in Indices
             PROVE  DownIn(m, N[l][b], i) = N[l + 1][Sub(b, i)]
  BY DEF Follows
<1>1. N[l][b] \in Pages \cup {NULL} /\ Sub(b, i) \in Nat /\ Up(Sub(b, i)) = b
  BY TreesAre, SubIs
<1>2. CASE N[l][b] = NULL
  <2>1. l + 1 \in 1 .. 3 /\ (l + 1) - 1 = l
    OBVIOUS
  <2>2. N[l + 1][Sub(b, i)] = NULL
    BY <1>1, <1>2, <2>1 DEF Tree, Rooted, Single, Linking, Leaves
  <2> QED
    BY <1>2, <2>2, PagesAre DEF DownIn
<1>3. CASE N[l][b] # NULL
  <2>1. Leads(m, N[l][b], i, N[l + 1][Sub(b, i)])
    BY <1>3 DEF Tree, Rooted, Single, Linking, Leaves
  <2> QED
    BY <1>1, <1>3, <2>1, WordIs DEF DownIn, Leads
<1> QED
  BY <1>2, <1>3

\* The hardware's walk finds what is mapped.
LEMMA WalkIs ==
  ASSUME NEW m, NEW top, NEW N \in Trees, NEW M \in Maps, Tree(m, top, N, M),
         NEW n \in 0 .. VPages - 1
  PROVE  WalkIn(m, top, n) = Seen(M[n])
<1> DEFINE T(l) == N[l][Path(n, l)]
<1>1. /\ \A l \in 0 .. 3 : Path(n, l) \in Nat /\ IndexAt(n, l) \in Indices
      /\ \A l \in 0 .. 2 : Path(n, l + 1) = Sub(Path(n, l), IndexAt(n, l))
      /\ n \in Nat /\ n = Sub(Path(n, 3), IndexAt(n, 3))
      /\ Path(n, 0) = 0 /\ Path(n, 3) = Up(n)
  BY PathIs
<1>2. \A l \in 0 .. 2 : DownIn(m, T(l), IndexAt(n, l)) = T(l + 1)
  <2>1. Follows(m, N)
    BY DownIs
  <2> QED
    BY <1>1, <2>1 DEF Follows
<1>3. top = T(0)
  BY <1>1 DEF Tree, Rooted, Single, Linking, Leaves
<1>4. DownIn(m, DownIn(m, DownIn(m, top, IndexAt(n, 0)), IndexAt(n, 1)), IndexAt(n, 2)) = T(3)
  <2>1. DownIn(m, top, IndexAt(n, 0)) = T(1)
    BY <1>2, <1>3
  <2>2. DownIn(m, T(1), IndexAt(n, 1)) = T(2) /\ DownIn(m, T(2), IndexAt(n, 2)) = T(3)
    BY <1>2
  <2> QED
    BY <2>1, <2>2
<1>5. M[n] = ZERO \/ (M[n] # ZERO /\ M[n].kind \in {"normal", "device"})
  BY <1>1 DEF Maps
<1>6. T(3) \in Pages \cup {NULL}
  BY <1>1, TreesAre
<1>7. CASE T(3) = NULL
  <2>1. M[n] = ZERO
    BY <1>1, <1>7 DEF Tree, Rooted, Single, Linking, Leaves
  <2> QED
    BY <1>4, <1>7, <2>1, PagesAre DEF WalkIn, Seen
<1>8. CASE T(3) # NULL
  <2>1. m[T(3)][IndexAt(n, 3)] = M[n]
    BY <1>1, <1>8 DEF Tree, Rooted, Single, Linking, Leaves
  <2> QED
    BY <1>4, <1>5, <1>6, <1>8, <2>1, WordIs DEF WalkIn, Seen
<1> QED
  BY <1>7, <1>8

-----------------------------------------------------------------------------
(* How the tree changes *)

\* One more table.
Put(N, l, b, r) == [N EXCEPT ![l][b] = r]

PutIn(N1, N, l, b, r) ==
  /\ N1 \in Trees
  /\ \A k \in 0 .. 3, c \in Nat : N1[k][c] = IF k = l /\ c = b THEN r ELSE N[k][c]

LEMMA PutIs ==
  ASSUME NEW N \in Trees, NEW l \in 0 .. 3, NEW b \in Nat, NEW r \in Pages
  PROVE  PutIn(Put(N, l, b, r), N, l, b, r)
<1> DEFINE N1 == Put(N, l, b, r)
<1>1. N[l] \in [Nat -> Pages \cup {NULL}]
  BY DEF Trees
<1>2. N1[l] = [N[l] EXCEPT ![b] = r]
  BY DEF Trees, Put
<1>3. N1[l] \in [Nat -> Pages \cup {NULL}]
  BY <1>1, <1>2
<1>4. \A k \in 0 .. 3 : k # l => N1[k] = N[k]
  BY DEF Trees, Put
<1>5. N1 \in Trees
  BY <1>3, <1>4 DEF Trees, Put
<1>6. \A k \in 0 .. 3, c \in Nat : N1[k][c] = IF k = l /\ c = b THEN r ELSE N[k][c]
  BY <1>1, <1>2, <1>4
<1> QED
  BY <1>5, <1>6 DEF PutIn

\* Memory that no table is in.
LEMMA TreeSame ==
  ASSUME NEW m, NEW m1, NEW top, NEW N \in Trees, NEW M, Tree(m, top, N, M),
         \A p \in Pages : IsTable(N, p) => m1[p] = m[p]
  PROVE  Tree(m1, top, N, M)
<1>1. \A l \in 0 .. 3, b \in Nat : N[l][b] # NULL => m1[N[l][b]] = m[N[l][b]]
  BY TreesAre DEF IsTable
<1>2. \A l \in 0 .. 2, b \in Nat, i \in Indices :
        N[l][b] # NULL => Leads(m1, N[l][b], i, N[l + 1][Sub(b, i)])
  BY <1>1 DEF Tree, Rooted, Single, Linking, Leaves, Leads
<1>3. \A b \in Nat, i \in Indices : N[3][b] # NULL => m1[N[3][b]][i] = M[Sub(b, i)]
  BY <1>1 DEF Tree, Rooted, Single, Linking, Leaves
<1> QED
  BY <1>2, <1>3 DEF Tree, Rooted, Single, Linking, Leaves

LEMMA TreeEmpty ==
  ASSUME NEW m, NEW N \in Trees, NEW M \in Maps, Tree(m, NULL, N, M)
  PROVE  /\ \A l \in 0 .. 3, b \in Nat : N[l][b] = NULL
         /\ \A n \in Nat : M[n] = ZERO
         /\ \A p \in Pages : ~ IsTable(N, p)
<1>1. \A b \in Nat : N[0][b] = NULL
  BY DEF Tree, Rooted, Single, Linking, Leaves
<1>a. \A l \in 1 .. 3, b \in Nat : N[l][b] # NULL => N[l - 1][Up(b)] # NULL
  BY DEF Tree, Rooted, Single, Linking, Leaves
<1>b. \A b \in Nat : Up(b) \in Nat
  BY UpIs
<1>2. \A b \in Nat : N[1][b] = NULL
  BY <1>1, <1>a, <1>b
<1>3. \A b \in Nat : N[2][b] = NULL
  BY <1>2, <1>a, <1>b
<1>4. \A b \in Nat : N[3][b] = NULL
  BY <1>3, <1>a, <1>b
<1>5. \A l \in 0 .. 3, b \in Nat : N[l][b] = NULL
  <2>1. \A l \in 0 .. 3 : l = 0 \/ l = 1 \/ l = 2 \/ l = 3
    OBVIOUS
  <2> QED
    BY <1>1, <1>2, <1>3, <1>4, <2>1
<1>6. \A n \in Nat : M[n] = ZERO
  BY <1>4, UpIs DEF Tree, Rooted, Single, Linking, Leaves
<1> QED
  BY <1>5, <1>6, PagesAre DEF IsTable

\* The first table.
LEMMA TreeRoot ==
  ASSUME NEW m, NEW m1, NEW N \in Trees, NEW M \in Maps, Tree(m, NULL, N, M),
         NEW r \in Pages, m1[r] = ZeroPage, NEW N1,
         PutIn(N1, N, 0, 0, r)
  PROVE  Tree(m1, r, N1, M)
<1>1. /\ \A l \in 0 .. 3, b \in Nat : N[l][b] = NULL
      /\ \A n \in Nat : M[n] = ZERO
  BY TreeEmpty
<1>2. /\ N1 \in Trees /\ N1[0][0] = r
      /\ \A k \in 0 .. 3, c \in Nat : N1[k][c] = IF k = 0 /\ c = 0 THEN r ELSE NULL
  BY <1>1 DEF PutIn
<1>3. r # NULL
  BY PagesAre
<1>4. \A i \in Indices : m1[r][i] = ZERO
  BY DEF ZeroPage
<1>5. \A l \in 0 .. 2, b \in Nat, i \in Indices :
        N1[l][b] # NULL => Leads(m1, N1[l][b], i, N1[l + 1][Sub(b, i)])
  <2> SUFFICES ASSUME NEW l \in 0 .. 2, NEW b \in Nat, NEW i \in Indices, N1[l][b] # NULL
               PROVE  Leads(m1, N1[l][b], i, N1[l + 1][Sub(b, i)])
    OBVIOUS
  <2>1. N1[l][b] = r /\ Sub(b, i) \in Nat /\ l + 1 # 0
    BY <1>2, SubIs
  <2>2. N1[l + 1][Sub(b, i)] = NULL
    BY <1>2, <2>1
  <2> QED
    BY <1>4, <2>1, <2>2 DEF Leads
<1>6. Tree(m1, r, N1, M)
  BY <1>1, <1>2, <1>3, <1>5 DEF Tree, Rooted, Single, Linking, Leaves
<1> QED
  BY <1>6

LEMMA PutTables ==
  ASSUME NEW N \in Trees, NEW l \in 0 .. 3, NEW b \in Nat, NEW r \in Pages, NEW N1,
         PutIn(N1, N, l, b, r), N[l][b] = NULL
  PROVE  \A p \in Pages : IsTable(N1, p) <=> IsTable(N, p) \/ p = r
<1>1. N1[l][b] = r
  BY DEF PutIn
<1>2. \A k \in 0 .. 3, c \in Nat : N[k][c] # NULL => N1[k][c] = N[k][c]
  BY DEF PutIn
<1>3. \A k \in 0 .. 3, c \in Nat : N1[k][c] = r \/ N1[k][c] = N[k][c]
  BY DEF PutIn
<1>4. \A p \in Pages : p # NULL
  BY PagesAre
<1>5. ASSUME NEW p \in Pages, IsTable(N1, p)
      PROVE  IsTable(N, p) \/ p = r
  BY <1>3, <1>5 DEF IsTable
<1>6. ASSUME NEW p \in Pages, IsTable(N, p)
      PROVE  IsTable(N1, p)
  BY <1>2, <1>4, <1>6 DEF IsTable
<1>7. IsTable(N1, r)
  BY <1>1 DEF IsTable
<1> QED
  BY <1>5, <1>6, <1>7

\* The page r, cleared, is linked at i of table t.
Linked(m1, m, t, i, r) ==
  /\ \A j \in Indices : m1[r][j] = ZERO
  /\ \A j \in Indices : m1[t][j] = IF j = i THEN Word("table", r) ELSE m[t][j]
  /\ \A p \in Pages : p # r /\ p # t => m1[p] = m[p]

\* w is written at i of table t.
Entered(m1, m, t, i, w) ==
  /\ \A j \in Indices : m1[t][j] = IF j = i THEN w ELSE m[t][j]
  /\ \A p \in Pages : p # t => m1[p] = m[p]

\* A new table below entry i of table b.
LEMMA TreeAdd ==
  ASSUME NEW m, NEW m1, NEW top, NEW N \in Trees, NEW M, Tree(m, top, N, M),
         NEW l \in 0 .. 2, NEW b \in Nat, NEW i \in Indices, NEW r \in Pages,
         N[l][b] # NULL, N[l + 1][Sub(b, i)] = NULL, ~ IsTable(N, r),
         Linked(m1, m, N[l][b], i, r),
         NEW N1, PutIn(N1, N, l + 1, Sub(b, i), r)
  PROVE  Tree(m1, top, N1, M)
<1> DEFINE c == Sub(b, i)
           t == N[l][b]
<1>1. /\ l \in 0 .. 3 /\ l + 1 \in 1 .. 3 /\ (l + 1) - 1 = l /\ l + 1 # 0
      /\ c \in Nat /\ Up(c) = b /\ r # NULL
  BY SubIs, PagesAre
<1>2. /\ N1 \in Trees
      /\ \A k \in 0 .. 3, d \in Nat : N1[k][d] = IF k = l + 1 /\ d = c THEN r ELSE N[k][d]
  BY DEF PutIn
<1>3. N1[l + 1][c] = r
  BY <1>1, <1>2
<1>4. /\ \A k \in 0 .. 3, d \in Nat : N1[k][d] = r => k = l + 1 /\ d = c
      /\ \A k \in 0 .. 3, d \in Nat : N[k][d] # r
  BY <1>2 DEF IsTable
<1> HIDE DEF c
<1>5. N1[0][0] = top /\ \A d \in Nat : d # 0 => N1[0][d] = NULL
  <2>1. \A d \in Nat : N1[0][d] = N[0][d]
    BY <1>1, <1>2
  <2> QED
    BY <2>1 DEF Tree, Rooted, Single, Linking, Leaves
<1>6. ASSUME NEW k \in 1 .. 3, NEW d \in Nat, N1[k][d] # NULL
      PROVE  N1[k - 1][Up(d)] # NULL
  <2>1. PICK h, u : h = k - 1 /\ u = Up(d)
    OBVIOUS
  <2>2. k \in 0 .. 3 /\ h \in 0 .. 3 /\ u \in Nat /\ k = h + 1
    BY <2>1, UpIs
  <2>3. N[h][u] # NULL
    <3>1. CASE k = l + 1 /\ d = c
      BY <1>1, <2>1, <3>1
    <3>2. CASE ~ (k = l + 1 /\ d = c)
      <4>1. N[k][d] # NULL
        BY <1>2, <1>6, <2>2, <3>2
      <4> QED
        BY <2>1, <4>1 DEF Tree, Rooted, Single, Linking, Leaves
    <3> QED
      BY <3>1, <3>2
  <2>4. N1[h][u] # NULL
    BY <1>1, <1>2, <2>2, <2>3
  <2> QED
    BY <2>1, <2>4
<1>7. ASSUME NEW j \in 0 .. 3, NEW k \in 0 .. 3, NEW d \in Nat, NEW e \in Nat,
             N1[j][d] = N1[k][e], N1[j][d] # NULL
      PROVE  j = k /\ d = e
  <2>1. CASE N1[j][d] = r
    BY <1>4, <1>7, <2>1
  <2>2. CASE N1[j][d] # r
    <3>1. N1[j][d] = N[j][d] /\ N1[k][e] = N[k][e]
      BY <1>2, <1>7, <2>2
    <3>2. Single(N)
      BY DEF Tree
    <3>3. N[j][d] = N[k][e] /\ N[j][d] # NULL
      BY <1>7, <3>1
    <3> QED
      BY <3>2, <3>3 DEF Single
  <2> QED
    BY <2>1, <2>2
<1>8. ASSUME NEW d \in Nat, NEW k \in 0 .. 3, N1[k][d] # NULL, N1[k][d] # r, N1[k][d] # t
      PROVE  N1[k][d] = N[k][d] /\ m1[N1[k][d]] = m[N[k][d]]
  <2>1. N1[k][d] = N[k][d] /\ N[k][d] \in Pages
    BY <1>2, <1>8, TreesAre
  <2> QED
    BY <1>8, <2>1 DEF Linked
<1>9. ASSUME NEW d \in Nat, NEW k \in 0 .. 3, N1[k][d] = t
      PROVE  k = l /\ d = b
  <2>1. N[k][d] = N[l][b] /\ N[k][d] # NULL
    BY <1>1, <1>2, <1>4, <1>9
  <2>2. Single(N)
    BY DEF Tree
  <2> QED
    BY <1>1, <2>1, <2>2 DEF Single
<1>10. ASSUME NEW k \in 0 .. 2, NEW d \in Nat, NEW j \in Indices, N1[k][d] # NULL
       PROVE  Leads(m1, N1[k][d], j, N1[k + 1][Sub(d, j)])
  <2>1. k \in 0 .. 3 /\ k + 1 \in 0 .. 3 /\ Sub(d, j) \in Nat /\ Up(Sub(d, j)) = d
        /\ k + 1 \in 1 .. 3 /\ (k + 1) - 1 = k /\ At(Sub(d, j)) = j
    BY SubIs
  <2>2. CASE N1[k][d] = r
    <3>1. k = l + 1 /\ d = c
      BY <1>4, <2>1, <2>2
    <3>2. N[k + 1][Sub(d, j)] = NULL
      <4>1. N[k][d] = NULL
        BY <3>1 DEF c
      <4> QED
        BY <2>1, <4>1 DEF Tree, Rooted, Single, Linking, Leaves
    <3>3. N1[k + 1][Sub(d, j)] = NULL
      BY <1>2, <2>1, <3>1, <3>2
    <3> QED
      BY <2>2, <3>3 DEF Leads, Linked
  <2>3. CASE N1[k][d] = t
    <3>1. k = l /\ d = b
      BY <1>9, <2>1, <2>3
    <3>2. CASE j = i
      <4>1. N1[k + 1][Sub(d, j)] = r
        BY <1>3, <3>1, <3>2 DEF c
      <4> QED
        BY <1>1, <2>3, <3>2, <4>1 DEF Leads, Linked
    <3>3. CASE j # i
      <4>1. Sub(d, j) # c
        BY <2>1, <3>3, SubIs DEF c
      <4>2. N1[k + 1][Sub(d, j)] = N[k + 1][Sub(d, j)]
        BY <1>2, <2>1, <4>1
      <4>3. Leads(m, N[l][b], j, N[l + 1][Sub(b, j)])
        BY DEF Tree, Rooted, Single, Linking, Leaves
      <4> QED
        BY <2>3, <3>1, <3>3, <4>2, <4>3 DEF Leads, Linked
    <3> QED
      BY <3>2, <3>3
  <2>4. CASE N1[k][d] # r /\ N1[k][d] # t
    <3>1. N1[k][d] = N[k][d] /\ m1[N1[k][d]] = m[N[k][d]]
      BY <1>8, <1>10, <2>1, <2>4
    <3>2. ~ (k = l /\ d = b)
      BY <2>4, <3>1
    <3>3. ~ (k + 1 = l + 1 /\ Sub(d, j) = c)
      BY <1>1, <2>1, <3>2
    <3>4. N1[k + 1][Sub(d, j)] = N[k + 1][Sub(d, j)]
      BY <1>2, <2>1, <3>3
    <3>5. Leads(m, N[k][d], j, N[k + 1][Sub(d, j)])
      BY <1>10, <3>1 DEF Tree, Rooted, Single, Linking, Leaves
    <3> QED
      BY <3>1, <3>4, <3>5 DEF Leads
  <2> QED
    BY <2>2, <2>3, <2>4
<1>11. ASSUME NEW n \in Nat, M[n] # ZERO
       PROVE  N1[3][Up(n)] # NULL
  <2>1. N[3][Up(n)] # NULL /\ Up(n) \in Nat
    BY <1>11, UpIs DEF Tree, Rooted, Single, Linking, Leaves
  <2> QED
    BY <1>1, <1>2, <2>1
<1>12. ASSUME NEW d \in Nat, NEW j \in Indices, N1[3][d] # NULL
       PROVE  m1[N1[3][d]][j] = M[Sub(d, j)]
  <2>1. Sub(d, j) \in Nat /\ Up(Sub(d, j)) = d
    BY SubIs
  <2>2. CASE N1[3][d] = r
    <3>1. 3 = l + 1 /\ d = c
      BY <1>4, <2>2
    <3>2. N[3][d] = NULL
      BY <3>1 DEF c
    <3>3. M[Sub(d, j)] = ZERO
      BY <2>1, <3>2 DEF Tree, Rooted, Single, Linking, Leaves
    <3> QED
      BY <2>2, <3>3 DEF Linked
  <2>3. CASE N1[3][d] # r
    <3>1. N1[3][d] # t
      BY <1>9
    <3>2. N1[3][d] = N[3][d] /\ m1[N1[3][d]] = m[N[3][d]]
      BY <1>8, <1>12, <2>3, <3>1
    <3> QED
      BY <1>12, <3>2 DEF Tree, Rooted, Single, Linking, Leaves
  <2> QED
    BY <2>2, <2>3
<1> QED
  BY <1>5, <1>6, <1>7, <1>10, <1>11, <1>12 DEF Tree, Rooted, Single, Linking, Leaves

\* M1 is M with w at page v.
Updated(M1, M, v, w) == \A n \in Nat : M1[n] = IF n = v THEN w ELSE M[n]

\* A page is mapped: the entry at the last level is written.
LEMMA TreePte ==
  ASSUME NEW m, NEW m1, NEW top, NEW N \in Trees, NEW M, Tree(m, top, N, M),
         NEW b \in Nat, NEW i \in Indices, NEW w, N[3][b] # NULL,
         Entered(m1, m, N[3][b], i, w),
         NEW M1, Updated(M1, M, Sub(b, i), w)
  PROVE  Tree(m1, top, N, M1)
<1>0. \A n \in Nat : M1[n] = IF n = Sub(b, i) THEN w ELSE M[n]
  BY DEF Updated
<1>1. Single(N) /\ Rooted(N, top) /\ Linking(m, N) /\ Leaves(m, N, M)
  BY DEF Tree
<1>2. ASSUME NEW k \in 0 .. 3, NEW d \in Nat, N[k][d] # NULL, ~ (k = 3 /\ d = b)
      PROVE  m1[N[k][d]] = m[N[k][d]]
  <2>1. N[k][d] \in Pages /\ N[k][d] # N[3][b]
    BY <1>1, <1>2, TreesAre DEF Single
  <2> QED
    BY <2>1 DEF Entered
<1>3. Linking(m1, N)
  <2> SUFFICES ASSUME NEW l \in 0 .. 2, NEW d \in Nat, NEW j \in Indices, N[l][d] # NULL
               PROVE  Leads(m1, N[l][d], j, N[l + 1][Sub(d, j)])
    BY DEF Linking
  <2>1. l \in 0 .. 3 /\ l # 3
    OBVIOUS
  <2>2. m1[N[l][d]] = m[N[l][d]]
    BY <1>2, <2>1
  <2>3. Leads(m, N[l][d], j, N[l + 1][Sub(d, j)])
    BY <1>1 DEF Linking
  <2> QED
    BY <2>2, <2>3 DEF Leads
<1>4. ASSUME NEW d \in Nat, NEW j \in Indices, N[3][d] # NULL
      PROVE  m1[N[3][d]][j] = M1[Sub(d, j)]
  <2>1. m[N[3][d]][j] = M[Sub(d, j)] /\ Sub(d, j) \in Nat
    BY <1>1, <1>4, SubIs DEF Leaves
  <2>2. CASE d = b
    <3>1. Sub(b, i) = Sub(d, j) <=> i = j
      BY <2>2, SubIs
    <3> QED
      BY <1>0, <2>1, <2>2, <3>1 DEF Entered
  <2>3. CASE d # b
    <3>0. Up(Sub(b, i)) = b /\ Up(Sub(d, j)) = d
      BY SubIs
    <3>1. Sub(b, i) # Sub(d, j)
      BY <2>3, <3>0
    <3>2. m1[N[3][d]] = m[N[3][d]]
      BY <1>2, <1>4, <2>3
    <3>3. M1[Sub(d, j)] = M[Sub(d, j)]
      BY <1>0, <2>1, <3>1
    <3> QED
      BY <2>1, <3>2, <3>3
  <2> QED
    BY <2>2, <2>3
<1>5. ASSUME NEW n \in Nat, M1[n] # ZERO
      PROVE  N[3][Up(n)] # NULL
  <2>1. CASE n = Sub(b, i)
    BY <2>1, SubIs
  <2>2. CASE n # Sub(b, i)
    BY <1>0, <1>1, <1>5, <2>2 DEF Leaves
  <2> QED
    BY <2>1, <2>2
<1>6. Leaves(m1, N, M1)
  BY <1>4, <1>5 DEF Leaves
<1> QED
  BY <1>1, <1>3, <1>6 DEF Tree

-----------------------------------------------------------------------------
(* How the free list changes *)

LEMMA StackSame ==
  ASSUME NEW m, NEW m1, NEW r, NEW F, Stack(m, r, F), \A p \in F : m1[p][0].page = m[p][0].page
  PROVE  Stack(m1, r, F)
<1>1. PICK k \in Nat : \E s \in [1 .. k -> Pages] :
        IsStack(m, r, k, s) /\ F = {s[j] : j \in 1 .. k}
  BY DEF Stack
<1>2. PICK s \in [1 .. k -> Pages] : IsStack(m, r, k, s) /\ F = {s[j] : j \in 1 .. k}
  BY <1>1
<1>3. \A j \in 1 .. k : s[j] \in F
  BY <1>2
<1>4. IsStack(m1, r, k, s)
  BY <1>2, <1>3 DEF IsStack
<1> QED
  BY <1>2, <1>4 DEF Stack

LEMMA StackEmpty ==
  ASSUME NEW m, NEW r, NEW F, Stack(m, r, F)
  PROVE  /\ r \in F \cup {NULL}
         /\ r = NULL => F = {}
<1>1. PICK k \in Nat : \E s \in [1 .. k -> Pages] :
        IsStack(m, r, k, s) /\ F = {s[j] : j \in 1 .. k}
  BY DEF Stack
<1>2. PICK s \in [1 .. k -> Pages] : IsStack(m, r, k, s) /\ F = {s[j] : j \in 1 .. k}
  BY <1>1
<1>3. r = IF k = 0 THEN NULL ELSE s[k]
  BY <1>2 DEF IsStack
<1>4. CASE k = 0
  BY <1>2, <1>3, <1>4
<1>5. CASE k # 0
  <2>1. k \in 1 .. k /\ s[k] \in Pages
    BY <1>5
  <2> QED
    BY <1>2, <1>3, <1>5, <2>1, PagesAre
<1> QED
  BY <1>4, <1>5

\* pmm_get_free_page() takes the page at the root.
LEMMA StackPop ==
  ASSUME NEW m, NEW r, NEW F, Stack(m, r, F), r # NULL
  PROVE  Stack(m, m[r][0].page, F \ {r})
<1>1. PICK k \in Nat : \E s \in [1 .. k -> Pages] :
        IsStack(m, r, k, s) /\ F = {s[j] : j \in 1 .. k}
  BY DEF Stack
<1>2. PICK s \in [1 .. k -> Pages] : IsStack(m, r, k, s) /\ F = {s[j] : j \in 1 .. k}
  BY <1>1
<1>3. k # 0 /\ r = s[k]
  BY <1>2 DEF IsStack
<1>4. PICK h : h = k - 1
  OBVIOUS
<1>5. /\ h \in Nat /\ k = h + 1 /\ k \in 1 .. k
      /\ \A j \in 1 .. h : j \in 1 .. k /\ j # k
      /\ \A j \in 1 .. k : j = k \/ j \in 1 .. h
      /\ k = 1 <=> h = 0
  BY <1>3, <1>4
<1>6. PICK g : g = [j \in 1 .. h |-> s[j]]
  OBVIOUS
<1>7. g \in [1 .. h -> Pages] /\ \A j \in 1 .. h : g[j] = s[j]
  BY <1>5, <1>6
<1>8. m[r][0].page = IF h = 0 THEN NULL ELSE g[h]
  <2>1. m[s[k]][0].page = IF k = 1 THEN NULL ELSE s[k - 1]
    BY <1>2, <1>5 DEF IsStack
  <2>2. h # 0 => h \in 1 .. h
    BY <1>5
  <2> QED
    BY <1>3, <1>4, <1>5, <1>7, <2>1, <2>2
<1>9. \A i, j \in 1 .. h : g[i] = g[j] => i = j
  BY <1>2, <1>5, <1>7 DEF IsStack
<1>10. ASSUME NEW j \in 1 .. h
       PROVE  m[g[j]][0].page = IF j = 1 THEN NULL ELSE g[j - 1]
  <2>1. m[s[j]][0].page = IF j = 1 THEN NULL ELSE s[j - 1]
    BY <1>2, <1>5 DEF IsStack
  <2>2. j # 1 => j - 1 \in 1 .. h
    BY <1>5
  <2> QED
    BY <1>7, <2>1, <2>2
<1>11. IsStack(m, m[r][0].page, h, g)
  BY <1>8, <1>9, <1>10 DEF IsStack
<1>12. F \ {r} = {g[j] : j \in 1 .. h}
  <2>1. \A j \in 1 .. h : s[j] # s[k]
    BY <1>2, <1>5 DEF IsStack
  <2> QED
    BY <1>2, <1>3, <1>5, <1>7, <2>1
<1> QED
  BY <1>5, <1>7, <1>11, <1>12 DEF Stack

\* pmm_free_page() puts a page on top.
LEMMA StackPush ==
  ASSUME NEW m, NEW r, NEW F, Stack(m, r, F), NEW p \in Pages, p \notin F,
         m[p][0].page = r
  PROVE  Stack(m, p, F \cup {p})
<1>1. PICK k \in Nat : \E s \in [1 .. k -> Pages] :
        IsStack(m, r, k, s) /\ F = {s[j] : j \in 1 .. k}
  BY DEF Stack
<1>2. PICK s \in [1 .. k -> Pages] : IsStack(m, r, k, s) /\ F = {s[j] : j \in 1 .. k}
  BY <1>1
<1>3. PICK h : h = k + 1
  OBVIOUS
<1>4. /\ h \in Nat /\ h # 0 /\ k = h - 1 /\ h \in 1 .. h
      /\ \A j \in 1 .. k : j \in 1 .. h /\ j # h
      /\ \A j \in 1 .. h : j = h \/ j \in 1 .. k
      /\ h = 1 <=> k = 0
  BY <1>3
<1>5. PICK g : g = [j \in 1 .. h |-> IF j = h THEN p ELSE s[j]]
  OBVIOUS
<1>6. g \in [1 .. h -> Pages] /\ g[h] = p /\ \A j \in 1 .. k : g[j] = s[j]
  BY <1>4, <1>5
<1>7. \A j \in 1 .. k : s[j] # p
  BY <1>2
<1>8. \A i, j \in 1 .. h : g[i] = g[j] => i = j
  BY <1>2, <1>4, <1>6, <1>7 DEF IsStack
<1>9. ASSUME NEW j \in 1 .. h
      PROVE  m[g[j]][0].page = IF j = 1 THEN NULL ELSE g[j - 1]
  <2>1. r = IF k = 0 THEN NULL ELSE s[k]
    BY <1>2 DEF IsStack
  <2>2. CASE j = h
    <3>1. k # 0 => g[k] = s[k]
      BY <1>6
    <3> QED
      BY <1>4, <1>6, <2>1, <2>2, <3>1
  <2>3. CASE j # h
    <3>1. j \in 1 .. k
      BY <1>4, <2>3
    <3>2. m[s[j]][0].page = IF j = 1 THEN NULL ELSE s[j - 1]
      BY <1>2, <3>1 DEF IsStack
    <3>3. j # 1 => j - 1 \in 1 .. k
      BY <3>1
    <3> QED
      BY <1>6, <3>1, <3>2, <3>3
  <2> QED
    BY <2>2, <2>3
<1>10. IsStack(m, p, h, g)
  BY <1>4, <1>6, <1>8, <1>9 DEF IsStack
<1>11. F \cup {p} = {g[j] : j \in 1 .. h}
  BY <1>2, <1>4, <1>6
<1> QED
  BY <1>4, <1>6, <1>10, <1>11 DEF Stack

\* pmm_init() pushes all pages.
LEMMA StackInit ==
  ASSUME NEW m,
         \A p \in Pages : m[p][0].page = IF p = FREE_START THEN NULL ELSE p - 1
  PROVE  Stack(m, DDR_LAST, Pages)
<1>1. PICK k : k = DDR_LAST - FREE_START + 1
  OBVIOUS
<1>2. PICK g : g = [j \in 1 .. k |-> FREE_START + j - 1]
  OBVIOUS
<1>3. k \in Nat /\ k # 0 /\ k \in 1 .. k
  BY <1>1
<1>4. \A j \in 1 .. k : g[j] = FREE_START + j - 1 /\ g[j] \in Pages
  BY <1>1, <1>2 DEF Pages
<1>5. g \in [1 .. k -> Pages]
  BY <1>2, <1>4
<1>6. DDR_LAST = g[k]
  BY <1>1, <1>3, <1>4
<1>7. \A i, j \in 1 .. k : g[i] = g[j] => i = j
  BY <1>4
<1>8. ASSUME NEW j \in 1 .. k
      PROVE  m[g[j]][0].page = IF j = 1 THEN NULL ELSE g[j - 1]
  <2>1. m[g[j]][0].page = IF g[j] = FREE_START THEN NULL ELSE g[j] - 1
    BY <1>4
  <2>2. j # 1 => j - 1 \in 1 .. k
    BY <1>3
  <2> QED
    BY <1>3, <1>4, <2>1, <2>2
<1>9. Pages = {g[j] : j \in 1 .. k}
  <2>1. ASSUME NEW p \in Pages
        PROVE  \E j \in 1 .. k : g[j] = p
    <3>1. p - FREE_START + 1 \in 1 .. k
      BY <1>1 DEF Pages
    <3>2. g[p - FREE_START + 1] = p
      BY <1>4, <3>1 DEF Pages
    <3> QED
      BY <3>1, <3>2
  <2> QED
    BY <1>4, <2>1
<1>10. IsStack(m, DDR_LAST, k, g)
  BY <1>3, <1>6, <1>7, <1>8 DEF IsStack
<1> QED
  BY <1>3, <1>5, <1>9, <1>10 DEF Stack

LEMMA PagesFinite == IsFiniteSet(Pages) /\ Cardinality(Pages) \in Nat
BY FS_Interval, FS_CardinalityType DEF Pages

\* What following the list from the root meets are the pages of F.
LEMMA FreePagesAre ==
  ASSUME NEW F, Stack(mem, root, F)
  PROVE  FreePages = F
<1>1. PICK k \in Nat : \E s \in [1 .. k -> Pages] :
        IsStack(mem, root, k, s) /\ F = {s[j] : j \in 1 .. k}
  BY DEF Stack
<1>2. PICK s \in [1 .. k -> Pages] : IsStack(mem, root, k, s) /\ F = {s[j] : j \in 1 .. k}
  BY <1>1
<1> DEFINE Is(f) == f = [i \in Nat |-> IF i = 0 THEN root ELSE After(f[i - 1])]
<1>3. PICK f : f = [i \in Nat |-> IF i < k THEN s[k - i] ELSE NULL]
  OBVIOUS
<1>4. \A i \in Nat : f[i] = IF i < k THEN s[k - i] ELSE NULL
  BY <1>3
<1>5. ASSUME NEW i \in Nat
      PROVE  f[i] = IF i = 0 THEN root ELSE After(f[i - 1])
  <2>1. root = IF k = 0 THEN NULL ELSE s[k]
    BY <1>2 DEF IsStack
  <2>2. CASE i = 0
    BY <1>4, <2>1, <2>2
  <2>3. CASE i # 0
    <3>1. PICK h : h = i - 1
      OBVIOUS
    <3>2. h \in Nat /\ i = h + 1
      BY <2>3, <3>1
    <3>3. CASE h < k
      <4>1. k - h \in 1 .. k /\ s[k - h] \in Pages /\ (k - h) - 1 = k - i
            /\ (i < k <=> k - h # 1)
        BY <3>2, <3>3
      <4>2. f[h] = s[k - h]
        BY <1>4, <3>2, <3>3
      <4>3. mem[s[k - h]][0].page = IF k - h = 1 THEN NULL ELSE s[(k - h) - 1]
        BY <1>2, <4>1 DEF IsStack
      <4>4. After(f[h]) = mem[s[k - h]][0].page
        BY <4>1, <4>2, PagesAre DEF After
      <4> QED
        BY <1>4, <2>3, <3>1, <4>1, <4>3, <4>4
    <3>4. CASE ~ (h < k)
      <4>1. f[h] = NULL /\ f[i] = NULL
        BY <1>4, <3>2, <3>4
      <4> QED
        BY <2>3, <3>1, <4>1 DEF After
    <3> QED
      BY <3>3, <3>4
  <2> QED
    BY <2>2, <2>3
<1>6. Is(f)
  BY <1>3, <1>5
<1>7. Is(FreePage)
  BY <1>6 DEF FreePage
<1>8. \A i \in Nat : FreePage[i] = IF i = 0 THEN root ELSE After(FreePage[i - 1])
  BY <1>7
<1>9. \A i \in Nat : FreePage[i] = f[i]
  <2> DEFINE S == {i \in Nat : FreePage[i] # f[i]}
  <2>1. SUFFICES ASSUME S # {}
                 PROVE  FALSE
    OBVIOUS
  <2>2. PICK i \in S : \A j \in S : i <= j
    BY <2>1, LeastNat
  <2>3. i # 0
    BY <1>5, <1>8
  <2>4. i - 1 \in Nat /\ FreePage[i - 1] = f[i - 1]
    BY <2>2, <2>3
  <2>5. FreePage[i] = f[i]
    BY <1>5, <1>8, <2>3, <2>4
  <2> QED
    BY <2>5
<1>10. k <= Cardinality(Pages)
  <2>1. s \in Injection(1 .. k, Pages)
    BY <1>2 DEF IsStack, Injection, IsInjective
  <2>2. Cardinality(1 .. k) <= Cardinality(Pages)
    BY <2>1, PagesFinite, FS_Injection
  <2>3. Cardinality(1 .. k) = k
    BY FS_Interval
  <2> QED
    BY <2>2, <2>3
<1>11. FreePages = {FreePage[i] : i \in 0 .. Cardinality(Pages)} \ {NULL}
  BY DEF FreePages
<1> HIDE DEF Is
<1>12. ASSUME NEW p \in FreePages
       PROVE  p \in F
  <2>1. PICK i \in 0 .. Cardinality(Pages) : p = FreePage[i] /\ p # NULL
    BY <1>11
  <2>2. i \in Nat
    BY PagesFinite
  <2>3. i < k /\ p = s[k - i] /\ k - i \in 1 .. k
    BY <1>4, <1>9, <2>1, <2>2
  <2> QED
    BY <1>2, <2>3
<1>13. ASSUME NEW p \in F
       PROVE  p \in FreePages
  <2>1. PICK j \in 1 .. k : p = s[j]
    BY <1>2
  <2>2. PICK i : i = k - j
    OBVIOUS
  <2>3. i \in Nat /\ i < k /\ k - i = j /\ i \in 0 .. Cardinality(Pages)
    BY <1>10, <2>2, PagesFinite
  <2>4. FreePage[i] = p
    BY <1>4, <1>9, <2>1, <2>3
  <2>5. p # NULL
    BY <2>1, PagesAre
  <2> QED
    BY <1>11, <2>3, <2>4, <2>5
<1> QED
  BY <1>12, <1>13

-----------------------------------------------------------------------------
(* What the invariant says about the properties *)

LEMMA RootIs ==
  ASSUME TypeOK, Control
  PROVE  /\ Root \in Pages \cup {NULL}
         /\ p_kernel_pgd # NULL => Root = p_kernel_pgd
         /\ pgd # NULL => Root = pgd
         /\ pgd = NULL /\ p_kernel_pgd = NULL => Root = NULL
<1>1. pgd \in Pages \cup {NULL} /\ p_kernel_pgd \in Pages \cup {NULL}
  BY DEF TypeOK
<1>2. pgd # NULL /\ p_kernel_pgd # NULL => pgd = p_kernel_pgd
  BY DEF Control
<1> QED
  BY <1>1, <1>2 DEF Root

LEMMA WalkSame ==
  /\ \A top, n : TableWalk(top, n) = WalkIn(mem, top, n)
  /\ \A top, n : TableWalk(top, n)' = WalkIn(mem', top, n)
<1>1. ASSUME NEW top, NEW n
      PROVE  TableWalk(top, n) = WalkIn(mem, top, n)
  BY Zenon DEF TableWalk, WalkIn, Down, DownIn
<1>2. ASSUME NEW top, NEW n
      PROVE  TableWalk(top, n)' = WalkIn(mem', top, n)
  BY Zenon DEF TableWalk, WalkIn, Down, DownIn
<1> QED
  BY <1>1, <1>2

LEMMA TranslateIs ==
  ASSUME TypeOK, Control, Registers, NEW N \in Trees, NEW M \in Maps,
         Tree(mem, Root, N, M), NEW v \in {"low", "high"} \X (0 .. VPages - 1)
  PROVE  Translate(v) = View(M, ttbr0, ttbr1, v)
<1> DEFINE top == IF v[1] = "low" THEN ttbr0 ELSE ttbr1
<1>1. v[2] \in 0 .. VPages - 1
  OBVIOUS
<1>2. top = BOOT \/ top = NULL \/ (top = Root /\ top # NULL /\ top # BOOT)
  <2>1. ttbr0 = BOOT \/ ttbr0 = NULL
    BY DEF Registers
  <2>2. ttbr1 = BOOT \/ (ttbr1 = p_kernel_pgd /\ p_kernel_pgd # NULL)
    BY DEF Registers, Control
  <2>3. p_kernel_pgd # BOOT
    BY PagesAre DEF TypeOK
  <2> QED
    BY <2>1, <2>2, <2>3, RootIs
<1>3. WalkIn(mem, Root, v[2]) = Seen(M[v[2]])
  BY <1>1, WalkIs
<1>4. TableWalk(Root, v[2]) = Seen(M[v[2]])
  BY <1>3, WalkSame
<1> QED
  BY <1>2, <1>4, PagesAre DEF Translate, View

LEMMA RamIs ==
  ASSUME TypeOK, Control, Registers, NEW N, NEW M, NEW F, NEW ram, NEW dev,
         Ghosts(N, M, F, ram, dev), Good(N, M, F, ram, dev)
  PROVE  RamMapped
<1> SUFFICES ASSUME NEW p \in Ram
             PROVE  Translate(<<"high", p>>) = <<p, "normal">>
  BY Zenon DEF RamMapped, p2v
<1>1. p \in Nat /\ DDR_START <= p /\ p <= DDR_LAST /\ p \in 0 .. VPages - 1
  BY Sizes DEF Ram
<1>2. Translate(<<"high", p>>) = View(M, ttbr0, ttbr1, <<"high", p>>)
  BY <1>1, TranslateIs DEF Ghosts, Good
<1>3. CASE ttbr1 = BOOT
  <2>1. ~ (p < Block) /\ p < 2 * Block
    BY <1>1, Sizes, VmmAssumption
  <2> QED
    BY <1>2, <1>3, <2>1 DEF View, BootWalk
<1>4. CASE ttbr1 # BOOT
  <2>1. ttbr1 # NULL
    BY <1>4 DEF Registers, Control
  <2>2. ram = DDR_LAST + 1
    BY <1>4 DEF Good, Progress
  <2>3. M[p] = Word("normal", p)
    BY <1>1, <2>2 DEF Good, Mapping
  <2> QED
    BY <1>2, <1>4, <2>1, <2>3, WordIs DEF View, Seen
<1> QED
  BY <1>3, <1>4

LEMMA UartIs ==
  /\ UART \in 0 .. Block - 1 /\ UART \in 0 .. VPages - 1
  /\ BootRequests[1][1] \div PAGE_SIZE = UART
  /\ PagesOf(BootRequests[1][1] % PAGE_SIZE, BootRequests[1][2]) >= 1
<1>1. PICK addr, size : addr = BootRequests[1][1] /\ size = BootRequests[1][2]
  OBVIOUS
<1>2. 1 \in DOMAIN BootRequests
  BY VmmAssumption, RequestsAssumption
<1>3. addr \in Nat /\ size \in Nat /\ size > 0
  BY <1>1, <1>2, VmmAssumption, RequestsAssumption
<1>4. PAGE_SIZE \in Nat /\ PAGE_SIZE > 0
  BY DdrAssumption
<1>5. addr \div PAGE_SIZE \in Nat /\ addr % PAGE_SIZE \in Nat
  BY <1>3, <1>4
<1>6. PagesOf(addr % PAGE_SIZE, size) >= 1
  BY <1>3, <1>4, <1>5 DEF PagesOf
<1>7. addr \div PAGE_SIZE + PagesOf(addr % PAGE_SIZE, size) <= Block
  BY <1>1, <1>2, RequestsAssumption
<1>8. PagesOf(addr % PAGE_SIZE, size) \in Int
  BY <1>3, <1>4, <1>5 DEF PagesOf
<1>9. UART = addr \div PAGE_SIZE
  BY <1>1, RequestsAssumption
<1>10. UART \in 0 .. Block - 1 /\ UART \in 0 .. VPages - 1
  BY <1>5, <1>6, <1>7, <1>8, <1>9, Sizes
<1> QED
  BY <1>1, <1>6, <1>9, <1>10

LEMMA ConsoleIs ==
  ASSUME TypeOK, Control, Registers, NEW N, NEW M, NEW F, NEW ram, NEW dev,
         Ghosts(N, M, F, ram, dev), Good(N, M, F, ram, dev)
  PROVE  ConsoleMapped
<1> SUFFICES ASSUME Printing
             PROVE  Translate(p_reg_base) = <<UART, "device">>
  BY DEF ConsoleMapped
<1>1. Translate(p_reg_base) = View(M, ttbr0, ttbr1, p_reg_base)
  BY TranslateIs DEF Ghosts, Good, TypeOK
<1>2. CASE regions # {}
  <2>1. p_reg_base[1] = "high" /\ M[p_reg_base[2]] = Word("device", UART)
    BY <1>2 DEF Good, Printer
  <2>2. ttbr1 # BOOT /\ ttbr1 # NULL
    <3>1. ttbr1 = p_kernel_pgd /\ p_kernel_pgd # NULL
      BY <1>2 DEF Registers, Good, Printer, Fresh
    <3> QED
      BY <3>1, PagesAre DEF TypeOK
  <2> QED
    BY <1>1, <2>1, <2>2, WordIs DEF View, Seen
<1>3. CASE regions = {}
  <2>1. Fresh
    BY <1>3 DEF Printing, TypeOK, Fresh
  <2>2. p_reg_base = <<"low", UART>> /\ ttbr0 = BOOT
    BY <2>1 DEF Good, Printer, Registers, Fresh
  <2> QED
    BY <1>1, <2>2, UartIs, Sizes DEF View, BootWalk
<1> QED
  BY <1>2, <1>3

LEMMA TlbIs ==
  ASSUME TypeOK, Control, Registers, NEW N, NEW M, NEW F, NEW ram, NEW dev,
         Ghosts(N, M, F, ram, dev), Good(N, M, F, ram, dev)
  PROVE  TlbFresh
<1> SUFFICES ASSUME NEW e \in tlb
             PROVE  Translate(e[1]) = e[2]
  BY DEF TlbFresh
<1>1. e[1] \in Probes /\ e[2] = View(M, ttbr0, ttbr1, e[1])
  BY DEF Good, Cached
<1>2. e[1] \in {"low", "high"} \X (0 .. VPages - 1)
  BY <1>1, VmmAssumption
<1> QED
  BY <1>1, <1>2, TranslateIs DEF Ghosts, Good

\* Byte i of a region is in its page (o + i) \div PAGE_SIZE.
LEMMA BytesIn ==
  ASSUME NEW addr \in Nat, NEW size \in Nat, NEW i \in 0 .. size - 1
  PROVE  LET j == ((addr % PAGE_SIZE) + i) \div PAGE_SIZE
         IN /\ j \in 0 .. PagesOf(addr % PAGE_SIZE, size) - 1
            /\ (addr + i) \div PAGE_SIZE = addr \div PAGE_SIZE + j
<1>1. PICK P : P = PAGE_SIZE
  OBVIOUS
<1>2. P \in Nat /\ P > 0
  BY <1>1, DdrAssumption
<1>3. PICK q, o : q = addr \div P /\ o = addr % P
  OBVIOUS
<1>4. q \in Nat /\ o \in Nat /\ o < P /\ addr = q * P + o
  BY <1>2, <1>3
<1>5. PICK j : j = (o + i) \div P
  OBVIOUS
<1>6. j \in Nat /\ j * P <= o + i /\ o + i < j * P + P
  BY <1>2, <1>4, <1>5
<1>7. (addr + i) \div P = q + j
  <2>1. addr + i = (q + j) * P + (o + i - j * P)
    BY <1>2, <1>4, <1>6
  <2>2. o + i - j * P \in 0 .. P - 1
    BY <1>2, <1>4, <1>6
  <2> QED
    BY <1>2, <1>4, <1>6, <2>1, <2>2
<1>8. j + 1 <= (size + o + P - 1) \div P
  <2>1. (j + 1) * P <= size + o + P - 1
    BY <1>2, <1>4, <1>6
  <2> QED
    BY <1>2, <1>4, <1>6, <2>1
<1>9. (size + o + P - 1) \div P \in Nat
  BY <1>2, <1>4
<1> QED
  BY <1>1, <1>3, <1>5, <1>6, <1>7, <1>8, <1>9 DEF PagesOf

LEMMA RegionsAre ==
  ASSUME TypeOK, Control, Registers, NEW N, NEW M, NEW F, NEW ram, NEW dev,
         Ghosts(N, M, F, ram, dev), Good(N, M, F, ram, dev)
  PROVE  RegionsMapped
<1> SUFFICES ASSUME NEW r \in regions, NEW i \in 0 .. r.size - 1
             PROVE  Translate(<<"high", Virtual(r, i)>>) =
                      <<(r.pa + i) \div PAGE_SIZE, "device">>
  BY DEF RegionsMapped
<1>1. PICK addr, size, v : addr = r.pa /\ size = r.size /\ v = r.va
  OBVIOUS
<1>2. addr \in Nat /\ size \in Nat /\ v \in Nat /\ v >= VMALLOC_START
  BY <1>1, Sizes DEF TypeOK, Good, Returns
<1>3. PICK j : j = ((addr % PAGE_SIZE) + i) \div PAGE_SIZE
  OBVIOUS
<1>4. /\ j \in 0 .. PagesOf(addr % PAGE_SIZE, size) - 1
      /\ (addr + i) \div PAGE_SIZE = addr \div PAGE_SIZE + j
  <2>1. i \in 0 .. size - 1
    BY <1>1
  <2> QED
    BY <1>2, <1>3, <2>1, BytesIn, Zenon
<1>5. M[v + j] = Word("device", addr \div PAGE_SIZE + j)
  <2>1. Backed(M, v, addr, PagesOf(addr % PAGE_SIZE, size))
    BY <1>1 DEF Good, Returns
  <2> QED
    BY <1>4, <2>1 DEF Backed
<1>6. Virtual(r, i) = v + j
  BY <1>1, <1>3 DEF Virtual
<1>7. v + j \in 0 .. VPages - 1
  <2>1. PICK n : n = v + j
    OBVIOUS
  <2>2. n \in Nat /\ n >= VMALLOC_START /\ M[n] # ZERO
    BY <1>2, <1>4, <1>5, <2>1, Sizes, WordIs
  <2>3. n \notin DDR_START .. ram - 1
    BY <2>2, Sizes DEF Good, Mapping
  <2>4. n \in VMALLOC_START .. dev - 1 /\ dev \in VMALLOC_START .. VPages
    BY <2>2, <2>3 DEF Good, Mapping
  <2> QED
    BY <2>1, <2>2, <2>4, Sizes
<1>8. Translate(<<"high", v + j>>) = View(M, ttbr0, ttbr1, <<"high", v + j>>)
  BY <1>7, TranslateIs DEF Ghosts, Good
<1>9. ttbr1 # BOOT /\ ttbr1 # NULL
  <2>1. ttbr1 = p_kernel_pgd /\ p_kernel_pgd # NULL
    BY DEF Registers, Good, Printer, Fresh
  <2> QED
    BY <2>1, PagesAre DEF TypeOK
<1>10. Translate(<<"high", v + j>>) = <<addr \div PAGE_SIZE + j, "device">>
  BY <1>5, <1>8, <1>9, WordIs DEF View, Seen
<1> QED
  BY <1>1, <1>4, <1>6, <1>10

-----------------------------------------------------------------------------
(* Every page has one owner *)

Layer(N, l) == {N[l][b] : b \in Nat} \cap Pages

LEMMA BelowIs ==
  ASSUME NEW N \in Trees, NEW M, Tree(mem, Root, N, M), NEW l \in 0 .. 2
  PROVE  TablesBelow(Layer(N, l)) = Layer(N, l + 1)
<1>1. Follows(mem, N)
  BY DownIs
<1>2. \A t, i : Down(t, i) = DownIn(mem, t, i)
  BY Zenon DEF Down, DownIn
<1>3. ASSUME NEW p \in TablesBelow(Layer(N, l))
      PROVE  p \in Layer(N, l + 1)
  <2>1. PICK t \in Layer(N, l) : p \in {Down(t, i) : i \in Indices} \cap Pages
    BY <1>3 DEF TablesBelow
  <2>2. PICK i \in Indices : p = Down(t, i) /\ p \in Pages
    BY <2>1
  <2>3. PICK b \in Nat : t = N[l][b]
    BY <2>1 DEF Layer
  <2>4. p = N[l + 1][Sub(b, i)] /\ Sub(b, i) \in Nat
    BY <1>1, <1>2, <2>2, <2>3, SubIs DEF Follows
  <2> QED
    BY <2>2, <2>4 DEF Layer
<1>4. ASSUME NEW p \in Layer(N, l + 1)
      PROVE  p \in TablesBelow(Layer(N, l))
  <2>1. PICK c \in Nat : p = N[l + 1][c] /\ p \in Pages
    BY <1>4 DEF Layer
  <2>2. PICK b, i : b = Up(c) /\ i = At(c)
    OBVIOUS
  <2>3. b \in Nat /\ i \in Indices /\ Sub(b, i) = c
    BY <2>2, UpIs
  <2>4. N[l][b] # NULL
    <3>1. N[l + 1][c] # NULL
      BY <2>1, PagesAre
    <3>2. l + 1 \in 1 .. 3 /\ (l + 1) - 1 = l
      OBVIOUS
    <3> QED
      BY <2>2, <3>1, <3>2 DEF Tree, Rooted
  <2>5. N[l][b] \in Layer(N, l)
    BY <2>3, <2>4, TreesAre DEF Layer
  <2>6. Down(N[l][b], i) = p
    BY <1>1, <1>2, <2>1, <2>3 DEF Follows
  <2> QED
    BY <2>1, <2>3, <2>5, <2>6 DEF TablesBelow
<1> QED
  BY <1>3, <1>4

LEMMA TablesAre ==
  ASSUME NEW N \in Trees, NEW M, Tree(mem, Root, N, M)
  PROVE  Tables = {p \in Pages : IsTable(N, p)}
<1>1. {Root} \cap Pages = Layer(N, 0)
  <2>1. N[0][0] = Root /\ \A b \in Nat : b # 0 => N[0][b] = NULL
    BY DEF Tree, Rooted
  <2> QED
    BY <2>1, PagesAre DEF Layer
<1>2. TablesBelow(Layer(N, 0)) = Layer(N, 1)
  BY BelowIs
<1>3. TablesBelow(Layer(N, 1)) = Layer(N, 2)
  BY BelowIs
<1>4. TablesBelow(Layer(N, 2)) = Layer(N, 3)
  BY BelowIs
<1>5. Tables = Layer(N, 0) \cup Layer(N, 1) \cup Layer(N, 2) \cup Layer(N, 3)
  BY <1>1, <1>2, <1>3, <1>4 DEF Tables
<1>6. \A l \in 0 .. 3 : l = 0 \/ l = 1 \/ l = 2 \/ l = 3
  OBVIOUS
<1>7. \A p \in Pages : IsTable(N, p) <=>
        p \in Layer(N, 0) \cup Layer(N, 1) \cup Layer(N, 2) \cup Layer(N, 3)
  BY <1>6 DEF IsTable, Layer
<1> QED
  BY <1>5, <1>7 DEF Layer

\* A table other than the root has exactly one entry that points to it.
LEMMA OneEntry ==
  ASSUME NEW N \in Trees, NEW M \in Maps, Tree(mem, Root, N, M),
         NEW p \in Pages, IsTable(N, p), p # Root
  PROVE  Cardinality({e \in Tables \X Indices : Down(e[1], e[2]) = p}) = 1
<1>1. Follows(mem, N) /\ Single(N) /\ Rooted(N, Root) /\ Leaves(mem, N, M)
  BY DownIs DEF Tree
<1>2. \A t, i : Down(t, i) = DownIn(mem, t, i)
  BY Zenon DEF Down, DownIn
<1>3. p # NULL
  BY PagesAre
<1>4. PICK k \in 0 .. 3 : \E c \in Nat : N[k][c] = p
  BY DEF IsTable
<1>5. PICK c \in Nat : N[k][c] = p
  BY <1>4
<1>6. PICK l, b, i : l = k - 1 /\ b = Up(c) /\ i = At(c)
  OBVIOUS
<1>7. k # 0
  BY <1>1, <1>3, <1>5 DEF Rooted
<1>8. /\ l \in 0 .. 2 /\ k = l + 1 /\ b \in Nat /\ i \in Indices /\ Sub(b, i) = c
      /\ k \in 1 .. 3 /\ l \in 0 .. 3
  BY <1>6, <1>7, UpIs
<1>9. N[l][b] # NULL
  BY <1>1, <1>3, <1>5, <1>6, <1>8 DEF Rooted
<1>10. N[l][b] \in Tables
  <2>1. N[l][b] \in Pages /\ IsTable(N, N[l][b])
    BY <1>8, <1>9, TreesAre DEF IsTable
  <2> QED
    BY <2>1, TablesAre
<1>11. Down(N[l][b], i) = p
  BY <1>1, <1>2, <1>5, <1>8 DEF Follows
<1>12. ASSUME NEW t \in Tables, NEW j \in Indices, Down(t, j) = p
       PROVE  t = N[l][b] /\ j = i
  <2>1. PICK h \in 0 .. 3 : \E d \in Nat : N[h][d] = t
    BY TablesAre DEF IsTable
  <2>2. PICK d \in Nat : N[h][d] = t
    BY <2>1
  <2>3. t \in Pages
    BY TablesAre
  <2>4. Sub(d, j) \in Nat /\ Up(Sub(d, j)) = d /\ At(Sub(d, j)) = j
    BY SubIs
  <2>5. CASE h = 3
    <3>1. mem[t][j] = M[Sub(d, j)]
      BY <1>1, <2>2, <2>3, <2>5, PagesAre DEF Leaves
    <3>2. M[Sub(d, j)].kind # "table"
      BY <2>4, WordIs DEF Maps
    <3>3. Down(t, j) = NULL
      BY <3>1, <3>2 DEF Down
    <3> QED
      BY <1>3, <1>12, <3>3
  <2>6. CASE h # 3
    <3>1. h \in 0 .. 2 /\ h + 1 \in 0 .. 3
      BY <2>6
    <3>2. Down(t, j) = N[h + 1][Sub(d, j)]
      BY <1>1, <1>2, <2>2, <3>1 DEF Follows
    <3>3. N[h + 1][Sub(d, j)] = N[k][c] /\ N[h + 1][Sub(d, j)] # NULL
      BY <1>3, <1>5, <1>12, <3>2
    <3>4. h + 1 = k /\ Sub(d, j) = c
      BY <1>1, <2>4, <3>1, <3>3 DEF Single
    <3>5. h = l
      BY <1>8, <3>1, <3>4
    <3> QED
      BY <1>6, <2>2, <2>4, <3>4, <3>5
  <2> QED
    BY <2>5, <2>6
<1>13. {e \in Tables \X Indices : Down(e[1], e[2]) = p} = {<<N[l][b], i>>}
  <2>1. <<N[l][b], i>> \in {e \in Tables \X Indices : Down(e[1], e[2]) = p}
    BY <1>8, <1>10, <1>11
  <2>2. ASSUME NEW e \in Tables \X Indices, Down(e[1], e[2]) = p
        PROVE  e = <<N[l][b], i>>
    <3>1. e[1] \in Tables /\ e[2] \in Indices /\ e = <<e[1], e[2]>>
      OBVIOUS
    <3> QED
      BY <1>12, <2>2, <3>1
  <2> QED
    BY <2>1, <2>2
<1> QED
  BY <1>13, FS_Singleton

LEMMA AccountedIs ==
  ASSUME NEW N, NEW M, NEW F, NEW ram, NEW dev, TypeOK,
         Ghosts(N, M, F, ram, dev), Good(N, M, F, ram, dev)
  PROVE  PagesAccounted
<1> SUFFICES ASSUME phase # "pmm_init"
             PROVE  /\ FreePages \cup Tables \cup held = Pages
                    /\ FreePages \cap Tables = {} /\ FreePages \cap held = {}
                    /\ Tables \cap held = {}
                    /\ \A t \in Tables \ {Root} :
                         Cardinality({e \in Tables \X Indices : Down(e[1], e[2]) = t}) = 1
  BY DEF PagesAccounted
<1>1. Stack(mem, root, F) /\ Owned(N, F, held)
  BY DEF Good
<1>2. FreePages = F
  BY <1>1, FreePagesAre
<1>3. Tree(mem, Root, N, M)
  BY DEF Good
<1>4. Tables = {p \in Pages : IsTable(N, p)}
  BY <1>3, TablesAre DEF Ghosts
<1>5. F \subseteq Pages /\ held \subseteq Pages
  BY DEF Ghosts, TypeOK
<1>6. \A t \in Tables \ {Root} :
        Cardinality({e \in Tables \X Indices : Down(e[1], e[2]) = t}) = 1
  BY <1>3, <1>4, OneEntry DEF Ghosts
<1>7. FreePages \cup Tables \cup held = Pages
  BY <1>1, <1>2, <1>4, <1>5 DEF Owned
<1>8. FreePages \cap Tables = {} /\ FreePages \cap held = {} /\ Tables \cap held = {}
  BY <1>1, <1>2, <1>4, <1>5 DEF Owned
<1> QED
  BY <1>6, <1>7, <1>8

-----------------------------------------------------------------------------
(* The invariant holds at first *)

LEMMA InvInit == Init => Inv
<1> SUFFICES ASSUME Init
             PROVE  Inv
  OBVIOUS
<1>1. PICK N : N = [l \in 0 .. 3 |-> [b \in Nat |-> NULL]]
  OBVIOUS
<1>2. PICK M : M = [n \in Nat |-> ZERO]
  OBVIOUS
<1>3. N \in Trees /\ M \in Maps
  BY <1>1, <1>2 DEF Trees, Maps
<1>4. /\ \A l \in 0 .. 3, b \in Nat : N[l][b] = NULL
      /\ \A n \in Nat : M[n] = ZERO
  BY <1>1, <1>2
<1>5. TypeOK
  <2>1. \A p \in Pages, i \in Indices :
          JunkPage[i] \in [kind : {"junk", "zero", "pointer", "table", "normal", "device"},
                           page : Nat \cup {NULL}]
    BY DEF JunkPage, Word
  <2>2. JunkPage \in [Indices -> [kind : {"junk", "zero", "pointer", "table", "normal", "device"},
                                  page : Nat \cup {NULL}]]
    BY DEF JunkPage, Word
  <2>3. mem \in [Pages -> [Indices ->
          [kind : {"junk", "zero", "pointer", "table", "normal", "device"},
           page : Nat \cup {NULL}]]]
    BY <2>2 DEF Init
  <2>4. p_reg_base \in {"low", "high"} \X (0 .. VPages - 1)
    BY UartIs DEF Init
  <2>5. 0 \in 0 .. VPages /\ 0 \in 0 .. MaxCalls
    BY Sizes, VmmAssumption
  <2> QED
    BY <2>3, <2>4, <2>5 DEF Init, TypeOK
<1>6. Control /\ Registers
  BY DEF Init, Control, Registers
<1>7. Root = NULL
  BY DEF Init, Root
<1>8. Tree(mem, Root, N, M)
  <2>1. N[0][0] = NULL
    BY <1>4
  <2>2. Rooted(N, Root)
    BY <1>4, <1>7, <2>1 DEF Rooted
  <2> QED
    BY <1>4, <2>2 DEF Tree, Single, Linking, Leaves
<1>9. Mapping(M, DDR_START, VMALLOC_START)
  BY <1>4, Sizes DEF Mapping
<1>10. Progress(N, DDR_START, VMALLOC_START)
  <2>1. N[0][0] = NULL
    BY <1>4
  <2> QED
    BY <2>1, Sizes DEF Init, Progress
<1>11. Asked(M) /\ Returns(M, VMALLOC_START) /\ Printer(M) /\ Cached(M)
  BY DEF Init, Asked, Returns, Printer, Cached
<1>12. phase = "pmm_init"
  BY DEF Init
<1>13. Good(N, M, {}, DDR_START, VMALLOC_START)
  BY <1>8, <1>9, <1>10, <1>11, <1>12 DEF Good
<1>14. Ghosts(N, M, {}, DDR_START, VMALLOC_START)
  BY <1>3, Sizes DEF Ghosts
<1> QED
  BY <1>5, <1>6, <1>13, <1>14 DEF Inv, Keeps, Still

-----------------------------------------------------------------------------
(* A step that leaves the memory and the tables alone *)

LEMMA StepTlbFill ==
  ASSUME NEW N, NEW M, NEW F, NEW ram, NEW dev, Still(N, M, F, ram, dev),
         NEW v \in Probes, TlbFill(v)
  PROVE  Keeps(M)'
<1>1. TypeOK' /\ Control' /\ Registers'
  BY DEF Still, TypeOK, Control, Registers, TlbFill, loopVars, vmmVars, userVars, pmmVars
<1>2. v \in {"low", "high"} \X (0 .. VPages - 1)
  BY VmmAssumption
<1>3. Translate(v) = View(M, ttbr0, ttbr1, v)
  BY <1>2, TranslateIs DEF Still, Ghosts, Good
<1>4. Cached(M)'
  BY <1>3 DEF Cached, TlbFill
<1>5. Good(N, M, F, ram, dev)'
  BY <1>4 DEF Still, Good, TlbFill, Root, Progress, Asked, Returns, Printer, Fresh,
     loopVars, vmmVars, userVars, pmmVars
<1> QED
  BY <1>1, <1>5 DEF Still, Keeps, Ghosts

LEMMA StepVmmInit ==
  ASSUME NEW N, NEW M, NEW F, NEW ram, NEW dev, Still(N, M, F, ram, dev), VmmInit
  PROVE  Keeps(M)'
<1>1. Control' /\ Registers'
  BY DEF Still, Control, Registers, VmmInit, loopVars, mmuVars, userVars, pmmVars
<1>2. TypeOK'
  BY Sizes DEF Still, TypeOK, VmmInit, loopVars, mmuVars, userVars, pmmVars
<1>3. Root' = Root
  BY DEF Still, VmmInit, Root, Control, loopVars
<1>4. Progress(N, ram, dev)'
  BY DEF Still, Good, Progress, Control, VmmInit, Fresh, loopVars, mmuVars, userVars
<1>5. Asked(M)' /\ Returns(M, dev)' /\ Printer(M)' /\ Cached(M)'
  BY DEF Still, Good, Asked, Returns, Printer, Cached, Control, VmmInit, Fresh,
     loopVars, mmuVars, userVars
<1>6. Good(N, M, F, ram, dev)'
  BY <1>3, <1>4, <1>5 DEF Still, Good, VmmInit, pmmVars, userVars
<1> QED
  BY <1>1, <1>2, <1>6 DEF Still, Keeps, Ghosts

LEMMA StepMmuSetKernelPageTable ==
  ASSUME NEW N, NEW M, NEW F, NEW ram, NEW dev, Still(N, M, F, ram, dev),
         MmuSetKernelPageTable
  PROVE  Keeps(M)'
<1>1. Control' /\ Registers'
  BY DEF Still, Control, Registers, MmuSetKernelPageTable, loopVars, vmmVars, userVars, pmmVars
<1>2. TypeOK'
  BY DEF Still, TypeOK, MmuSetKernelPageTable, FlushTlbAll, loopVars, vmmVars, userVars, pmmVars
<1>3. Root' = Root
  BY DEF MmuSetKernelPageTable, Root, loopVars, vmmVars
<1>4. Progress(N, ram, dev)'
  BY DEF Still, Good, Progress, Control, MmuSetKernelPageTable, Fresh, loopVars, vmmVars, userVars
<1>5. Asked(M)' /\ Returns(M, dev)' /\ Printer(M)' /\ Cached(M)'
  BY DEF Still, Good, Asked, Returns, Printer, Cached, Control, MmuSetKernelPageTable,
     FlushTlbAll, Fresh, loopVars, vmmVars, userVars
<1>6. Good(N, M, F, ram, dev)'
  BY <1>3, <1>4, <1>5 DEF Still, Good, MmuSetKernelPageTable, pmmVars, userVars
<1> QED
  BY <1>1, <1>2, <1>6 DEF Still, Keeps, Ghosts

LEMMA StepMmuInvalidateUserPageTable ==
  ASSUME NEW N, NEW M, NEW F, NEW ram, NEW dev, Still(N, M, F, ram, dev),
         MmuInvalidateUserPageTable
  PROVE  Keeps(M)'
<1>1. Control' /\ Registers'
  BY DEF Still, Control, Registers, MmuInvalidateUserPageTable, loopVars, vmmVars, userVars,
     pmmVars
<1>2. TypeOK'
  BY DEF Still, TypeOK, MmuInvalidateUserPageTable, FlushTlbAll, loopVars, vmmVars, userVars,
     pmmVars
<1>3. Root' = Root
  BY DEF MmuInvalidateUserPageTable, Root, loopVars, vmmVars
<1>4. Progress(N, ram, dev)'
  <2>1. /\ op = "none" /\ calls = 0 /\ next_vaddr = VMALLOC_START /\ dev = VMALLOC_START
        /\ ram = DDR_LAST + 1
    BY DEF Still, Good, Progress, Printer, Control, MmuInvalidateUserPageTable, Fresh
  <2>2. VMALLOC_START <= VMALLOC_START + 0 * Block
    BY Sizes
  <2> QED
    BY <2>1, <2>2 DEF Still, Good, Progress, MmuInvalidateUserPageTable, Fresh, loopVars,
       vmmVars, userVars
<1>5. Asked(M)' /\ Returns(M, dev)' /\ Printer(M)' /\ Cached(M)'
  BY DEF Still, Good, Asked, Returns, Printer, Cached, Control, MmuInvalidateUserPageTable,
     FlushTlbAll, Fresh, loopVars, vmmVars, userVars
<1>6. Good(N, M, F, ram, dev)'
  BY <1>3, <1>4, <1>5 DEF Still, Good, MmuInvalidateUserPageTable, pmmVars, userVars
<1> QED
  BY <1>1, <1>2, <1>6 DEF Still, Keeps, Ghosts

LEMMA StepSetupDone ==
  ASSUME NEW N, NEW M, NEW F, NEW ram, NEW dev, Still(N, M, F, ram, dev), SetupDone
  PROVE  Keeps(M)'
<1>1. /\ phase = "setup" /\ pgd # NULL /\ p_kernel_pgd = NULL
  BY DEF Still, Control, SetupDone, TypeOK
<1>2. Control' /\ Registers'
  BY <1>1 DEF Still, Control, Registers, SetupDone, LoopDone, mmuVars, userVars, pmmVars
<1>3. TypeOK'
  BY Sizes DEF Still, TypeOK, SetupDone, LoopDone, mmuVars, userVars, pmmVars
<1>4. Root' = Root /\ Root # NULL
  BY <1>1 DEF SetupDone, LoopDone, Root
<1>5. Progress(N, ram, dev)'
  <2>1. N[0][0] # NULL
    BY <1>4 DEF Still, Good, Tree, Rooted
  <2>2. ram = DDR_LAST + 1
    BY DEF Still, Good, Progress, SetupDone, TypeOK
  <2> QED
    BY <1>1, <2>1, <2>2 DEF Still, Good, Progress, SetupDone, LoopDone, Fresh, mmuVars, userVars
<1>6. Asked(M)' /\ Returns(M, dev)' /\ Printer(M)' /\ Cached(M)'
  BY <1>1 DEF Still, Good, Asked, Returns, Printer, Cached, SetupDone, LoopDone, Fresh,
     mmuVars, userVars
<1>7. Good(N, M, F, ram, dev)'
  BY <1>1, <1>4, <1>5, <1>6 DEF Still, Good, SetupDone, pmmVars, userVars
<1> QED
  BY <1>2, <1>3, <1>7 DEF Still, Keeps, Ghosts

LEMMA StepIoremap ==
  ASSUME NEW N, NEW M, NEW F, NEW ram, NEW dev, Still(N, M, F, ram, dev),
         NEW addr \in Nat, NEW size \in Nat, Ioremap(addr, size),
         addr \div PAGE_SIZE + PagesOf(addr % PAGE_SIZE, size) <= Block,
         calls = 0 => <<addr, size>> = BootRequests[1]
  PROVE  Keeps(M)'
<1>1. PICK pages, first : pages = PagesOf(addr % PAGE_SIZE, size) /\ first = addr \div PAGE_SIZE
  OBVIOUS
<1>2. pages \in Nat /\ first \in Nat /\ first + pages <= Block
  <2>1. PAGE_SIZE \in Nat /\ PAGE_SIZE > 0
    BY DdrAssumption
  <2>2. addr % PAGE_SIZE \in Nat /\ addr \div PAGE_SIZE \in Nat
    BY <2>1
  <2>3. PagesOf(addr % PAGE_SIZE, size) \in Nat
    BY <2>1, <2>2 DEF PagesOf
  <2> QED
    BY <1>1, <2>2, <2>3
<1>3. /\ phase = "run" /\ op = "none" /\ p_kernel_pgd # NULL /\ level = 0
      /\ phase' = "run" /\ op' = "ioremap" /\ level' = 0
      /\ pgd' = p_kernel_pgd /\ table' = p_kernel_pgd /\ p_kernel_pgd' = p_kernel_pgd
      /\ va' = next_vaddr /\ pa' = first /\ left' = pages /\ next_vaddr' = next_vaddr + pages
      /\ asked' = <<addr, size>> /\ calls' = calls + 1
      /\ calls \in Nat /\ calls < MaxCalls
  BY <1>1 DEF Still, Control, Ioremap, Idle, NextVaddr, TypeOK
<1>4. /\ next_vaddr = dev /\ next_vaddr \in Nat /\ next_vaddr >= VMALLOC_START
      /\ next_vaddr <= VMALLOC_START + calls * Block
  BY <1>3, Sizes DEF Still, Good, Progress, Mapping, TypeOK
<1>5. next_vaddr' <= VMALLOC_START + (calls + 1) * Block /\ next_vaddr' <= VPages
  <2>1. (calls + 1) * Block = calls * Block + Block
    BY <1>3, Sizes
  <2>2. (calls + 1) * Block <= MaxCalls * Block
    BY <1>3, Sizes, VmmAssumption
  <2>3. MaxCalls * Block <= VPages - VMALLOC_START
    BY RequestsAssumption
  <2>4. calls * Block \in Nat /\ MaxCalls * Block \in Nat
    BY <1>3, Sizes, VmmAssumption
  <2> QED
    BY <1>2, <1>3, <1>4, <2>1, <2>2, <2>3, <2>4, Sizes
<1>6. Control' /\ Registers'
  BY <1>3 DEF Still, Control, Registers, Ioremap, mmuVars
<1>7. TypeOK'
  <2>1. calls + 1 \in 0 .. MaxCalls
    BY <1>3, VmmAssumption
  <2>2. next_vaddr' \in 0 .. VPages /\ va' \in 0 .. VPages
    BY <1>2, <1>3, <1>4, <1>5, Sizes DEF Still, TypeOK
  <2> QED
    BY <1>2, <1>3, <2>1, <2>2 DEF Still, TypeOK, Ioremap, mmuVars, pmmVars
<1>8. Root' = Root /\ Root = p_kernel_pgd
  BY <1>3, RootIs DEF Still, Root
<1>9. Progress(N, ram, dev)'
  <2>1. N[0][0] = p_kernel_pgd /\ Path(va', 0) = 0
    BY <1>8 DEF Still, Good, Tree, Rooted, Path
  <2>2. ttbr1' = ttbr1 /\ ram = DDR_LAST + 1
    BY <1>3 DEF Still, Good, Progress, Ioremap, mmuVars
  <2> QED
    BY <1>3, <1>4, <1>5, <2>1, <2>2 DEF Progress, Fresh
<1>10. Asked(M)'
  <2>1. PagesOf(addr % PAGE_SIZE, size) - left' = 0
    BY <1>1, <1>2, <1>3
  <2>2. asked'[1] = addr /\ asked'[2] = size
    BY <1>3
  <2>3. Backed(M, va', addr, 0)
    BY DEF Backed
  <2>4. va' - 0 = va' /\ pa' = first + 0
    <3>1. va' \in Int
      BY <1>3, <1>4
    <3> QED
      BY <1>2, <1>3, <3>1
  <2>5. calls' = 1 => asked' = BootRequests[1]
    BY <1>3
  <2> QED
    BY <1>1, <1>2, <1>3, <1>4, <2>1, <2>2, <2>3, <2>4, <2>5 DEF Asked, Backed
<1>11. Returns(M, dev)' /\ Printer(M)' /\ Cached(M)'
  BY <1>3 DEF Still, Good, Returns, Printer, Cached, Fresh, Ioremap, mmuVars
<1>12. Good(N, M, F, ram, dev)'
  BY <1>3, <1>8, <1>9, <1>10, <1>11 DEF Still, Good, Ioremap, pmmVars
<1> QED
  BY <1>6, <1>7, <1>12 DEF Still, Keeps, Ghosts

LEMMA StepIoremapReturns ==
  ASSUME NEW N, NEW M, NEW F, NEW ram, NEW dev, Still(N, M, F, ram, dev), IoremapReturns
  PROVE  Keeps(M)'
<1>1. PICK addr, size : addr = asked[1] /\ size = asked[2]
  OBVIOUS
<1>2. PICK pages : pages = PagesOf(addr % PAGE_SIZE, size)
  OBVIOUS
<1>3. PICK v : v = va - pages
  OBVIOUS
<1>4. /\ phase = "run" /\ op = "ioremap" /\ left = 0 /\ p_kernel_pgd # NULL /\ level = 0
      /\ pgd = p_kernel_pgd
  BY DEF Still, Control, IoremapReturns, TypeOK
<1>5. addr \in Nat /\ size \in Nat /\ va \in 0 .. VPages /\ va \in Nat
  BY <1>1, Sizes DEF Still, TypeOK
<1>6. /\ pages \in Nat /\ v >= VMALLOC_START /\ v \in 0 .. VPages
      /\ Backed(M, v, addr, pages)
      /\ calls = 1 => asked = BootRequests[1]
  <2>1. Asked(M) /\ PagesOf(asked[1] % PAGE_SIZE, asked[2]) = pages
    BY <1>1, <1>2 DEF Still, Good
  <2>2. pages - left \in Nat
    BY <1>4, <2>1 DEF Asked
  <2>3. pages \in Int
    <3>1. PAGE_SIZE \in Nat /\ PAGE_SIZE > 0
      BY DdrAssumption
    <3>2. addr % PAGE_SIZE \in Nat
      BY <1>5, <3>1
    <3> QED
      BY <1>2, <1>5, <3>1, <3>2 DEF PagesOf
  <2>4. pages - left = pages
    BY <1>4, <2>3
  <2>5. v >= VMALLOC_START /\ Backed(M, v, addr, pages) /\ pages \in Nat
    BY <1>1, <1>3, <1>4, <2>1, <2>2, <2>4 DEF Asked
  <2>6. v \in 0 .. VPages
    BY <1>3, <1>5, <2>5, Sizes
  <2> QED
    BY <1>4, <2>1, <2>5, <2>6 DEF Asked
<1>7. Returned = v
  BY <1>1, <1>2, <1>3 DEF Returned
<1>8. ASSUME calls = 1
      PROVE  v \in 0 .. VPages - 1 /\ M[v] = Word("device", UART)
  <2>1. addr = BootRequests[1][1] /\ size = BootRequests[1][2]
    BY <1>1, <1>6, <1>8
  <2>2. pages >= 1 /\ addr \div PAGE_SIZE = UART
    BY <1>2, <2>1, UartIs
  <2>3. M[v + 0] = Word("device", addr \div PAGE_SIZE + 0)
    BY <1>6, <2>2 DEF Backed
  <2>4. v + 0 = v /\ UART + 0 = UART
    <3>1. v \in Int /\ UART \in Int
      BY <1>6, UartIs, Sizes
    <3> QED
      BY <3>1
  <2>5. v \in 0 .. VPages - 1
    BY <1>3, <1>5, <1>6, <2>2, Sizes
  <2> QED
    BY <2>2, <2>3, <2>4, <2>5
<1>9. PICK r : r = [pa |-> addr, size |-> size, va |-> v]
  OBVIOUS
<1>10. regions' = regions \cup {r}
  BY <1>1, <1>7, <1>9 DEF IoremapReturns
<1>11. p_reg_base' = IF calls = 1 THEN <<"high", v>> ELSE p_reg_base
  BY <1>7 DEF IoremapReturns, UartIoremap
<1>12. Control' /\ Registers'
  BY <1>4 DEF Still, Control, Registers, IoremapReturns, LoopDone, vmmVars
<1>13. TypeOK'
  <2>1. r \in [pa : Nat, size : Nat, va : 0 .. VPages]
    BY <1>5, <1>6, <1>9
  <2>2. p_reg_base' \in {"low", "high"} \X (0 .. VPages - 1)
    BY <1>8, <1>11 DEF Still, TypeOK
  <2>3. 0 \in 0 .. VPages
    BY Sizes
  <2> QED
    BY <1>10, <2>1, <2>2, <2>3 DEF Still, TypeOK, IoremapReturns, LoopDone, FlushTlbAll,
       vmmVars, pmmVars
<1>14. Root' = Root
  BY <1>4, PagesAre DEF IoremapReturns, LoopDone, Root, vmmVars, Still, TypeOK
<1>15. Progress(N, ram, dev)'
  BY <1>4 DEF Still, Good, Progress, IoremapReturns, LoopDone, Fresh, vmmVars, TypeOK
<1>16. Returns(M, dev)'
  <2>1. r.va = v /\ r.pa = addr /\ r.size = size
    BY <1>9
  <2> QED
    BY <1>2, <1>6, <1>10, <2>1 DEF Still, Good, Returns
<1>17. Printer(M)'
  <2>1. phase' = "run" /\ regions' # {}
    BY <1>4, <1>10 DEF IoremapReturns
  <2>2. CASE calls = 1
    <3>1. p_reg_base' = <<"high", v>> /\ M[v] = Word("device", UART)
      BY <1>8, <1>11, <2>2
    <3> QED
      BY <2>1, <3>1 DEF Printer, Fresh
  <2>3. CASE calls # 1
    <3>1. regions # {}
      BY <1>4, <2>3 DEF Still, Good, Printer
    <3>2. p_reg_base' = p_reg_base
      BY <1>11, <2>3
    <3> QED
      BY <2>1, <3>1, <3>2 DEF Still, Good, Printer, Fresh
  <2> QED
    BY <2>2, <2>3
<1>18. Asked(M)' /\ Cached(M)'
  BY DEF Asked, Cached, IoremapReturns, LoopDone, FlushTlbAll
<1>19. Good(N, M, F, ram, dev)'
  BY <1>4, <1>14, <1>15, <1>16, <1>17, <1>18 DEF Still, Good, IoremapReturns, pmmVars
<1> QED
  BY <1>12, <1>13, <1>19 DEF Still, Keeps, Ghosts

-----------------------------------------------------------------------------
(* create_mapping() *)

\* Where it is, while there is a page left to map.
Stands(N, b, i, v) ==
  /\ v = va /\ v \in 0 .. VPages - 1 /\ v \in Nat
  /\ b = Path(v, level) /\ i = IndexAt(v, level)
  /\ b \in Nat /\ i \in Indices
  /\ table = N[level][b] /\ table \in Pages /\ table # NULL
  /\ level \in 0 .. 3
  /\ level < 3 => /\ level \in 0 .. 2 /\ level + 1 \in 0 .. 3
                  /\ Path(v, level + 1) = Sub(b, i) /\ Sub(b, i) \in Nat
                  /\ Leads(mem, table, i, N[level + 1][Sub(b, i)])
  /\ level = 3 => v = Sub(b, i)
  /\ \/ op = "setup" /\ phase = "setup"
     \/ op = "ioremap" /\ phase = "run"

LEMMA StandsAt ==
  ASSUME NEW N, NEW M, NEW F, NEW ram, NEW dev, Still(N, M, F, ram, dev), ~ Idle, left > 0
  PROVE  \E b, i, v : Stands(N, b, i, v)
<1>1. PICK v : v = va
  OBVIOUS
<1>2. /\ op # "none" /\ left \in Nat /\ left > 0 /\ level \in 0 .. 3 /\ v \in Nat
      /\ table \in Pages \cup {NULL} /\ next_vaddr \in 0 .. VPages
  BY <1>1, Sizes DEF Still, TypeOK, Idle
<1>3. \/ op = "setup" /\ phase = "setup"
      \/ op = "ioremap" /\ phase = "run"
  BY <1>2 DEF Still, Control, TypeOK
<1>4. v \in 0 .. VPages - 1
  <2>1. v + left = DDR_LAST + 1 \/ v + left = next_vaddr
    BY <1>1, <1>3 DEF Still, Good, Progress
  <2> QED
    BY <1>2, <2>1, Sizes
<1>5. PICK b, i : b = Path(v, level) /\ i = IndexAt(v, level)
  OBVIOUS
<1>6. b \in Nat /\ i \in Indices
  BY <1>2, <1>4, <1>5, PathIs
<1>7. table = N[level][b] /\ table # NULL /\ table \in Pages
  BY <1>1, <1>2, <1>5 DEF Still, Good, Progress
<1>8. ASSUME level < 3
      PROVE  /\ level \in 0 .. 2 /\ level + 1 \in 0 .. 3
             /\ Path(v, level + 1) = Sub(b, i) /\ Sub(b, i) \in Nat
             /\ Leads(mem, table, i, N[level + 1][Sub(b, i)])
  <2>1. level \in 0 .. 2 /\ level + 1 \in 0 .. 3
    BY <1>2, <1>8
  <2>2. Path(v, level + 1) = Sub(b, i) /\ Sub(b, i) \in Nat
    BY <1>4, <1>5, <1>6, <2>1, PathIs, SubIs
  <2>3. Linking(mem, N)
    BY DEF Still, Good, Tree
  <2>4. Leads(mem, table, i, N[level + 1][Sub(b, i)])
    BY <1>6, <1>7, <2>1, <2>3 DEF Linking
  <2>5. Leads(mem, table, i, N[level + 1][Sub(b, i)])
    BY <1>3, <2>4 DEF Leads
  <2> QED
    BY <2>1, <2>2, <2>5
<1>9. level = 3 => v = Sub(b, i)
  BY <1>4, <1>5, PathIs
<1>10. Stands(N, b, i, v)
  BY <1>1, <1>2, <1>3, <1>4, <1>5, <1>6, <1>7, <1>8, <1>9 DEF Stands
<1> QED
  BY <1>10

LEMMA StepDescendTable ==
  ASSUME NEW N, NEW M, NEW F, NEW ram, NEW dev, Still(N, M, F, ram, dev), DescendTable
  PROVE  Keeps(M)'
<1>1. PICK b, i, v : Stands(N, b, i, v)
  BY StandsAt DEF DescendTable
<1>2. /\ level \in 0 .. 2 /\ level + 1 \in 0 .. 3
      /\ Path(v, level + 1) = Sub(b, i) /\ Sub(b, i) \in Nat /\ v = va
      /\ Leads(mem, table, i, N[level + 1][Sub(b, i)])
  BY <1>1 DEF Stands, DescendTable
<1>3. EntryAt = mem[table][i] /\ EntryAt # ZERO
  BY <1>1 DEF Stands, EntryAt, DescendTable
<1>4. N[level + 1][Sub(b, i)] # NULL /\ EntryAt.page = N[level + 1][Sub(b, i)]
  BY <1>2, <1>3, WordIs DEF Leads
<1>5. /\ table' = N[level + 1][Sub(b, i)] /\ level' = level + 1 /\ va' = va
      /\ table' \in Pages
  <2>1. N[level + 1][Sub(b, i)] \in Pages \cup {NULL}
    BY <1>2, TreesAre DEF Still, Ghosts
  <2> QED
    BY <1>4, <2>1 DEF DescendTable
<1>6. Control' /\ Registers'
  BY DEF Still, Control, Registers, DescendTable, mmuVars, vmmVars, userVars, pmmVars, Idle
<1>7. TypeOK'
  BY <1>2, <1>5 DEF Still, TypeOK, DescendTable, mmuVars, vmmVars, userVars, pmmVars
<1>8. Root' = Root
  BY DEF DescendTable, Root, vmmVars
<1>9. Progress(N, ram, dev)'
  <2>1. table' = N[level'][Path(va', level')] /\ table' # NULL
    BY <1>2, <1>4, <1>5
  <2> QED
    BY <2>1 DEF Still, Good, Progress, DescendTable, Fresh, mmuVars, vmmVars, userVars
<1>10. Asked(M)' /\ Returns(M, dev)' /\ Printer(M)' /\ Cached(M)'
  BY DEF Still, Good, Asked, Returns, Printer, Cached, DescendTable, Fresh, mmuVars,
     vmmVars, userVars
<1>11. Good(N, M, F, ram, dev)'
  BY <1>8, <1>9, <1>10 DEF Still, Good, DescendTable, pmmVars, userVars
<1> QED
  BY <1>6, <1>7, <1>11 DEF Still, Keeps, Ghosts

Words == [kind : {"junk", "zero", "pointer", "table", "normal", "device"}, page : Nat \cup {NULL}]

\* pmm_get_free_page() returns a page that is nobody's.
LEMMA GetsPage ==
  ASSUME NEW N, NEW M, NEW F, NEW ram, NEW dev, Still(N, M, F, ram, dev),
         phase # "pmm_init", GetFreePage
  PROVE  /\ root \in Pages /\ root # NULL /\ root \in F /\ ~ IsTable(N, root) /\ root \notin held
         /\ Stack(mem, root', F \ {root}) /\ root' \in Pages \cup {NULL}
<1>1. Stack(mem, root, F) /\ Owned(N, F, held) /\ root # NULL /\ F \subseteq Pages
  BY DEF Still, Good, GetFreePage, Ghosts
<1>2. root \in F /\ root \in Pages
  BY <1>1, StackEmpty
<1>3. ~ IsTable(N, root) /\ root \notin held
  BY <1>1, <1>2 DEF Owned
<1>4. Stack(mem, mem[root][0].page, F \ {root})
  BY <1>1, StackPop
<1>5. Stack(mem, root', F \ {root})
  BY <1>4 DEF GetFreePage
<1>6. root' \in (F \ {root}) \cup {NULL}
  BY <1>5, StackEmpty
<1> QED
  BY <1>1, <1>2, <1>3, <1>5, <1>6

LEMMA StepNewTable ==
  ASSUME NEW N, NEW M, NEW F, NEW ram, NEW dev, Still(N, M, F, ram, dev), NewTable
  PROVE  Keeps(M)'
<1>1. PICK b, i, v : Stands(N, b, i, v)
  BY StandsAt DEF NewTable
<1>2. PICK l, c, t, r : l = level /\ c = Sub(b, i) /\ t = table /\ r = root
  OBVIOUS
<1>a. level < 3
  BY DEF NewTable
<1>b. level \in 0 .. 2 /\ level + 1 # 0
  BY <1>1, <1>a DEF Stands
<1>3. /\ l \in 0 .. 2 /\ l \in 0 .. 3 /\ l + 1 \in 0 .. 3 /\ l + 1 # 0 /\ b \in Nat /\ i \in Indices
      /\ Path(v, l + 1) = c /\ c \in Nat /\ v = va
      /\ t = N[l][b] /\ t \in Pages /\ t # NULL
      /\ Leads(mem, t, i, N[l + 1][c])
      /\ (op = "setup" /\ phase = "setup") \/ (op = "ioremap" /\ phase = "run")
  BY <1>1, <1>2, <1>a, <1>b DEF Stands
<1>4. mem[t][i] = ZERO /\ IndexAt(va, level) = i
  BY <1>1, <1>2 DEF Stands, EntryAt, NewTable
<1>5. N[l + 1][c] = NULL
  BY <1>3, <1>4, WordIs DEF Leads
<1>6. /\ r \in Pages /\ r # NULL /\ r \in F /\ ~ IsTable(N, r) /\ r \notin held
      /\ Stack(mem, root', F \ {r}) /\ root' \in Pages \cup {NULL}
  BY <1>2, <1>3, GetsPage DEF NewTable
<1>7. IsTable(N, t) /\ t # r
  BY <1>3, <1>6 DEF IsTable
<1>8. mem \in [Pages -> [Indices -> Words]]
  BY DEF Still, TypeOK, Words
<1>9. mem' = [mem EXCEPT ![r] = ZeroPage, ![t][i] = Word("table", r)]
  BY <1>2, <1>4 DEF NewTable
<1>10. Linked(mem', mem, t, i, r) /\ mem' \in [Pages -> [Indices -> Words]]
  <2>1. ZeroPage \in [Indices -> Words] /\ \A j \in Indices : ZeroPage[j] = ZERO
    BY DEF ZeroPage, ZERO, Word, Words
  <2>2. Word("table", r) \in Words
    BY <1>6, PagesAre DEF Word, Words
  <2>3. mem'[r] = ZeroPage
    BY <1>3, <1>6, <1>7, <1>8, <1>9
  <2>4. mem'[t] = [mem[t] EXCEPT ![i] = Word("table", r)]
    BY <1>3, <1>6, <1>7, <1>8, <1>9
  <2>5. \A p \in Pages : p # r /\ p # t => mem'[p] = mem[p]
    BY <1>8, <1>9
  <2>6. mem[t] \in [Indices -> Words]
    BY <1>3, <1>8
  <2>7. mem'[t] \in [Indices -> Words]
    BY <2>2, <2>4, <2>6
  <2>8. \A p \in Pages : mem'[p] \in [Indices -> Words]
    BY <1>8, <2>1, <2>3, <2>5, <2>7
  <2>9. mem' \in [Pages -> [Indices -> Words]]
    BY <1>8, <1>9, <2>8
  <2>10. \A j \in Indices : mem'[t][j] = IF j = i THEN Word("table", r) ELSE mem[t][j]
    BY <2>4, <2>6
  <2> QED
    BY <2>1, <2>3, <2>5, <2>9, <2>10 DEF Linked
<1>11. PICK N1 : N1 = Put(N, l + 1, c, r)
  OBVIOUS
<1>12. N \in Trees /\ M \in Maps /\ Tree(mem, Root, N, M)
  BY <1>3 DEF Still, Ghosts, Good
<1>13. PutIn(N1, N, l + 1, c, r)
  BY <1>3, <1>6, <1>11, <1>12, PutIs
<1>14. Tree(mem', Root, N1, M)
  <2>1. /\ N[l][b] # NULL /\ N[l + 1][Sub(b, i)] = NULL
        /\ Linked(mem', mem, N[l][b], i, r) /\ PutIn(N1, N, l + 1, Sub(b, i), r)
    BY <1>2, <1>3, <1>5, <1>10, <1>13
  <2> QED
    BY <1>3, <1>6, <1>12, <2>1, TreeAdd
<1>15. \A p \in Pages : IsTable(N1, p) <=> IsTable(N, p) \/ p = r
  BY <1>3, <1>5, <1>6, <1>12, <1>13, PutTables
<1>16. Owned(N, F, held) /\ held' = held
  BY <1>3 DEF Still, Good, NewTable, userVars
<1>17. Owned(N1, F \ {r}, held')
  BY <1>6, <1>15, <1>16 DEF Owned
<1>18. Stack(mem', root', F \ {r})
  <2>1. \A p \in F \ {r} : p \in Pages /\ p # t
    BY <1>3, <1>7, <1>16 DEF Owned, Still, Ghosts
  <2>2. \A p \in F \ {r} : mem'[p] = mem[p]
    BY <1>10, <2>1 DEF Linked
  <2> QED
    BY <1>6, <2>2, StackSame
<1>19. Control' /\ Registers'
  BY DEF Still, Control, Registers, NewTable, mmuVars, vmmVars, userVars, Idle
<1>20. TypeOK'
  <2>1. level' \in 0 .. 3 /\ table' \in Pages
    BY <1>2, <1>3, <1>6 DEF NewTable
  <2> QED
    BY <1>6, <1>10, <2>1 DEF Still, TypeOK, NewTable, mmuVars, vmmVars, userVars, Words
<1>21. Root' = Root /\ phase' = phase
  BY DEF NewTable, Root, vmmVars
<1>22. Progress(N1, ram, dev)'
  <2>1. table' = N1[level'][Path(va', level')] /\ table' # NULL
    <3>1. N1[l + 1][c] = r
      BY <1>3, <1>13 DEF PutIn
    <3> QED
      BY <1>2, <1>3, <1>6, <3>1 DEF NewTable
  <2>2. N1[0][0] = N[0][0]
    BY <1>3, <1>13 DEF PutIn
  <2> QED
    BY <2>1, <2>2 DEF Still, Good, Progress, NewTable, Fresh, mmuVars, vmmVars, userVars
<1>23. Asked(M)' /\ Returns(M, dev)' /\ Printer(M)' /\ Cached(M)'
  BY DEF Still, Good, Asked, Returns, Printer, Cached, NewTable, Fresh, mmuVars, vmmVars, userVars
<1>24. Good(N1, M, F \ {r}, ram, dev)'
  <2>1. Tree(mem', Root', N1, M)
    BY <1>3, <1>14, <1>21
  <2> QED
    BY <1>17, <1>18, <1>22, <1>23, <2>1 DEF Still, Good
<1>25. Ghosts(N1, M, F \ {r}, ram, dev)
  BY <1>13 DEF Ghosts, Still, PutIn
<1> QED
  BY <1>19, <1>20, <1>24, <1>25 DEF Keeps, Still

LEMMA StepNewTableFaults ==
  ASSUME NEW N, NEW M, NEW F, NEW ram, NEW dev, Still(N, M, F, ram, dev), NewTableFaults
  PROVE  Keeps(M)'
<1>1. op = "ioremap" /\ phase = "run" /\ mem' = mem /\ root' = root /\ held' = held
  BY DEF Still, Control, TypeOK, NewTableFaults, pmmVars, userVars
<1>2. Control' /\ Registers'
  BY <1>1 DEF Still, Control, Registers, NewTableFaults, mmuVars, vmmVars, userVars, Good,
     Printer, Fresh
<1>3. TypeOK'
  BY <1>1 DEF Still, TypeOK, NewTableFaults, mmuVars, vmmVars, userVars
<1>4. Root' = Root /\ phase' = "panic" /\ op' = "none"
  BY DEF NewTableFaults, Root, vmmVars
<1>5. Progress(N, ram, dev)'
  BY <1>1, <1>4 DEF Still, Good, Progress, NewTableFaults, Fresh, mmuVars, vmmVars, userVars
<1>6. Asked(M)' /\ Returns(M, dev)' /\ Printer(M)' /\ Cached(M)'
  BY <1>1, <1>4 DEF Still, Good, Asked, Returns, Printer, Cached, NewTableFaults, Fresh,
     mmuVars, vmmVars, userVars
<1>7. Good(N, M, F, ram, dev)'
  BY <1>1, <1>4, <1>5, <1>6 DEF Still, Good
<1> QED
  BY <1>2, <1>3, <1>7 DEF Keeps, Still

-----------------------------------------------------------------------------
(* Pages taken and given back *)

LEMMA StepBootPmmInit ==
  ASSUME NEW N, NEW M, NEW F, NEW ram, NEW dev, Still(N, M, F, ram, dev), BootPmmInit
  PROVE  Keeps(M)'
<1>1. /\ phase = "pmm_init" /\ phase' = "vmm_init" /\ op = "none" /\ held = {} /\ held' = held
      /\ N \in Trees /\ M \in Maps /\ Tree(mem, Root, N, M) /\ N[0][0] = NULL
  BY DEF Still, Ghosts, Good, Control, Printer, Progress, Fresh, BootPmmInit, userVars
<1>2. Root = NULL /\ Tree(mem, NULL, N, M)
  BY <1>1 DEF Tree, Rooted
<1>3. \A p \in Pages : ~ IsTable(N, p)
  BY <1>1, <1>2, TreeEmpty
<1>4. mem \in [Pages -> [Indices -> Words]]
  BY DEF Still, TypeOK, Words
<1>5. ASSUME NEW p \in Pages
      PROVE  /\ mem'[p] \in [Indices -> Words]
             /\ mem'[p][0].page = IF p = FREE_START THEN NULL ELSE p - 1
  <2>1. PICK q : q = IF p = FREE_START THEN NULL ELSE p - 1
    OBVIOUS
  <2>3. q \in Nat \cup {NULL}
    BY <2>1 DEF Pages
  <2>4. Pointer(q) \in Words /\ Pointer(q).page = q
    BY <2>3 DEF Pointer, ZERO, Word, Words
  <2>5. mem'[p] = [mem[p] EXCEPT ![0] = Pointer(q)]
    BY <2>1, LastPageIs DEF BootPmmInit, PmmInit, Pages
  <2>6. mem[p] \in [Indices -> Words]
    BY <1>4
  <2> QED
    BY <2>1, <2>4, <2>5, <2>6, WordIs
<1>6. mem' \in [Pages -> [Indices -> Words]]
  BY <1>5 DEF BootPmmInit, PmmInit
<1>7. Stack(mem', DDR_LAST, Pages)
  BY <1>5, StackInit
<1>8. Tree(mem', NULL, N, M)
  BY <1>1, <1>2, <1>3, TreeSame
<1>9. Owned(N, Pages, {})
  BY <1>3 DEF Owned
<1>10. Control' /\ Registers'
  BY <1>1 DEF Still, Control, Registers, BootPmmInit, loopVars, vmmVars, mmuVars, userVars
<1>11. root' = DDR_LAST /\ root' \in Pages
  BY LastPageIs DEF BootPmmInit, PmmInit, Pages
<1>12. TypeOK'
  BY <1>6, <1>11 DEF Still, TypeOK, BootPmmInit, loopVars, vmmVars, mmuVars, userVars, Words
<1>13. Root' = NULL
  BY <1>2 DEF BootPmmInit, loopVars, vmmVars, Root
<1>14. Progress(N, ram, dev)'
  BY <1>1 DEF Still, Good, Progress, Fresh, BootPmmInit, loopVars, vmmVars, mmuVars, userVars
<1>15. Asked(M)' /\ Returns(M, dev)' /\ Printer(M)' /\ Cached(M)'
  BY <1>1 DEF Still, Good, Asked, Returns, Printer, Cached, Fresh, BootPmmInit, loopVars,
     vmmVars, mmuVars, userVars
<1>16. Good(N, M, Pages, ram, dev)'
  <2>1. Tree(mem', Root', N, M)
    BY <1>1, <1>8, <1>13
  <2> QED
    BY <1>1, <1>7, <1>9, <1>11, <1>14, <1>15, <2>1 DEF Still, Good
<1> QED
  BY <1>10, <1>12, <1>16 DEF Keeps, Still, Ghosts

LEMMA StepTakePage ==
  ASSUME NEW N, NEW M, NEW F, NEW ram, NEW dev, Still(N, M, F, ram, dev), TakePage
  PROVE  Keeps(M)'
<1>1. phase = "run" /\ op = "none" /\ GetFreePage /\ mem' = mem /\ held' = held \cup {root}
  BY DEF TakePage, Idle
<1>2. PICK r : r = root
  OBVIOUS
<1>3. /\ r \in Pages /\ r # NULL /\ r \in F /\ ~ IsTable(N, r) /\ r \notin held
      /\ Stack(mem, root', F \ {r}) /\ root' \in Pages \cup {NULL}
  BY <1>1, <1>2, GetsPage
<1>4. Owned(N, F, held)
  BY <1>1 DEF Still, Good
<1>5. Owned(N, F \ {r}, held')
  BY <1>1, <1>2, <1>3, <1>4 DEF Owned
<1>6. Control' /\ Registers'
  BY DEF Still, Control, Registers, TakePage, loopVars, vmmVars, mmuVars
<1>7. TypeOK'
  BY <1>1, <1>2, <1>3 DEF Still, TypeOK, TakePage, loopVars, vmmVars, mmuVars
<1>8. Root' = Root
  BY DEF TakePage, Root, loopVars, vmmVars
<1>9. Progress(N, ram, dev)'
  BY DEF Still, Good, Progress, Fresh, TakePage, loopVars, vmmVars, mmuVars
<1>10. Asked(M)' /\ Returns(M, dev)' /\ Printer(M)' /\ Cached(M)'
  BY <1>1 DEF Still, Good, Asked, Returns, Printer, Cached, Fresh, TakePage, loopVars,
     vmmVars, mmuVars
<1>11. Good(N, M, F \ {r}, ram, dev)'
  BY <1>1, <1>3, <1>5, <1>8, <1>9, <1>10 DEF Still, Good, TakePage
<1>12. Ghosts(N, M, F \ {r}, ram, dev)
  BY DEF Still, Ghosts
<1> QED
  BY <1>6, <1>7, <1>11, <1>12 DEF Keeps, Still

LEMMA StepReturnPage ==
  ASSUME NEW N, NEW M, NEW F, NEW ram, NEW dev, Still(N, M, F, ram, dev),
         NEW p \in held, ReturnPage(p)
  PROVE  Keeps(M)'
<1>1. /\ phase = "run" /\ op = "none" /\ held' = held \ {p} /\ root' = p
      /\ mem' = [mem EXCEPT ![p][0] = Pointer(root)]
  BY DEF ReturnPage, Idle, PmmFreePage
<1>2. /\ Owned(N, F, held) /\ Stack(mem, root, F) /\ N \in Trees /\ M \in Maps
      /\ F \subseteq Pages /\ Tree(mem, Root, N, M)
  BY <1>1 DEF Still, Good, Ghosts
<1>3. p \in Pages /\ p \notin F /\ ~ IsTable(N, p)
  BY <1>2 DEF Owned, Still, TypeOK
<1>4. mem \in [Pages -> [Indices -> Words]]
  BY DEF Still, TypeOK, Words
<1>5. root \in Pages \cup {NULL}
  BY DEF Still, TypeOK
<1>6. Pointer(root) \in Words /\ Pointer(root).page = root
  BY <1>5, PagesAre DEF Pointer, ZERO, Word, Words
<1>7. /\ mem' \in [Pages -> [Indices -> Words]] /\ mem'[p][0].page = root
      /\ \A q \in Pages : q # p => mem'[q] = mem[q]
  BY <1>1, <1>3, <1>4, <1>6, WordIs
<1>8. Stack(mem', p, F \cup {p})
  <2>1. \A q \in F : mem'[q] = mem[q]
    BY <1>2, <1>3, <1>7
  <2>2. Stack(mem', root, F)
    BY <1>2, <2>1, StackSame
  <2> QED
    BY <1>3, <1>7, <2>2, StackPush
<1>9. Tree(mem', Root, N, M)
  BY <1>2, <1>3, <1>7, TreeSame
<1>10. Owned(N, F \cup {p}, held')
  BY <1>1, <1>2, <1>3 DEF Owned
<1>11. Control' /\ Registers'
  BY DEF Still, Control, Registers, ReturnPage, loopVars, vmmVars, mmuVars
<1>12. TypeOK'
  BY <1>1, <1>3, <1>7 DEF Still, TypeOK, ReturnPage, loopVars, vmmVars, mmuVars, Words
<1>13. Root' = Root
  BY DEF ReturnPage, Root, loopVars, vmmVars
<1>14. Progress(N, ram, dev)'
  BY DEF Still, Good, Progress, Fresh, ReturnPage, loopVars, vmmVars, mmuVars
<1>15. Asked(M)' /\ Returns(M, dev)' /\ Printer(M)' /\ Cached(M)'
  BY <1>1 DEF Still, Good, Asked, Returns, Printer, Cached, Fresh, ReturnPage, loopVars,
     vmmVars, mmuVars
<1>16. phase' = "run"
  BY <1>1 DEF ReturnPage
<1>17. Good(N, M, F \cup {p}, ram, dev)'
  BY <1>1, <1>8, <1>9, <1>10, <1>13, <1>14, <1>15, <1>16 DEF Still, Good
<1>18. Ghosts(N, M, F \cup {p}, ram, dev)
  BY <1>3 DEF Still, Ghosts
<1> QED
  BY <1>11, <1>12, <1>17, <1>18 DEF Keeps, Still

\* setup_page_tables() takes the page of the first table.
LEMMA StepSetupPageTables ==
  ASSUME NEW N, NEW M, NEW F, NEW ram, NEW dev, Still(N, M, F, ram, dev), SetupPageTables
  PROVE  Keeps(M)'
<1>1. /\ phase = "setup" /\ op = "none" /\ GetFreePage /\ phase' = "setup" /\ op' = "setup"
      /\ pgd' = root /\ table' = root /\ va' = DDR_START /\ pa' = DDR_START
      /\ left' = DDR_LAST - DDR_START + 1 /\ level' = level /\ level = 0 /\ held' = held
      /\ p_kernel_pgd' = NULL
  BY LastPageIs DEF Still, Control, SetupPageTables, Idle, PagesToMap, userVars, vmmVars
<1>2. PICK r : r = root
  OBVIOUS
<1>3. /\ r \in Pages /\ r # NULL /\ r \in F /\ ~ IsTable(N, r) /\ r \notin held
      /\ Stack(mem, root', F \ {r}) /\ root' \in Pages \cup {NULL}
  BY <1>1, <1>2, GetsPage
<1>4. /\ N \in Trees /\ M \in Maps /\ N[0][0] = NULL /\ Tree(mem, Root, N, M)
      /\ Owned(N, F, held)
  BY <1>1 DEF Still, Ghosts, Good, Progress
<1>5. Tree(mem, NULL, N, M)
  BY <1>4 DEF Tree, Rooted
<1>6. mem \in [Pages -> [Indices -> Words]]
  BY DEF Still, TypeOK, Words
<1>7. mem' = [mem EXCEPT ![r] = ZeroPage]
  BY <1>2 DEF SetupPageTables
<1>8. /\ mem' \in [Pages -> [Indices -> Words]] /\ mem'[r] = ZeroPage
      /\ \A p \in Pages : p # r => mem'[p] = mem[p]
  <2>1. ZeroPage \in [Indices -> Words]
    BY DEF ZeroPage, ZERO, Word, Words
  <2> QED
    BY <1>3, <1>6, <1>7, <2>1
<1>9. PICK N1 : N1 = Put(N, 0, 0, r)
  OBVIOUS
<1>10. PutIn(N1, N, 0, 0, r)
  BY <1>3, <1>4, <1>9, PutIs
<1>11. Tree(mem', r, N1, M)
  BY <1>3, <1>4, <1>5, <1>8, <1>10, TreeRoot
<1>12. \A p \in Pages : IsTable(N1, p) <=> IsTable(N, p) \/ p = r
  BY <1>3, <1>4, <1>10, PutTables
<1>13. Owned(N1, F \ {r}, held')
  BY <1>1, <1>3, <1>4, <1>12 DEF Owned
<1>14. Stack(mem', root', F \ {r})
  <2>1. \A p \in F \ {r} : mem'[p] = mem[p]
    BY <1>8 DEF Still, Ghosts
  <2> QED
    BY <1>3, <2>1, StackSame
<1>15. Control' /\ Registers'
  BY <1>1, <1>2, <1>3 DEF Still, Control, Registers, SetupPageTables, vmmVars, mmuVars, userVars
<1>16. TypeOK'
  <2>1. DDR_START \in 0 .. VPages
    BY Sizes
  <2> QED
    BY <1>1, <1>2, <1>3, <1>8, <2>1 DEF Still, TypeOK, SetupPageTables, vmmVars, mmuVars,
       userVars, Words
<1>17. Root' = r
  BY <1>1, <1>2, <1>3 DEF Root
<1>18. Progress(N1, ram, dev)'
  <2>1. N1[0][0] = r /\ Path(va', 0) = 0
    BY <1>10 DEF PutIn, Path
  <2>2. ram = DDR_START /\ va' + left' = DDR_LAST + 1
    BY <1>1, <1>4 DEF Still, Good, Progress
  <2> QED
    BY <1>1, <1>2, <1>3, <2>1, <2>2 DEF Still, Good, Progress, Fresh, SetupPageTables,
       vmmVars, mmuVars, userVars
<1>19. Asked(M)' /\ Returns(M, dev)' /\ Printer(M)' /\ Cached(M)'
  BY <1>1 DEF Still, Good, Asked, Returns, Printer, Cached, Fresh, SetupPageTables, vmmVars,
     mmuVars, userVars
<1>20. Good(N1, M, F \ {r}, ram, dev)'
  BY <1>1, <1>11, <1>13, <1>14, <1>17, <1>18, <1>19 DEF Still, Good
<1>21. Ghosts(N1, M, F \ {r}, ram, dev)
  BY <1>10 DEF Still, Ghosts, PutIn
<1> QED
  BY <1>15, <1>16, <1>20, <1>21 DEF Keeps, Still

-----------------------------------------------------------------------------
(* A page is mapped *)

\* M1 is M and one page more.
Grows(M, M1, v, w) ==
  M[v] = ZERO /\ Updated(M1, M, v, w)

LEMMA GrowsBacked ==
  ASSUME NEW M, NEW M1, NEW v \in Nat, NEW w, Grows(M, M1, v, w),
         NEW u \in Nat, NEW addr, NEW n, Backed(M, u, addr, n)
  PROVE  Backed(M1, u, addr, n)
<1> SUFFICES ASSUME NEW j \in 0 .. n - 1
             PROVE  M1[u + j] = Word("device", addr \div PAGE_SIZE + j)
  BY DEF Backed
<1>1. M[u + j] = Word("device", addr \div PAGE_SIZE + j)
  BY DEF Backed
<1>2. M[u + j] # ZERO
  BY <1>1, WordIs
<1>3. u + j \in Nat /\ u + j # v
  BY <1>2 DEF Grows, Updated
<1> QED
  BY <1>1, <1>3 DEF Grows, Updated

\* What was translated is translated as before.
LEMMA GrowsView ==
  ASSUME NEW M, NEW M1, NEW v \in Nat, NEW w, Grows(M, M1, v, w),
         NEW low, NEW high, NEW u \in {"low", "high"} \X (0 .. VPages - 1),
         View(M, low, high, u) # FAULT
  PROVE  View(M1, low, high, u) = View(M, low, high, u)
<1>1. PICK n : n = u[2]
  OBVIOUS
<1>2. n \in Nat
  BY <1>1
<1>3. M[n] # ZERO => M1[n] = M[n]
  BY <1>2 DEF Grows, Updated
<1> QED
  BY <1>1, <1>3 DEF View, Seen

\* What SetPte does to the map, as far as the steps after this one need it.
Maps1(M, M1, ram, dev, v, w) ==
  /\ M1 \in Maps /\ Grows(M, M1, v, w)
  /\ v \in 0 .. VPages - 1 /\ v \in Nat
  /\ mem' \in [Pages -> [Indices -> Words]]
  /\ \/ /\ op = "setup" /\ phase = "setup" /\ v = ram
        /\ v \in Ram /\ w = Word("normal", v) /\ Mapping(M1, v + 1, dev)
     \/ /\ op = "ioremap" /\ phase = "run" /\ v = dev
        /\ pa \in 0 .. Block - 1 /\ w = Word("device", pa) /\ Mapping(M1, ram, v + 1)

LEMMA PteIs ==
  ASSUME NEW N, NEW M, NEW F, NEW ram, NEW dev, Still(N, M, F, ram, dev), SetPte
  PROVE  \E M1, v, w : /\ Maps1(M, M1, ram, dev, v, w) /\ v = va
                       /\ Tree(mem', Root, N, M1) /\ Stack(mem', root, F)
<1>1. PICK b, i, v : Stands(N, b, i, v)
  BY StandsAt DEF SetPte
<1>2. PICK t, w : t = table /\ w = Word(IF op = "setup" THEN "normal" ELSE "device", pa)
  OBVIOUS
<1>3. /\ v = va /\ v \in 0 .. VPages - 1 /\ v \in Nat /\ b \in Nat /\ i \in Indices
      /\ t = N[3][b] /\ t \in Pages /\ t # NULL /\ v = Sub(b, i) /\ IndexAt(va, level) = i
      /\ (op = "setup" /\ phase = "setup") \/ (op = "ioremap" /\ phase = "run")
      /\ pa \in Nat /\ left \in Nat /\ left > 0
  BY <1>1, <1>2 DEF Stands, SetPte, Still, TypeOK
<1>4. /\ N \in Trees /\ M \in Maps /\ Tree(mem, Root, N, M) /\ F \subseteq Pages
      /\ Stack(mem, root, F) /\ Owned(N, F, held) /\ Mapping(M, ram, dev)
      /\ ram \in Nat /\ dev \in Nat
  BY <1>3 DEF Still, Ghosts, Good
<1>5. PICK M1 : M1 = [M EXCEPT ![v] = w]
  OBVIOUS
<1>6. w \in [kind : {"normal", "device"}, page : Nat] /\ w \in Words
  BY <1>2, <1>3 DEF Word, Words
<1>7. M1 \in Maps /\ \A n \in Nat : M1[n] = IF n = v THEN w ELSE M[n]
  BY <1>3, <1>4, <1>5, <1>6 DEF Maps
<1>8. mem \in [Pages -> [Indices -> Words]]
  BY DEF Still, TypeOK, Words
<1>9. mem' = [mem EXCEPT ![t][i] = w]
  BY <1>2, <1>3 DEF SetPte
<1>10. Entered(mem', mem, t, i, w) /\ mem' \in [Pages -> [Indices -> Words]]
  BY <1>3, <1>6, <1>8, <1>9 DEF Entered
<1>11. Tree(mem', Root, N, M1)
  <2>1. /\ N[3][b] # NULL /\ Entered(mem', mem, N[3][b], i, w)
        /\ Updated(M1, M, Sub(b, i), w)
    BY <1>3, <1>7, <1>10 DEF Updated
  <2> QED
    BY <1>3, <1>4, <2>1, TreePte
<1>12. Stack(mem', root, F)
  <2>0. IsTable(N, t)
    <3>1. 3 \in 0 .. 3
      OBVIOUS
    <3> QED
      BY <1>3, <3>1 DEF IsTable
  <2>1. \A p \in F : p \in Pages /\ p # t
    BY <1>4, <2>0 DEF Owned
  <2>2. \A p \in F : mem'[p] = mem[p]
    BY <1>10, <2>1 DEF Entered
  <2> QED
    BY <1>4, <2>2, StackSame
<1>13. CASE op = "setup"
  <2>1. /\ phase = "setup" /\ v = ram /\ pa = v /\ v + left = DDR_LAST + 1
        /\ w = Word("normal", v)
    BY <1>2, <1>3, <1>13 DEF Still, Good, Progress
  <2>2. v \in DDR_START .. DDR_LAST /\ v \in Ram /\ v \notin VMALLOC_START .. dev - 1
    BY <1>3, <1>4, <2>1, Sizes DEF Ram, Mapping
  <2>3. M[v] = ZERO
    BY <1>3, <1>4, <2>1, <2>2 DEF Mapping
  <2>4. Mapping(M1, v + 1, dev)
    <3>1. v + 1 \in DDR_START .. DDR_LAST + 1 /\ dev \in VMALLOC_START .. VPages
      BY <1>4, <2>2 DEF Mapping
    <3>2. ASSUME NEW n \in Nat
          PROVE  /\ n \in DDR_START .. (v + 1) - 1 => M1[n] = Word("normal", n)
                 /\ n \in VMALLOC_START .. dev - 1 =>
                      \E page \in 0 .. Block - 1 : M1[n] = Word("device", page)
                 /\ n \notin DDR_START .. (v + 1) - 1 /\ n \notin VMALLOC_START .. dev - 1
                      => M1[n] = ZERO
      <4>1. CASE n = v
        BY <1>7, <2>1, <2>2, <4>1
      <4>2. CASE n # v
        <5>1. n \in DDR_START .. (v + 1) - 1 <=> n \in DDR_START .. ram - 1
          BY <1>3, <2>1, <2>2, <4>2
        <5>2. M1[n] = M[n]
          BY <1>7, <4>2
        <5> QED
          BY <1>4, <5>1, <5>2 DEF Mapping
      <4> QED
        BY <4>1, <4>2
    <3> QED
      BY <3>1, <3>2 DEF Mapping
  <2>5. Maps1(M, M1, ram, dev, v, w)
    BY <1>3, <1>7, <1>10, <1>13, <2>1, <2>2, <2>3, <2>4 DEF Maps1, Grows, Updated
  <2> QED
    BY <1>3, <1>11, <1>12, <2>5
<1>14. CASE op = "ioremap"
  <2>1. /\ phase = "run" /\ v = dev /\ v + left = next_vaddr /\ w = Word("device", pa)
        /\ next_vaddr \in 0 .. VPages
    BY <1>2, <1>3, <1>14 DEF Still, Good, Progress, TypeOK
  <2>2. /\ v \in VMALLOC_START .. VPages - 1 /\ v \notin DDR_START .. ram - 1
    BY <1>3, <1>4, <2>1, Sizes DEF Mapping
  <2>3. M[v] = ZERO
    BY <1>3, <1>4, <2>1, <2>2 DEF Mapping
  <2>4. pa \in 0 .. Block - 1
    <3>1. PICK first, pages, done :
            /\ first = asked[1] \div PAGE_SIZE
            /\ pages = PagesOf(asked[1] % PAGE_SIZE, asked[2]) /\ done = pages - left
      OBVIOUS
    <3>2. done \in Nat /\ pa = first + done /\ first + pages <= Block
      BY <1>14, <3>1 DEF Still, Good, Asked
    <3>3. PAGE_SIZE \in Nat /\ PAGE_SIZE > 0 /\ asked[1] \in Nat /\ asked[2] \in Nat
      BY DdrAssumption DEF Still, TypeOK
    <3>4. first \in Nat /\ asked[1] % PAGE_SIZE \in Nat
      BY <3>1, <3>3
    <3>5. pages \in Int
      BY <3>1, <3>3, <3>4 DEF PagesOf
    <3> QED
      BY <1>3, <3>1, <3>2, <3>4, <3>5, Sizes
  <2>5. Mapping(M1, ram, v + 1)
    <3>1. ram \in DDR_START .. DDR_LAST + 1 /\ v + 1 \in VMALLOC_START .. VPages
      BY <1>4, <2>2, Sizes DEF Mapping
    <3>2. ASSUME NEW n \in Nat
          PROVE  /\ n \in DDR_START .. ram - 1 => M1[n] = Word("normal", n)
                 /\ n \in VMALLOC_START .. (v + 1) - 1 =>
                      \E page \in 0 .. Block - 1 : M1[n] = Word("device", page)
                 /\ n \notin DDR_START .. ram - 1 /\ n \notin VMALLOC_START .. (v + 1) - 1
                      => M1[n] = ZERO
      <4>1. CASE n = v
        <5>1. M1[n] = Word("device", pa)
          BY <1>7, <2>1, <4>1
        <5>2. n \in VMALLOC_START .. (v + 1) - 1 /\ n \notin DDR_START .. ram - 1
          BY <2>2, <4>1, Sizes
        <5> QED
          BY <2>4, <5>1, <5>2
      <4>2. CASE n # v
        <5>1. n \in VMALLOC_START .. (v + 1) - 1 <=> n \in VMALLOC_START .. dev - 1
          BY <1>3, <2>1, <2>2, <4>2, Sizes
        <5>2. M1[n] = M[n]
          BY <1>7, <4>2
        <5> QED
          BY <1>4, <5>1, <5>2 DEF Mapping
      <4> QED
        BY <4>1, <4>2
    <3> QED
      BY <3>1, <3>2 DEF Mapping
  <2>6. Maps1(M, M1, ram, dev, v, w)
    BY <1>3, <1>7, <1>10, <1>14, <2>1, <2>2, <2>3, <2>4, <2>5 DEF Maps1, Grows, Updated
  <2> QED
    BY <1>3, <1>11, <1>12, <2>6
<1> QED
  BY <1>3, <1>13, <1>14

LEMMA StepSetPte ==
  ASSUME NEW N, NEW M, NEW F, NEW ram, NEW dev, Still(N, M, F, ram, dev), SetPte
  PROVE  \E M1, v, w : Maps1(M, M1, ram, dev, v, w) /\ v = va /\ Keeps(M1)'
<1>1. PICK M1, v, w : /\ Maps1(M, M1, ram, dev, v, w) /\ v = va
                      /\ Tree(mem', Root, N, M1) /\ Stack(mem', root, F)
  BY PteIs
<1>2. /\ M1 \in Maps /\ Grows(M, M1, v, w) /\ v \in Nat /\ v \in 0 .. VPages - 1
      /\ mem' \in [Pages -> [Indices -> Words]] /\ M[v] = ZERO
      /\ (op = "setup" /\ phase = "setup") \/ (op = "ioremap" /\ phase = "run")
  BY <1>1 DEF Maps1, Grows
<1>3. /\ va' = v + 1 /\ pa' = pa + 1 /\ left' = left - 1 /\ level' = 0 /\ table' = pgd
      /\ root' = root /\ phase' = phase /\ op' = op /\ pgd' = pgd /\ asked' = asked
      /\ left > 0 /\ left \in Nat /\ pa \in Nat
      /\ p_kernel_pgd' = p_kernel_pgd /\ next_vaddr' = next_vaddr
      /\ ttbr0' = ttbr0 /\ ttbr1' = ttbr1 /\ tlb' = tlb
      /\ p_reg_base' = p_reg_base /\ calls' = calls /\ regions' = regions /\ held' = held
  BY <1>1 DEF SetPte, Still, TypeOK, vmmVars, mmuVars, userVars
<1>4. pgd # NULL /\ pgd \in Pages /\ Root = pgd /\ Root' = Root
  BY <1>2, <1>3 DEF Still, Control, TypeOK, Root
<1>5. Control' /\ Registers'
  BY <1>2, <1>3 DEF Still, Control, Registers
<1>6. TypeOK'
  <2>1. v + 1 \in 0 .. VPages /\ pa + 1 \in Nat /\ left - 1 \in Nat /\ 0 \in 0 .. 3
    BY <1>2, <1>3, Sizes
  <2> QED
    BY <1>2, <1>3, <1>4, <2>1 DEF Still, TypeOK, Words
<1>7. N[0][0] = pgd /\ Path(va', 0) = 0
  BY <1>4 DEF Still, Good, Tree, Rooted, Path
<1>8. Returns(M1, dev)'
  <2> SUFFICES ASSUME NEW r \in regions
               PROVE  /\ r.va >= VMALLOC_START
                      /\ Backed(M1, r.va, r.pa, PagesOf(r.pa % PAGE_SIZE, r.size))
    BY <1>3 DEF Returns
  <2>1. r.va \in Nat
    BY Sizes DEF Still, TypeOK
  <2>2. /\ r.va >= VMALLOC_START
        /\ Backed(M, r.va, r.pa, PagesOf(r.pa % PAGE_SIZE, r.size))
    BY DEF Still, Good, Returns
  <2> QED
    BY <1>2, <2>1, <2>2, GrowsBacked
<1>9. Printer(M1)'
  <2>1. ASSUME regions # {}
        PROVE  p_reg_base[1] = "high" /\ M1[p_reg_base[2]] = Word("device", UART)
    <3>1. p_reg_base[1] = "high" /\ M[p_reg_base[2]] = Word("device", UART)
      BY <2>1 DEF Still, Good, Printer
    <3>2. p_reg_base[2] \in Nat
      BY Sizes DEF Still, TypeOK
    <3>3. p_reg_base[2] # v
      BY <1>2, <3>1, WordIs
    <3> QED
      BY <1>2, <3>1, <3>2, <3>3 DEF Grows, Updated
  <2> QED
    BY <1>3, <2>1 DEF Still, Good, Printer, Fresh
<1>10. Cached(M1)'
  <2> SUFFICES ASSUME NEW e \in tlb
               PROVE  /\ e[1] \in Probes /\ e[2] # FAULT
                      /\ e[2] = View(M1, ttbr0, ttbr1, e[1])
    BY <1>3 DEF Cached
  <2>1. e[1] \in Probes /\ e[2] # FAULT /\ e[2] = View(M, ttbr0, ttbr1, e[1])
    BY DEF Still, Good, Cached
  <2>2. e[1] \in {"low", "high"} \X (0 .. VPages - 1)
    BY <2>1, VmmAssumption
  <2> QED
    BY <1>2, <2>1, <2>2, GrowsView
<1>11. Tree(mem', Root', N, M1) /\ Owned(N, F, held)' /\ Stack(mem', root', F)
  BY <1>1, <1>2, <1>3, <1>4 DEF Still, Good
<1>12. ASSUME op = "setup"
       PROVE  Keeps(M1)'
  <2>1. /\ phase = "setup" /\ v = ram /\ v \in Ram /\ w = Word("normal", v)
        /\ Mapping(M1, v + 1, dev)
    BY <1>1, <1>2, <1>12 DEF Maps1
  <2>2. pa = v /\ v + left = DDR_LAST + 1 /\ (v + 1) + (left - 1) = v + left
    BY <1>1, <1>2, <1>3, <1>12, <2>1 DEF Still, Good, Progress
  <2>3. ttbr1 = BOOT
    BY <2>1 DEF Still, Registers
  <2>4. Progress(N, v + 1, dev)'
    BY <1>3, <1>4, <1>7, <1>12, <2>1, <2>2, <2>3 DEF Still, Good, Progress, Fresh
  <2>5. Asked(M1)'
    BY <1>3, <1>12 DEF Asked
  <2>6. Good(N, M1, F, v + 1, dev)'
    BY <1>8, <1>9, <1>10, <1>11, <2>1, <2>4, <2>5 DEF Good, Returns
  <2>7. Ghosts(N, M1, F, v + 1, dev)
    BY <1>2 DEF Still, Ghosts
  <2> QED
    BY <1>5, <1>6, <2>6, <2>7 DEF Keeps, Still
<1>13. ASSUME op = "ioremap"
       PROVE  Keeps(M1)'
  <2>1. /\ phase = "run" /\ v = dev /\ w = Word("device", pa) /\ Mapping(M1, ram, v + 1)
    BY <1>1, <1>2, <1>13 DEF Maps1
  <2>2. v + left = next_vaddr /\ (v + 1) + (left - 1) = v + left
    BY <1>1, <1>2, <1>3, <1>13, <2>1 DEF Still, Good, Progress
  <2>3. Progress(N, ram, v + 1)'
    BY <1>3, <1>4, <1>7, <1>13, <2>1, <2>2 DEF Still, Good, Progress, Fresh
  <2>4. Asked(M1)'
    <3>1. PICK first, pages, done, addr :
            /\ first = asked[1] \div PAGE_SIZE /\ addr = asked[1]
            /\ pages = PagesOf(asked[1] % PAGE_SIZE, asked[2]) /\ done = pages - left
      OBVIOUS
    <3>2. /\ done \in Nat /\ pa = first + done /\ first + pages <= Block
          /\ v - done >= VMALLOC_START /\ Backed(M, v - done, addr, done)
          /\ calls = 1 => asked = BootRequests[1]
      BY <1>1, <1>13, <3>1 DEF Still, Good, Asked
    <3>3. PAGE_SIZE \in Nat /\ PAGE_SIZE > 0 /\ asked[1] \in Nat /\ asked[2] \in Nat
      BY DdrAssumption DEF Still, TypeOK
    <3>4. first \in Nat /\ asked[1] % PAGE_SIZE \in Nat
      BY <3>1, <3>3
    <3>5. pages \in Int
      BY <3>1, <3>3, <3>4 DEF PagesOf
    <3>6. PICK u : u = v - done
      OBVIOUS
    <3>7. u \in Nat /\ u + done = v /\ (v + 1) - (done + 1) = u /\ pages - (left - 1) = done + 1
      BY <1>2, <1>3, <3>1, <3>2, <3>5, <3>6, Sizes
    <3>8. Backed(M1, u, addr, done)
      BY <1>2, <3>2, <3>6, <3>7, GrowsBacked
    <3>9. M1[u + done] = Word("device", first + done)
      BY <1>2, <2>1, <3>2, <3>7 DEF Grows, Updated
    <3>10. Backed(M1, u, addr, done + 1)
      <4> SUFFICES ASSUME NEW j \in 0 .. (done + 1) - 1
                   PROVE  M1[u + j] = Word("device", addr \div PAGE_SIZE + j)
        BY DEF Backed
      <4>1. j = done \/ j \in 0 .. done - 1
        BY <3>2
      <4>2. CASE j = done
        BY <3>1, <3>9, <4>2
      <4>3. CASE j \in 0 .. done - 1
        BY <3>8, <4>3 DEF Backed
      <4> QED
        BY <4>1, <4>2, <4>3
    <3>11. /\ PagesOf(asked'[1] % PAGE_SIZE, asked'[2]) - left' = done + 1
           /\ va' - (done + 1) = u /\ done + 1 \in Nat /\ pa' = first + (done + 1)
      BY <1>3, <3>1, <3>2, <3>4, <3>7
    <3> QED
      BY <1>3, <3>1, <3>2, <3>6, <3>10, <3>11 DEF Asked
  <2>5. Good(N, M1, F, ram, v + 1)'
    BY <1>8, <1>9, <1>10, <1>11, <2>1, <2>3, <2>4 DEF Good, Returns
  <2>6. Ghosts(N, M1, F, ram, v + 1)
    BY <1>2 DEF Still, Ghosts
  <2> QED
    BY <1>5, <1>6, <2>5, <2>6 DEF Keeps, Still
<1> QED
  BY <1>1, <1>2, <1>12, <1>13

-----------------------------------------------------------------------------
(* All steps *)

LEMMA StepCall ==
  ASSUME NEW N, NEW M, NEW F, NEW ram, NEW dev, Still(N, M, F, ram, dev), Call
  PROVE  Keeps(M)'
<1> DEFINE Bounded(r) == r[1] \div PAGE_SIZE + PagesOf(r[1] % PAGE_SIZE, r[2]) <= Block
<1>1. calls \in Nat /\ BootRequests \in Seq(Nat \X Nat) /\ Requests \subseteq Nat \X Nat
  BY VmmAssumption DEF Still, TypeOK
<1>2. CASE BootCall
  <2>1. PICK k : k = calls + 1
    OBVIOUS
  <2>2. k \in 1 .. Len(BootRequests)
    BY <1>1, <1>2, <2>1 DEF BootCall
  <2>3. k \in DOMAIN BootRequests /\ BootRequests[k] \in Nat \X Nat
    BY <1>1, <2>2
  <2>4. PICK addr, size : addr = BootRequests[k][1] /\ size = BootRequests[k][2]
    OBVIOUS
  <2>5. addr \in Nat /\ size \in Nat /\ BootRequests[k] = <<addr, size>>
    BY <2>3, <2>4
  <2>6. Ioremap(addr, size)
    BY <1>2, <2>1, <2>4 DEF Call
  <2>7. Bounded(BootRequests[k])
    BY <2>3, RequestsAssumption
  <2>8. addr \div PAGE_SIZE + PagesOf(addr % PAGE_SIZE, size) <= Block
    BY <2>4, <2>7
  <2>9. calls = 0 => <<addr, size>> = BootRequests[1]
    BY <2>1, <2>5
  <2> QED
    BY <2>5, <2>6, <2>8, <2>9, StepIoremap
<1>3. CASE ~ BootCall
  <2>1. PICK r \in Requests : Ioremap(r[1], r[2])
    BY <1>3 DEF Call
  <2>2. r \in Nat \X Nat
    BY <1>1
  <2>3. PICK addr, size : addr = r[1] /\ size = r[2]
    OBVIOUS
  <2>4. addr \in Nat /\ size \in Nat /\ Ioremap(addr, size)
    BY <2>1, <2>2, <2>3
  <2>5. Bounded(r)
    BY RequestsAssumption
  <2>6. addr \div PAGE_SIZE + PagesOf(addr % PAGE_SIZE, size) <= Block
    BY <2>3, <2>5
  <2>7. calls # 0
    <3>1. Len(BootRequests) > 0 /\ Len(BootRequests) \in Nat
      BY <1>1, RequestsAssumption
    <3> QED
      BY <1>1, <1>3, <3>1 DEF BootCall
  <2> QED
    BY <2>4, <2>6, <2>7, StepIoremap
<1> QED
  BY <1>2, <1>3

\* One more page is mapped: the next one of RAM, or the next one of the upper half.
NextPage(M, M1) ==
  \E v, w :
    /\ v \in 0 .. VPages - 1 /\ Grows(M, M1, v, w)
    /\ \/ v \in Ram /\ w = Word("normal", v)
       \/ /\ v >= VMALLOC_START /\ \A n \in VMALLOC_START .. v - 1 : M[n] # ZERO
          /\ \E page \in 0 .. Block - 1 : w = Word("device", page)

LEMMA PteMaps ==
  ASSUME NEW N, NEW M, NEW F, NEW ram, NEW dev, Still(N, M, F, ram, dev), SetPte
  PROVE  \E M1 : NextPage(M, M1) /\ Keeps(M1)'
<1>1. PICK M1, v, w : Maps1(M, M1, ram, dev, v, w) /\ Keeps(M1)'
  BY StepSetPte
<1>2. Mapping(M, ram, dev)
  BY DEF Still, Good
<1>3. CASE op = "setup"
  <2>1. v \in Ram /\ w = Word("normal", v)
    BY <1>1, <1>3 DEF Maps1
  <2> QED
    BY <1>1, <2>1 DEF Maps1, NextPage
<1>4. CASE op # "setup"
  <2>1. v = dev /\ pa \in 0 .. Block - 1 /\ w = Word("device", pa)
    BY <1>1, <1>4 DEF Maps1
  <2>2. v >= VMALLOC_START
    BY <1>2, <2>1, Sizes DEF Mapping
  <2>3. \A n \in VMALLOC_START .. v - 1 : M[n] # ZERO
    <3> SUFFICES ASSUME NEW n \in VMALLOC_START .. dev - 1
                 PROVE  M[n] # ZERO
      BY <2>1
    <3>1. n \in Nat
      BY Sizes
    <3>2. \E page \in 0 .. Block - 1 : M[n] = Word("device", page)
      BY <1>2, <3>1 DEF Mapping
    <3> QED
      BY <3>2, WordIs
  <2> QED
    BY <1>1, <2>1, <2>2, <2>3 DEF Maps1, NextPage
<1> QED
  BY <1>3, <1>4

LEMMA KeepsStep ==
  ASSUME NEW M, Keeps(M), [Next]_vars
  PROVE  \E M1 : (M1 = M \/ NextPage(M, M1)) /\ Keeps(M1)'
<1>1. PICK N, F, ram, dev : Still(N, M, F, ram, dev)
  BY DEF Keeps
<1>2. CASE Boot
  BY <1>1, <1>2, StepBootPmmInit, StepVmmInit, StepSetupPageTables, StepSetupDone,
     StepMmuSetKernelPageTable, StepMmuInvalidateUserPageTable DEF Boot
<1>3. CASE CreateMapping
  BY <1>1, <1>3, StepDescendTable, StepNewTable, StepNewTableFaults, PteMaps DEF CreateMapping
<1>4. CASE Call
  BY <1>1, <1>4, StepCall
<1>5. CASE IoremapReturns
  BY <1>1, <1>5, StepIoremapReturns
<1>6. CASE TakePage
  BY <1>1, <1>6, StepTakePage
<1>7. CASE \E p \in held : ReturnPage(p)
  BY <1>1, <1>7, StepReturnPage
<1>8. CASE \E v \in Probes : TlbFill(v)
  BY <1>1, <1>8, StepTlbFill
<1>9. CASE UNCHANGED vars
  <2>1. TypeOK' /\ Control' /\ Registers'
    BY <1>1, <1>9 DEF Still, TypeOK, Control, Registers, vars, loopVars, mmuVars, vmmVars,
       userVars, pmmVars
  <2>2. Good(N, M, F, ram, dev)'
    BY <1>1, <1>9 DEF Still, Good, Root, Progress, Asked, Returns, Printer, Cached, Fresh,
       vars, loopVars, mmuVars, vmmVars, userVars, pmmVars
  <2> QED
    BY <1>1, <2>1, <2>2 DEF Keeps, Still, Ghosts
<1> QED
  BY <1>2, <1>3, <1>4, <1>5, <1>6, <1>7, <1>8, <1>9 DEF Next

LEMMA InvStep == Inv /\ [Next]_vars => Inv'
BY KeepsStep DEF Inv

\* Inv is an invariant.
THEOREM Invariance == Spec => []Inv
BY InvInit, InvStep, PTL DEF Spec

-----------------------------------------------------------------------------
(* What the invariant says *)

\* The variables stay in their ranges: the loops around create_mapping() never leave
\* the address space, and ioremap() never runs out of the upper half.
THEOREM TypeCorrect == Spec => []TypeOK
<1>1. Inv => TypeOK
  BY DEF Inv, Keeps, Still
<1> QED
  BY <1>1, Invariance, PTL

\* The TLB never holds a translation that the tables no longer have: the switch to the
\* kernel's tables and the end of the low half flush it, create_mapping() only adds.
THEOREM TlbNeverStale == Spec => []TlbFresh
<1>1. Inv => TlbFresh
  BY TlbIs DEF Inv, Keeps, Still
<1> QED
  BY <1>1, Invariance, PTL

\* All of RAM is mapped at its p2v() address, by boot.S's tables and by those that
\* setup_page_tables() built, at every step.
THEOREM RamStaysMapped == Spec => []RamMapped
<1>1. Inv => RamMapped
  BY RamIs DEF Inv, Keeps, Still
<1> QED
  BY <1>1, Invariance, PTL

\* Whenever the kernel prints, the UART's registers are where p_reg_base says.
THEOREM ConsoleStaysMapped == Spec => []ConsoleMapped
<1>1. Inv => ConsoleMapped
  BY ConsoleIs DEF Inv, Keeps, Still
<1> QED
  BY <1>1, Invariance, PTL

\* Every byte of a region that ioremap() returned is the device's byte, for good.
THEOREM RegionsStayMapped == Spec => []RegionsMapped
<1>1. Inv => RegionsMapped
  BY RegionsAre DEF Inv, Keeps, Still
<1> QED
  BY <1>1, Invariance, PTL

\* Every page is free, a table that one entry points to, or in other hands: pmm hands
\* no page out twice, and none is lost, also when create_mapping() finds none.
THEOREM OneOwner == Spec => []PagesAccounted
<1>1. Inv => PagesAccounted
  BY AccountedIs DEF Inv, Keeps, Still
<1> QED
  BY <1>1, Invariance, PTL

-----------------------------------------------------------------------------
(* Refinement *)

MapIn(m, top) ==
  [v \in {n \in 0 .. VPages - 1 : WalkIn(m, top, n) # FAULT} |-> WalkIn(m, top, v)]

MapOf(M) == [v \in {n \in 0 .. VPages - 1 : M[n] # ZERO} |-> Seen(M[v])]

LEMMA MapIs ==
  ASSUME NEW m, NEW top, NEW N \in Trees, NEW M \in Maps, Tree(m, top, N, M)
  PROVE  MapIn(m, top) = MapOf(M)
<1>1. \A n \in 0 .. VPages - 1 : WalkIn(m, top, n) = Seen(M[n])
  BY WalkIs
<1>2. \A n \in 0 .. VPages - 1 : M[n] = ZERO <=> Seen(M[n]) = FAULT
  <2> SUFFICES ASSUME NEW n \in 0 .. VPages - 1
               PROVE  M[n] = ZERO <=> Seen(M[n]) = FAULT
    OBVIOUS
  <2>1. n \in Nat
    BY Sizes
  <2>2. M[n] = ZERO \/ M[n].kind # "none"
    BY <2>1 DEF Maps
  <2> QED
    BY <2>2 DEF Seen, FAULT
<1>3. {n \in 0 .. VPages - 1 : WalkIn(m, top, n) # FAULT} = {n \in 0 .. VPages - 1 : M[n] # ZERO}
  BY <1>1, <1>2
<1> QED
  BY <1>1, <1>3 DEF MapIn, MapOf

LEMMA MappedIs == Mapped = MapIn(mem, Root) /\ Mapped' = MapIn(mem', Root')
<1>1. Mapped = MapIn(mem, Root)
  BY Zenon DEF Mapped, MapIn, TableWalk, WalkIn, Down, DownIn
<1>2. Mapped' = MapIn(mem', Root')
  BY Zenon DEF Mapped, MapIn, TableWalk, WalkIn, Down, DownIn
<1> QED
  BY <1>1, <1>2

LEMMA KeepsMap ==
  ASSUME NEW M
  PROVE  /\ Keeps(M) => Mapped = MapOf(M)
         /\ Keeps(M)' => Mapped' = MapOf(M)
<1>1. ASSUME Keeps(M)
      PROVE  Mapped = MapOf(M)
  <2>1. \E N : N \in Trees /\ M \in Maps /\ Tree(mem, Root, N, M)
    BY <1>1 DEF Keeps, Still, Ghosts, Good
  <2> QED
    BY <2>1, MapIs, MappedIs
<1>2. ASSUME Keeps(M)'
      PROVE  Mapped' = MapOf(M)
  <2>1. \E N : N \in Trees /\ M \in Maps /\ Tree(mem', Root', N, M)
    BY <1>2 DEF Keeps, Still, Ghosts, Good
  <2> QED
    BY <2>1, MapIs, MappedIs
<1> QED
  BY <1>1, <1>2

\* One more page in the map.
More(old, new, v, x) ==
  /\ v \notin DOMAIN old /\ v \in DOMAIN new
  /\ new = [u \in DOMAIN old \cup {v} |-> IF u = v THEN x ELSE old[u]]

LEMMA MapGrows ==
  ASSUME NEW M, NEW M1, NEW v \in 0 .. VPages - 1, NEW w, Grows(M, M1, v, w), w # ZERO
  PROVE  More(MapOf(M), MapOf(M1), v, <<w.page, w.kind>>)
<1> DEFINE D == {n \in 0 .. VPages - 1 : M[n] # ZERO}
           D1 == {n \in 0 .. VPages - 1 : M1[n] # ZERO}
<1>1. /\ M[v] = ZERO /\ M1[v] = w
      /\ \A n \in 0 .. VPages - 1 : n # v => M1[n] = M[n]
  <2>1. \A n \in 0 .. VPages - 1 : n \in Nat
    BY Sizes
  <2> QED
    BY <2>1 DEF Grows, Updated
<1>2. D1 = D \cup {v} /\ v \notin D
  BY <1>1
<1>3. DOMAIN MapOf(M) = D /\ DOMAIN MapOf(M1) = D1
  BY DEF MapOf
<1>4. \A u \in D : MapOf(M)[u] = Seen(M[u]) /\ M1[u] = M[u]
  BY <1>1, <1>2 DEF MapOf
<1>5. Seen(M1[v]) = <<w.page, w.kind>>
  BY <1>1 DEF Seen
<1>6. MapOf(M1) = [u \in D1 |-> Seen(M1[u])]
  BY DEF MapOf
<1>7. [u \in D1 |-> Seen(M1[u])]
        = [u \in D \cup {v} |-> IF u = v THEN <<w.page, w.kind>> ELSE MapOf(M)[u]]
  BY <1>2, <1>4, <1>5
<1> QED
  BY <1>2, <1>3, <1>6, <1>7 DEF More

LEMMA RefinesInit == Init => Abstract!Init
<1> SUFFICES ASSUME Init
             PROVE  Mapped = [v \in {} |-> <<0, "none">>]
  BY DEF Abstract!Init
<1>1. Root = NULL /\ NULL \notin Pages
  BY PagesAre DEF Init, Root
<1>2. \A i : Down(NULL, i) = NULL
  BY <1>1 DEF Down
<1>3. \A n : TableWalk(NULL, n) = FAULT
  BY <1>1, <1>2 DEF TableWalk
<1>4. {n \in 0 .. VPages - 1 : TableWalk(Root, n) # FAULT} = {}
  BY <1>1, <1>3
<1> QED
  BY <1>4 DEF Mapped

LEMMA RefinesStep ==
  ASSUME Inv, [Next]_vars
  PROVE  [Abstract!Next]_Mapped
<1>1. PICK M : Keeps(M)
  BY DEF Inv
<1>2. PICK M1 : (M1 = M \/ NextPage(M, M1)) /\ Keeps(M1)'
  BY <1>1, KeepsStep
<1>3. Mapped = MapOf(M) /\ Mapped' = MapOf(M1)
  BY <1>1, <1>2, KeepsMap
<1>4. CASE M1 = M
  BY <1>3, <1>4
<1>5. CASE NextPage(M, M1)
  <2>1. PICK v, w :
          /\ v \in 0 .. VPages - 1 /\ Grows(M, M1, v, w)
          /\ \/ v \in Ram /\ w = Word("normal", v)
             \/ /\ v >= VMALLOC_START /\ \A n \in VMALLOC_START .. v - 1 : M[n] # ZERO
                /\ \E page \in 0 .. Block - 1 : w = Word("device", page)
    BY <1>5 DEF NextPage
  <2>2. w # ZERO
    BY <2>1, WordIs
  <2>3. v \in 0 .. VPages - 1 /\ Grows(M, M1, v, w)
    BY <2>1
  <2>4. More(Mapped, Mapped', v, <<w.page, w.kind>>)
    BY <1>3, <2>2, <2>3, MapGrows
  <2>5. v \in DOMAIN Mapped' \ DOMAIN Mapped
    BY <2>4 DEF More
  <2>6. CASE v \in Ram /\ w = Word("normal", v)
    <3>1. w.page = v /\ w.kind = "normal"
      BY <2>6, WordIs
    <3>2. Abstract!MapRam(v)
      BY <2>4, <2>6, <3>1 DEF Abstract!MapRam, Abstract!Extend, More
    <3> QED
      BY <2>5, <3>2 DEF Abstract!Next
  <2>7. CASE /\ v >= VMALLOC_START /\ \A n \in VMALLOC_START .. v - 1 : M[n] # ZERO
             /\ \E page \in 0 .. Block - 1 : w = Word("device", page)
    <3>1. PICK page \in 0 .. Block - 1 : w = Word("device", page)
      BY <2>7
    <3>2. w.page = page /\ w.kind = "device"
      BY <3>1, WordIs
    <3>3. VMALLOC_START .. v - 1 \subseteq DOMAIN Mapped
      <4>1. VMALLOC_START .. v - 1 \subseteq 0 .. VPages - 1
        BY <2>3, Sizes
      <4> QED
        BY <1>3, <2>7, <4>1 DEF MapOf
    <3>4. Abstract!MapDevice(v)
      <4>1. Abstract!Extend(v, page, "device")
        BY <2>4, <3>2 DEF Abstract!Extend, More
      <4> QED
        BY <2>7, <3>3, <4>1 DEF Abstract!MapDevice
    <3> QED
      BY <2>5, <3>4, Zenon DEF Abstract!Next
  <2> QED
    BY <2>1, <2>6, <2>7
<1> QED
  BY <1>2, <1>4, <1>5

\* The tables implement AddressSpace: a step that links a table maps nothing, one that
\* writes the last level maps the next page of RAM or of the upper half, which was not
\* mapped, and no step takes a mapping away.
THEOREM Refinement == Spec => ImplementsAddressSpace
BY InvInit, InvStep, RefinesInit, RefinesStep, PTL DEF Spec, ImplementsAddressSpace, Abstract!Spec
=============================================================================
