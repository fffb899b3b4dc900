-------------------------------- MODULE Pmm --------------------------------
(***************************************************************************)
(* kernel/mm/pmm.c: the page allocator.  The free pages form a stack: the  *)
(* first word of a free page is the pointer to the next one, the root is   *)
(* in the control block.  What else is in a page stays there when the page *)
(* is freed and when it is handed out.                                     *)
(*                                                                         *)
(* Pages are numbered by physical address, 0 upwards.  A page of memory is *)
(* PTRS words; a word is a record of what the kernel or the MMU reads in   *)
(* it: zero, a pointer to a page (p_next), an entry of a page table, or    *)
(* anything else ("junk").                                                 *)
(***************************************************************************)
EXTENDS Integers, FiniteSets

CONSTANTS
  PAGE_SIZE,            \* bytes of a page, 4096 in the source
  DDR_START,            \* the first page of RAM
  DDR_END,              \* the last byte of RAM
  FREE_START,           \* the page behind the kernel image, at __kernel_end
  PTRS                  \* words of a page, 512 in the source

\* The last page of RAM.
DDR_LAST == DDR_END \div PAGE_SIZE

ASSUME PmmAssumption ==
  /\ DDR_START \in Nat /\ FREE_START \in Nat
  /\ DDR_START < FREE_START /\ FREE_START <= DDR_LAST
  /\ PTRS \in Nat \ {0, 1}

\* RAM is whole pages.
ASSUME DdrAssumption ==
  /\ PAGE_SIZE \in Nat \ {0, 1}
  /\ DDR_END \in Nat /\ (DDR_END + 1) % PAGE_SIZE = 0

NULL == -1

Ram == DDR_START .. DDR_LAST

\* The pages that belong to the allocator: all behind the kernel image.
Pages == FREE_START .. DDR_LAST

Indices == 0 .. PTRS - 1

Word(kind, page) == [kind |-> kind, page |-> page]

ZERO == Word("zero", NULL)

Pointer(page) == IF page = NULL THEN ZERO ELSE Word("pointer", page)

VARIABLES
  mem,                  \* the words of every page in Pages
  root                  \* free_list_root.p_next

pmmVars == <<mem, root>>

\* RAM at reset.
JunkPage == [i \in Indices |-> Word("junk", NULL)]

ZeroPage == [i \in Indices |-> ZERO]

-----------------------------------------------------------------------------
\* The page that a loop over pages while addr < DDR_END does last.
LastPage == (DDR_END - 1) \div PAGE_SIZE

\* pmm_init(): pushes the pages from the lowest to the highest.
PmmInit ==
  /\ mem' = [p \in Pages |->
               IF p > LastPage THEN mem[p]
               ELSE [mem[p] EXCEPT ![0] =
                       Pointer(IF p = FREE_START THEN NULL ELSE p - 1)]]
  /\ root' = LastPage

\* pmm_get_free_page() when there is one: it is the page at the root.
GetFreePage ==
  /\ root # NULL
  /\ root' = mem[root][0].page

\* It returns NULL.
NoFreePage == root = NULL

PmmFreePage_RootNotSaved(p) ==
  /\ mem' = [mem EXCEPT ![p][0] = ZERO]
  /\ root' = p

\* pmm_free_page()
PmmFreePage(p) ==
  /\ mem' = [mem EXCEPT ![p][0] = Pointer(root)]
  /\ root' = p

-----------------------------------------------------------------------------
After(p) == IF p = NULL THEN NULL ELSE mem[p][0].page

\* The i-th page of the free list, NULL behind its end.
FreePage[i \in Nat] == IF i = 0 THEN root ELSE After(FreePage[i - 1])

FreePages == {FreePage[i] : i \in 0 .. Cardinality(Pages)} \ {NULL}
=============================================================================
