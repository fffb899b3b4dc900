------------------------------ MODULE FreeList ------------------------------
(***************************************************************************)
(* kmalloc (kernel/mm/allocator/free_list.c): first fit in one page, the   *)
(* free blocks in a singly linked list sorted by address.                  *)
(*                                                                         *)
(* Addresses are byte offsets into the page.  A block starts with a header *)
(* of two words; hdr holds what memory has at every address where one can  *)
(* be, and at ROOT, the list's root in the control block.  The two loops   *)
(* go one list element per step; everything between them is one step, as   *)
(* kmalloc has one caller at a time and no interrupt handler calls it.     *)
(***************************************************************************)
EXTENDS Integers, FiniteSets

CONSTANTS
  PAGE_SIZE,            \* 4096 in the source
  Requests              \* the sizes the client asks for

HEADER_SIZE == 16       \* sizeof(block_header_t)

BLOCK_ALIGN_SIZE == 16

(***************************************************************************)
(* A request of 0 bytes returns NULL before anything else happens and is   *)
(* left out.  Requests are far enough below 2^64 for a header and padding. *)
(***************************************************************************)
ASSUME FreeListAssumption ==
  /\ PAGE_SIZE \in Nat /\ PAGE_SIZE > HEADER_SIZE
  /\ PAGE_SIZE % BLOCK_ALIGN_SIZE = 0
  /\ Requests \subseteq Nat \ {0}

NULL == -1

ROOT == -2

Addrs == {a \in 0 .. PAGE_SIZE - 1 : a % BLOCK_ALIGN_SIZE = 0}

VARIABLES
  hdr,                  \* the headers in memory
  live,                 \* blocks the client holds: address |-> bytes it asked for
  op,                   \* what kmalloc is doing: "idle", "malloc" or "free"
  asked,                \* malloc: the bytes asked for
  p_prev,               \* malloc: the block before p_block; free: p_curr
  p_block               \* malloc: the block to look at; free: the one given back

vars == <<hdr, live, op, asked, p_prev, p_block>>

TypeOK ==
  /\ hdr \in [Addrs \cup {ROOT} -> [next : Addrs \cup {NULL}, size : 0 .. PAGE_SIZE]]
  /\ DOMAIN live \subseteq Addrs
  /\ \A b \in DOMAIN live : live[b] \in Requests
  /\ op \in {"idle", "malloc", "free"}
  /\ asked \in Requests \cup {0}
  /\ p_prev \in Addrs \cup {ROOT}
  /\ p_block \in Addrs \cup {NULL}

\* kmalloc_init(): one block, the whole page.
KmallocInit ==
  hdr = [a \in Addrs \cup {ROOT} |->
           [next |-> IF a = ROOT THEN 0 ELSE NULL,
            size |-> IF a = 0 THEN PAGE_SIZE ELSE 0]]

Init ==
  /\ KmallocInit
  /\ live = [b \in {} |-> 0]
  /\ op = "idle"
  /\ asked = 0
  /\ p_prev = ROOT
  /\ p_block = NULL

\* Back in the caller, the local variables gone.
Return ==
  /\ op' = "idle"
  /\ asked' = 0
  /\ p_prev' = ROOT
  /\ p_block' = NULL

-----------------------------------------------------------------------------
(* kmalloc_malloc() *)

MemAlign(n) == ((n + BLOCK_ALIGN_SIZE - 1) \div BLOCK_ALIGN_SIZE) * BLOCK_ALIGN_SIZE

\* size += HEADER_SIZE, then rounded up
BlockSize(n) == MemAlign(n + HEADER_SIZE)

Malloc(n) ==
  /\ op = "idle"
  /\ op' = "malloc"
  /\ asked' = n
  /\ p_block' = hdr[ROOT].next
  /\ p_prev' = ROOT
  /\ UNCHANGED <<hdr, live>>

Searching == op = "malloc" /\ p_block # NULL

Remain == hdr[p_block].size - BlockSize(asked)

MallocNext ==
  /\ Searching /\ Remain < 0
  /\ p_prev' = p_block
  /\ p_block' = hdr[p_block].next
  /\ UNCHANGED <<hdr, live, op, asked>>

Hand(b) ==
  live' = [a \in DOMAIN live \cup {b} |-> IF a = b THEN asked ELSE live[a]]

SmallestRemain_HeaderOnly == HEADER_SIZE

\* The least that is worth keeping as a free block.
SmallestRemain == HEADER_SIZE + 16

\* What would remain is too small to be a block: the whole block goes.
MallocWhole ==
  /\ Searching /\ Remain >= 0
  /\ Remain < SmallestRemain
  /\ hdr' = [hdr EXCEPT ![p_prev].next = hdr[p_block].next]
  /\ Hand(p_block)
  /\ Return

MallocSplit_SizeKept ==
  /\ Searching /\ Remain >= SmallestRemain
  /\ LET new == p_block + Remain
     IN /\ hdr' = [hdr EXCEPT ![new] = [next |-> NULL, size |-> BlockSize(asked)]]
        /\ Hand(new)
  /\ Return

\* The new block is the end of the free one, which stays in the list.
MallocSplit ==
  /\ Searching /\ Remain >= SmallestRemain
  /\ LET new == p_block + Remain
     IN /\ hdr' = [hdr EXCEPT ![p_block].size = Remain,
                              ![new] = [next |-> NULL, size |-> BlockSize(asked)]]
        /\ Hand(new)
  /\ Return

\* The end of the list: return NULL.
MallocFails ==
  /\ op = "malloc" /\ p_block = NULL
  /\ Return
  /\ UNCHANGED <<hdr, live>>

-----------------------------------------------------------------------------
(* kmalloc_free() *)

\* The client may free what it holds, once.
Free(b) ==
  /\ op = "idle"
  /\ op' = "free"
  /\ live' = [a \in DOMAIN live \ {b} |-> live[a]]
  /\ p_block' = b
  /\ p_prev' = ROOT
  /\ UNCHANGED <<hdr, asked>>

Before == hdr[p_prev].next # NULL /\ hdr[p_prev].next < p_block

FreeNext ==
  /\ op = "free" /\ Before
  /\ p_prev' = hdr[p_prev].next
  /\ UNCHANGED <<hdr, live, op, asked, p_block>>

CanCoalesce(h, p, q) == p + h[p].size = q

\* combine_block()
Combine(h, p, q) ==
  [h EXCEPT ![p] = [next |-> h[q].next, size |-> h[p].size + h[q].size],
            ![q] = [next |-> NULL, size |-> 0]]

Linked(h) ==
  [h EXCEPT ![p_block].next = h[p_prev].next, ![p_prev].next = p_block]

CoalesceNext(h) ==
  LET q == h[p_block].next
  IN IF q # NULL /\ CanCoalesce(h, p_block, q) THEN Combine(h, p_block, q) ELSE h

CoalescePrev_Never(h) == h

CoalescePrev(h) ==
  IF p_prev # ROOT /\ CanCoalesce(h, p_prev, p_block)
  THEN Combine(h, p_prev, p_block) ELSE h

FreeInsert_PrevFirst ==
  /\ op = "free" /\ ~ Before
  /\ hdr' = CoalesceNext(CoalescePrev(Linked(hdr)))
  /\ Return
  /\ UNCHANGED live

FreeInsert ==
  /\ op = "free" /\ ~ Before
  /\ hdr' = CoalescePrev(CoalesceNext(Linked(hdr)))
  /\ Return
  /\ UNCHANGED live

-----------------------------------------------------------------------------
(* The client *)

\* It may write what it asked for, and leave there what looks like a header.
ClientWrites(b) ==
  /\ op = "idle"
  /\ LET mem == {a \in Addrs : b + HEADER_SIZE <= a /\ a < b + HEADER_SIZE + live[b]}
     IN hdr' = [a \in DOMAIN hdr |-> IF a \in mem THEN [next |-> 0, size |-> PAGE_SIZE]
                                     ELSE hdr[a]]
  /\ UNCHANGED <<live, op, asked, p_prev, p_block>>

Kmalloc ==
  \/ MallocNext \/ MallocWhole \/ MallocSplit \/ MallocFails
  \/ FreeNext \/ FreeInsert

Client ==
  \/ \E n \in Requests : Malloc(n)
  \/ \E b \in DOMAIN live : Free(b) \/ ClientWrites(b)

Next == Kmalloc \/ Client

Spec == Init /\ [][Next]_vars

\* A call that has begun keeps running.
FairSpec == Spec /\ WF_vars(Kmalloc)

-----------------------------------------------------------------------------
(* Properties *)

After(b) == IF b = NULL THEN NULL ELSE hdr[b].next

\* The i-th element of the list, NULL behind its end.
Element[i \in Nat] == IF i = 0 THEN hdr[ROOT].next ELSE After(Element[i - 1])

FreeBlocks == {Element[i] : i \in 0 .. Cardinality(Addrs)} \ {NULL}

\* The block that kmalloc_free() has been given and has not put in the list yet.
InFlight == IF op = "free" THEN {p_block} ELSE {}

\* The free blocks and the client's tile the page: every byte belongs to exactly
\* one of them, so nothing is handed out twice and nothing is lost.
Tiled ==
  \A a \in Addrs :
    Cardinality({b \in FreeBlocks \cup DOMAIN live \cup InFlight :
                   b <= a /\ a < b + hdr[b].size}) = 1

\* The list is sorted and no two neighbours in it touch: kmalloc_free() has merged
\* every pair of adjacent free blocks.
Coalesced ==
  \A b \in FreeBlocks : hdr[b].next # NULL => hdr[b].next > b + hdr[b].size

\* The room behind a header is at least what the client asked for, and a block
\* once freed can be used again: it has room for more than its header.
RoomForRequest ==
  /\ \A b \in DOMAIN live : hdr[b].size >= HEADER_SIZE + live[b]
  /\ \A b \in FreeBlocks : hdr[b].size > HEADER_SIZE

\* kmalloc implements Heap: regions do not overlap and a request is refused only
\* when no stretch of free bytes is long enough for it.
Abstract ==
  INSTANCE Heap WITH
    Size <- PAGE_SIZE,
    Places <- Addrs,
    Room <- BlockSize,
    alloc <- [b \in DOMAIN live |-> b + hdr[b].size]

ImplementsHeap == Abstract!Spec

\* Every call returns: the list has no cycle.
CallsReturn == op # "idle" ~> op = "idle"
=============================================================================
