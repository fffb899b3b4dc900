-------------------------------- MODULE Vmm --------------------------------
(***************************************************************************)
(* Virtual memory at boot and after: the page tables of boot.S, then those *)
(* of kernel/mm/vmm.c built in pages of module Pmm, the switch from one to *)
(* the other (arch/aarch64/mmu.S), ioremap(), and the UART, whose register *)
(* base is moved with it (uart.c).  The MMU's table walk and its TLB are   *)
(* modelled as the hardware does them.                                     *)
(*                                                                         *)
(* A virtual page is <<half, n>>: "low" is translated through TTBR0,       *)
(* "high", the addresses from KERNEL_OFFSET on, through TTBR1.  n is the   *)
(* rest of the page number: four indices of PTRS, one for each level.      *)
(***************************************************************************)
EXTENDS Pmm, Sequences

CONSTANTS
  UART,                 \* page of the UART's registers
  BootRequests,         \* the calls ioremap(pa, size) of kernel_main(), in order:
                        \* of uart_ioremap(), for the GICD and for the GICRs
  Requests,             \* other calls that a driver may make, <<pa, size>>
  MaxCalls,             \* bound: calls of ioremap() in all
  Probes                \* virtual pages that the TLB may cache

VPages == PTRS * PTRS * PTRS * PTRS

\* A gigabyte in the source: what an entry at the second level covers.
Block == PTRS * PTRS

VMALLOC_START == VPages \div 2

ASSUME VmmAssumption ==
  /\ Ram \subseteq Block .. 2 * Block - 1
  /\ BootRequests \in Seq(Nat \X Nat) /\ Requests \subseteq Nat \X Nat
  /\ MaxCalls \in Nat
  /\ Probes \subseteq {"low", "high"} \X (0 .. VPages - 1)

\* There are pages for the tables of RAM: the first, one at each of the two levels
\* below it, as RAM is in one gigabyte, and those of the last level.
ASSUME SetupAssumption == Cardinality({p \div PTRS : p \in Ram}) + 3 <= Cardinality(Pages)

VARIABLES
  phase,                \* how far kernel_main() is
  op,                   \* the loop around create_mapping() under way
  pgd,                  \* its argument p_pgd
  va, pa, left,         \* the page to map, where, and how many are left with it
  level, table,         \* create_mapping(): the level and the table it is at
  p_kernel_pgd,         \* vmm_ctrl_blk
  next_vaddr,           \* vmm_ctrl_blk, as a page
  ttbr0, ttbr1,         \* what they point to: BOOT, a page, or NULL for nothing
  tlb,                  \* the translation that is cached, if any
  p_reg_base,           \* of the UART: the virtual page of its registers
  calls,                \* calls of ioremap() so far
  asked,                \* the arguments of the call under way
  regions,              \* for each finished call what it was asked and returned
  held                  \* pages handed to others: task_structs, the kmalloc page

loopVars == <<op, pgd, va, pa, left, level, table, asked>>
mmuVars == <<ttbr0, ttbr1, tlb>>
vmmVars == <<p_kernel_pgd, next_vaddr>>
userVars == <<p_reg_base, calls, regions, held>>
vars == <<pmmVars, phase, loopVars, vmmVars, mmuVars, userVars>>

BOOT == -2

Idle == op = "none"

-----------------------------------------------------------------------------
(* The MMU *)

FAULT == <<NULL, "none">>

\* boot_pgd: the first gigabyte is device memory, the second normal memory.
BootWalk(n) ==
  IF n < Block THEN <<n, "device">>
  ELSE IF n < 2 * Block THEN <<n, "normal">>
  ELSE FAULT

IndexAt(n, l) ==
  CASE l = 0 -> (n \div (PTRS * PTRS * PTRS)) % PTRS
    [] l = 1 -> (n \div (PTRS * PTRS)) % PTRS
    [] l = 2 -> (n \div PTRS) % PTRS
    [] l = 3 -> n % PTRS

\* The page that entry i of the table t points to, NULL if there is none.
Down(t, i) ==
  IF t \in Pages /\ mem[t][i].kind = "table" THEN mem[t][i].page ELSE NULL

TableWalk(top, n) ==
  LET last == Down(Down(Down(top, IndexAt(n, 0)), IndexAt(n, 1)), IndexAt(n, 2))
      w == mem[last][IndexAt(n, 3)]
  IN IF last \in Pages /\ w.kind \in {"normal", "device"} THEN <<w.page, w.kind>>
     ELSE FAULT

Translate(v) ==
  LET top == IF v[1] = "low" THEN ttbr0 ELSE ttbr1
  IN CASE top = BOOT -> BootWalk(v[2])
       [] top = NULL -> FAULT
       [] OTHER -> TableWalk(top, v[2])

\* The MMU caches a translation when it likes to, one at a time.
TlbFill(v) ==
  /\ Translate(v) # FAULT
  /\ tlb' = {<<v, Translate(v)>>}
  /\ UNCHANGED <<pmmVars, phase, loopVars, vmmVars, ttbr0, ttbr1, userVars>>

\* tlbi vmalle1is
FlushTlbAll == tlb' = {}

p2v(page) == <<"high", page>>

-----------------------------------------------------------------------------
\* boot.S has enabled the MMU with boot_pgd in both registers.
Init ==
  /\ mem = [p \in Pages |-> JunkPage]
  /\ root = NULL
  /\ phase = "pmm_init"
  /\ op = "none" /\ pgd = NULL
  /\ va = 0 /\ pa = 0 /\ left = 0 /\ level = 0 /\ table = NULL
  /\ asked = <<0, 0>>
  /\ p_kernel_pgd = NULL /\ next_vaddr = 0
  /\ ttbr0 = BOOT /\ ttbr1 = BOOT /\ tlb = {}
  /\ p_reg_base = <<"low", UART>>
  /\ calls = 0 /\ regions = {} /\ held = {}

BootPmmInit ==
  /\ phase = "pmm_init"
  /\ PmmInit
  /\ phase' = "vmm_init"
  /\ UNCHANGED <<loopVars, vmmVars, mmuVars, userVars>>

VmmInit ==
  /\ phase = "vmm_init"
  /\ p_kernel_pgd' = NULL
  /\ next_vaddr' = VMALLOC_START
  /\ phase' = "setup"
  /\ UNCHANGED <<pmmVars, loopVars, mmuVars, userVars>>

-----------------------------------------------------------------------------
(* create_mapping(), one step per level *)

EntryAt == mem[table][IndexAt(va, level)]

\* The entry is there: down to the table it points to.
DescendTable ==
  /\ ~ Idle /\ left > 0 /\ level < 3
  /\ EntryAt # ZERO
  /\ table' = EntryAt.page
  /\ level' = level + 1
  /\ UNCHANGED <<pmmVars, phase, op, pgd, va, pa, left, asked, vmmVars, mmuVars, userVars>>

\* It is zero: a page from pmm, cleared, becomes the table.
NewTable ==
  /\ ~ Idle /\ left > 0 /\ level < 3
  /\ EntryAt = ZERO
  /\ GetFreePage
  /\ mem' = [mem EXCEPT ![root] = ZeroPage,
                        ![table][IndexAt(va, level)] = Word("table", root)]
  /\ table' = root
  /\ level' = level + 1
  /\ UNCHANGED <<phase, op, pgd, va, pa, left, asked, vmmVars, mmuVars, userVars>>

(***************************************************************************)
(* pmm_get_free_page() returned NULL and nobody looks: memzero() faults at *)
(* the address 0, which TTBR0 no longer translates, before the entry is    *)
(* written, and sync_el1_handler() loops forever.  In setup_page_tables()  *)
(* boot_pgd still maps that address, but the pages last: SetupAssumption.  *)
(***************************************************************************)
NewTableFaults ==
  /\ op = "ioremap" /\ left > 0 /\ level < 3
  /\ EntryAt = ZERO
  /\ NoFreePage
  /\ phase' = "panic"
  /\ op' = "none"
  /\ UNCHANGED <<pmmVars, pgd, va, pa, left, level, table, asked, vmmVars, mmuVars, userVars>>

\* The entry at the last level is written whatever it held; on to the next page.
SetPte ==
  /\ ~ Idle /\ left > 0 /\ level = 3
  /\ mem' = [mem EXCEPT ![table][IndexAt(va, level)] =
                Word(IF op = "setup" THEN "normal" ELSE "device", pa)]
  /\ va' = va + 1
  /\ pa' = pa + 1
  /\ left' = left - 1
  /\ level' = 0
  /\ table' = pgd
  /\ UNCHANGED <<root, phase, op, pgd, asked, vmmVars, mmuVars, userVars>>

\* What the loops leave behind when they end.
LoopDone ==
  /\ op' = "none" /\ pgd' = NULL
  /\ va' = 0 /\ pa' = 0 /\ left' = 0 /\ level' = 0 /\ table' = NULL
  /\ asked' = <<0, 0>>

-----------------------------------------------------------------------------
(* setup_page_tables() and the switch to the tables it built *)

PagesToMap_LastForgotten == LastPage - DDR_START

\* pa runs from DDR_START in steps of a page as long as pa < DDR_END.
PagesToMap == LastPage - DDR_START + 1

SetupPageTables ==
  /\ phase = "setup" /\ Idle
  /\ GetFreePage
  /\ mem' = [mem EXCEPT ![root] = ZeroPage]
  /\ op' = "setup"
  /\ pgd' = root /\ table' = root
  /\ va' = DDR_START /\ pa' = DDR_START /\ left' = PagesToMap
  /\ UNCHANGED <<phase, level, asked, vmmVars, mmuVars, userVars>>

SetupDone ==
  /\ op = "setup" /\ left = 0
  /\ p_kernel_pgd' = pgd
  /\ LoopDone
  /\ phase' = "switch"
  /\ UNCHANGED <<pmmVars, next_vaddr, mmuVars, userVars>>

\* mmu_set_kernel_page_table()
MmuSetKernelPageTable ==
  /\ phase = "switch"
  /\ ttbr1' = p_kernel_pgd
  /\ FlushTlbAll
  /\ phase' = "invalidate"
  /\ UNCHANGED <<pmmVars, loopVars, vmmVars, ttbr0, userVars>>

MmuInvalidateUserPageTable_NoFlush ==
  /\ phase = "invalidate"
  /\ ttbr0' = NULL
  /\ phase' = "run"
  /\ UNCHANGED <<pmmVars, loopVars, vmmVars, ttbr1, tlb, userVars>>

(***************************************************************************)
(* mmu_invalidate_user_page_table(): TTBR0 becomes 0.  Physical page 0 is  *)
(* empty flash, which reads as zero, so that nothing is translated.        *)
(***************************************************************************)
MmuInvalidateUserPageTable ==
  /\ phase = "invalidate"
  /\ ttbr0' = NULL
  /\ FlushTlbAll
  /\ phase' = "run"
  /\ UNCHANGED <<pmmVars, loopVars, vmmVars, ttbr1, userVars>>

-----------------------------------------------------------------------------
(* ioremap() *)

PagesOf_OffsetForgotten(offset, size) == (size + PAGE_SIZE - 1) \div PAGE_SIZE

\* aligned_size, in pages
PagesOf(offset, size) == (size + offset + PAGE_SIZE - 1) \div PAGE_SIZE

\* All calls lie in the gigabyte of the devices, the first one is for the UART's page.
\* ioremap() does not look whether the upper half still has room: MaxCalls does.
ASSUME RequestsAssumption ==
  /\ \A r \in {BootRequests[i] : i \in DOMAIN BootRequests} \cup Requests :
       r[1] \div PAGE_SIZE + PagesOf(r[1] % PAGE_SIZE, r[2]) <= Block
  /\ Len(BootRequests) > 0
  /\ BootRequests[1][1] \div PAGE_SIZE = UART /\ BootRequests[1][2] > 0
  /\ MaxCalls * Block <= VPages - VMALLOC_START

NextVaddr_NotAdvanced(pages) == next_vaddr

NextVaddr(pages) == next_vaddr + pages

BootCall == calls < Len(BootRequests)

\* p_kernel_pgd is set when kernel_main() first calls: the check for NULL passes.
Ioremap(addr, size) ==
  /\ phase = "run" /\ Idle /\ calls < MaxCalls
  /\ p_kernel_pgd # NULL
  /\ LET pages == PagesOf(addr % PAGE_SIZE, size)
     IN /\ va' = next_vaddr /\ pa' = addr \div PAGE_SIZE /\ left' = pages
        /\ next_vaddr' = NextVaddr(pages)
  /\ op' = "ioremap"
  /\ pgd' = p_kernel_pgd /\ table' = p_kernel_pgd
  /\ asked' = <<addr, size>>
  /\ calls' = calls + 1
  /\ UNCHANGED <<pmmVars, phase, level, p_kernel_pgd, mmuVars, p_reg_base, regions, held>>

\* The address that the call returns is in the first page it mapped.
Returned == va - PagesOf(asked[1] % PAGE_SIZE, asked[2])

UartIoremap_BaseKept == UNCHANGED p_reg_base

\* The first call is that of uart_ioremap(), which keeps what it returned.
UartIoremap == p_reg_base' = IF calls = 1 THEN <<"high", Returned>> ELSE p_reg_base

IoremapReturns ==
  /\ op = "ioremap" /\ left = 0
  /\ FlushTlbAll
  /\ regions' = regions \cup {[pa |-> asked[1], size |-> asked[2], va |-> Returned]}
  /\ UartIoremap
  /\ LoopDone
  /\ UNCHANGED <<pmmVars, phase, vmmVars, ttbr0, ttbr1, calls, held>>

-----------------------------------------------------------------------------
(* Pages for others, and what drivers ask for *)

\* create_task(), kmalloc_init(): the page's contents are the client's business.
TakePage ==
  /\ phase = "run" /\ Idle /\ ~ BootCall
  /\ GetFreePage
  /\ held' = held \cup {root}
  /\ UNCHANGED <<mem, phase, loopVars, vmmVars, mmuVars, p_reg_base, calls, regions>>

ReturnPage(p) ==
  /\ phase = "run" /\ Idle
  /\ PmmFreePage(p)
  /\ held' = held \ {p}
  /\ UNCHANGED <<phase, loopVars, vmmVars, mmuVars, p_reg_base, calls, regions>>

Boot ==
  \/ BootPmmInit \/ VmmInit \/ SetupPageTables \/ SetupDone
  \/ MmuSetKernelPageTable \/ MmuInvalidateUserPageTable

CreateMapping == DescendTable \/ NewTable \/ NewTableFaults \/ SetPte

Call ==
  IF BootCall THEN Ioremap(BootRequests[calls + 1][1], BootRequests[calls + 1][2])
  ELSE \E r \in Requests : Ioremap(r[1], r[2])

Next ==
  \/ Boot \/ CreateMapping \/ Call \/ IoremapReturns
  \/ TakePage \/ (\E p \in held : ReturnPage(p))
  \/ \E v \in Probes : TlbFill(v)

Spec == Init /\ [][Next]_vars

-----------------------------------------------------------------------------
(* Properties *)

TypeOK ==
  /\ mem \in [Pages -> [Indices ->
       [kind : {"junk", "zero", "pointer", "table", "normal", "device"},
        page : Nat \cup {NULL}]]]
  /\ root \in Pages \cup {NULL}
  /\ phase \in {"pmm_init", "vmm_init", "setup", "switch", "invalidate", "run", "panic"}
  /\ op \in {"none", "setup", "ioremap"}
  /\ {pgd, table, p_kernel_pgd} \subseteq Pages \cup {NULL}
  /\ {va, next_vaddr} \subseteq 0 .. VPages
  /\ pa \in Nat /\ left \in Nat /\ asked \in Nat \X Nat
  /\ level \in 0 .. 3
  /\ {ttbr0, ttbr1} \subseteq Pages \cup {NULL, BOOT}
  /\ p_reg_base \in {"low", "high"} \X (0 .. VPages - 1)
  /\ calls \in 0 .. MaxCalls
  /\ regions \subseteq [pa : Nat, size : Nat, va : 0 .. VPages]
  /\ held \subseteq Pages

\* The pages of the tree of tables, from the root down.
Root == IF pgd # NULL THEN pgd ELSE p_kernel_pgd

TablesBelow(ts) ==
  UNION {{Down(t, i) : i \in Indices} \cap Pages : t \in ts}

Tables ==
  LET top == {Root} \cap Pages
      second == TablesBelow(top)
      third == TablesBelow(second)
  IN top \cup second \cup third \cup TablesBelow(third)

\* Every page behind the kernel image is in the free list, or a table that exactly
\* one entry points to, or in other hands, and never two of these: pmm hands no
\* page out twice and create_mapping() shares no table.
PagesAccounted ==
  LET free == FreePages
      tables == Tables
      entriesTo(t) == {e \in tables \X Indices : Down(e[1], e[2]) = t}
  IN phase # "pmm_init" =>
       /\ free \cup tables \cup held = Pages
       /\ free \cap tables = {} /\ free \cap held = {} /\ tables \cap held = {}
       /\ \A t \in tables \ {Root} : Cardinality(entriesTo(t)) = 1

\* The kernel's code, its stacks, the page headers and the page tables are used
\* through p2v() addresses: whichever tables the CPU is on, they map all of RAM.
RamMapped == \A p \in Ram : Translate(p2v(p)) = <<p, "normal">>

\* kernel_main() does not print between mmu_invalidate_user_page_table() and the
\* return of uart_ioremap().  A fault in between could not be reported.
Printing == regions # {} \/ phase \notin {"run", "panic"}

\* Whenever the kernel prints, the UART's registers are where p_reg_base says.
ConsoleMapped == Printing => Translate(p_reg_base) = <<UART, "device">>

\* The page and the byte in it of the i-th byte of a region, as ioremap() returned it.
Virtual(r, i) == r.va + ((r.pa % PAGE_SIZE) + i) \div PAGE_SIZE

\* Every byte of every region that ioremap() returned is the byte asked for, in
\* device memory, and stays so.
RegionsMapped ==
  \A r \in regions : \A i \in 0 .. r.size - 1 :
    Translate(<<"high", Virtual(r, i)>>) = <<(r.pa + i) \div PAGE_SIZE, "device">>

\* The TLB never holds what the tables no longer say: TTBR0, TTBR1 and the entries
\* are changed only together with a flush, or where nothing was translated before.
TlbFresh == \A e \in tlb : Translate(e[1]) = e[2]

\* What the tables map.
Mapped ==
  [v \in {n \in 0 .. VPages - 1 : TableWalk(Root, n) # FAULT} |-> TableWalk(Root, v)]

\* The tables implement AddressSpace: what is mapped is never mapped again or lost,
\* and a step of create_mapping() that links a table maps nothing.
Abstract ==
  INSTANCE AddressSpace WITH
    Half <- VMALLOC_START,
    Devices <- 0 .. Block - 1,
    map <- Mapped

ImplementsAddressSpace == Abstract!Spec
=============================================================================
