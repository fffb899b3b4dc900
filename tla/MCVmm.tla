-------------------------------- MODULE MCVmm --------------------------------
(***************************************************************************)
(* A small machine for module Vmm: tables of four entries, 4-byte pages,   *)
(* devices in pages 0 to 15 and RAM in pages 16 to 31, as the first two    *)
(* gigabytes are in the source.                                            *)
(***************************************************************************)
EXTENDS Vmm

\* UART_BASE, one page; two pages of the GICD, two of the GICRs.
MCBootRequests == <<<<36, 4>>, <<8, 8>>, <<16, 8>>>>

\* Over the end of a page; nothing; enough pages for another table.
MCRequests == {<<39, 2>>, <<40, 0>>, <<21, 14>>}

\* A device's page that the kernel's tables no longer map, in both halves; one of RAM;
\* the first that ioremap() maps.
MCProbes == {<<"low", 9>>, <<"high", 9>>, <<"high", 20>>, <<"high", 128>>}
=============================================================================
