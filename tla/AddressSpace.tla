---------------------------- MODULE AddressSpace ----------------------------
(***************************************************************************)
(* What the kernel's page tables promise: a map from virtual to physical   *)
(* pages that only ever grows.  The lower half maps RAM one to one; the    *)
(* upper half maps devices, its pages given out one after the other.       *)
(***************************************************************************)
EXTENDS Integers

CONSTANTS
  Half,                 \* the first one of the upper half
  Ram,                  \* pages of RAM
  Devices               \* pages of device registers

VARIABLE map            \* virtual page |-> <<physical page, kind of memory>>

Init == map = [v \in {} |-> <<0, "none">>]

Extend(v, page, kind) ==
  LET old == map
  IN map' = [u \in DOMAIN old \cup {v} |-> IF u = v THEN <<page, kind>> ELSE old[u]]

MapRam(v) ==
  /\ v \in Ram
  /\ Extend(v, v, "normal")

\* The upper half has been given out up to v.
MapDevice(v) ==
  /\ v >= Half
  /\ Half .. v - 1 \subseteq DOMAIN map
  /\ \E page \in Devices : Extend(v, page, "device")

\* A step maps one page that was not mapped.
Next == \E v \in DOMAIN map' \ DOMAIN map : MapRam(v) \/ MapDevice(v)

Spec == Init /\ [][Next]_map
=============================================================================
