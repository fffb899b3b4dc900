-------------------------------- MODULE Heap --------------------------------
(***************************************************************************)
(* What kmalloc promises its one client: regions of a page that do not     *)
(* overlap, each with room for what was asked, and a refusal only when no  *)
(* stretch of the page is left that is long enough.                        *)
(***************************************************************************)
EXTENDS Integers

CONSTANTS
  Size,                 \* bytes of the page
  Places,               \* where in the page a region may start
  Requests,             \* the sizes that are asked for
  Room(_)               \* the bytes that a request of so many bytes takes

VARIABLES
  alloc,                \* the regions handed out: first byte |-> byte behind it
  asked                 \* the request under way, 0 when there is none

vars == <<alloc, asked>>

Init ==
  /\ alloc = [a \in {} |-> 0]
  /\ asked = 0

\* The bytes from a to before e are in the page and in no region handed out.
Vacant(a, e) ==
  /\ e <= Size
  /\ \A b \in DOMAIN alloc : e <= b \/ alloc[b] <= a

Ask(n) ==
  /\ asked = 0
  /\ asked' = n
  /\ UNCHANGED alloc

Grant(a, e) ==
  /\ asked > 0
  /\ e >= a + Room(asked)
  /\ Vacant(a, e)
  /\ alloc' = [b \in DOMAIN alloc \cup {a} |-> IF b = a THEN e ELSE alloc[b]]
  /\ asked' = 0

Refuse ==
  /\ asked > 0
  /\ \A a \in Places : ~ Vacant(a, a + Room(asked))
  /\ asked' = 0
  /\ UNCHANGED alloc

Release(a) ==
  /\ asked = 0
  /\ alloc' = [b \in DOMAIN alloc \ {a} |-> alloc[b]]
  /\ UNCHANGED asked

Next ==
  \/ \E n \in Requests : Ask(n)
  \/ \E a \in Places, e \in Places \cup {Size} : Grant(a, e)
  \/ Refuse
  \/ \E a \in DOMAIN alloc : Release(a)

Spec == Init /\ [][Next]_vars
=============================================================================
