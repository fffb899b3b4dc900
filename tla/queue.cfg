SPECIFICATION Spec
CONSTANTS
  Roots = {r1, r2}
  Elems = {e1, e2, e3}
  NULL = NULL
INVARIANTS
  RingsAgree
PROPERTY ImplementsFifo
