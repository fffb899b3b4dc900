SPECIFICATION SectionSpec
CONSTANTS
  Locks = {l1, l2}
  Tasks = {t1, t2, t3}
  MaxHeld = 1
  Values = 3
INVARIANTS
  ReadStaysValid
  WordTellsHeld
