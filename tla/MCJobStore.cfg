SPECIFICATION Spec
CONSTANTS
  None = None
  r1 = r1
  j1 = j1
  j2 = j2
  e1 = e1
  w1 = w1
  w2 = w2
  l1 = l1
  l2 = l2
  l3 = l3
  l4 = l4
  Jobs = {j1, j2}
  Runs = {r1}
  Exts = {e1}
  Workers = {w1}
  Leases = {l1, l2}
  MaxAttempts = 2
  RunOf <- MCRunOf
  ExtOf <- MCExtOf
  Capable <- MCCapable
SYMMETRY Symmetry
INVARIANTS IInv
PROPERTIES ImplementsRunContract VerdictsAreFinal
CHECK_DEADLOCK FALSE
