SPECIFICATION UploaderSpec
CONSTANTS
  None = None
  up = up
  del = del
  card = card
  rest = rest
  edit = edit
  m = m
  n1 = n1
  n2 = n2
  s1 = s1
  Tasks = {up, del, card}
  Scopes = {s1}
  Ids = {m, n1, n2}
  Old = {m}
  KindOf <- MCKindOf
  ScopeOf <- MCScopeOf
  TargetOf <- MCTargetOf
  Allowed = {"overlap", "overrun", "crash", "lag", "lost", "remove"}
  Budget = 2
  MaxTries = 2
  Rounds = 1
  ClaimBound = 5
INVARIANTS
  UploaderInv
  CopiesArePaidFor
SYMMETRY Symmetry
CHECK_DEADLOCK FALSE
