SPECIFICATION FairUploaderSpec
CONSTANTS
  None = None
  up = up
  del = del
  card = card
  rest = rest
  edit = edit
  m = m
  n1 = n1
  n2 = n2
  s1 = s1
  Tasks = {up, del, card, rest, edit}
  Scopes = {s1}
  Ids = {m, n1}
  Old = {}
  KindOf <- MCKindOf
  ScopeOf <- MCScopeOf
  TargetOf <- MCTargetOf
  Allowed = {"crash", "error", "requeue", "renumber"}
  Budget = 1
  MaxTries = 1
  Rounds = 1
  ClaimBound = 4
INVARIANTS
  ArchivesAgree
  
PROPERTIES
  EveryTaskSettles
  DoneUploadsStay
CHECK_DEADLOCK FALSE
