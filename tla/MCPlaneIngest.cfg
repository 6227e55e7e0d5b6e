SPECIFICATION MCSpec
CONSTANTS
  None = None
  r1 = r1
  j1 = j1
  j2 = j2
  e1 = e1
  w1 = w1
  w2 = w2
  h1 = h1
  h2 = h2
  l1 = l1
  l2 = l2
  Jobs = {j1}
  Runs = {r1}
  Exts = {e1}
  Workers = {w1, w2}
  Leases = {l1, l2}
  Handlers = {h1, h2}
  MaxAttempts = 2
  RunOf <- MCRunOf
  ExtOf <- MCExtOf
  Capable <- MCCapable
  Outcomes = {"ok", "breach", "TRANSIENT"}
  Allowed = {}
  Budget = 0
  a1 = a1
  a2 = a2
  t1 = t1
  p1 = p1
  p2 = p2
  q1 = q1
  q2 = q2
  Scenes = {"plane"}
  Hosts = {h1}
  Tokens = {t1}
  Sends = 1
  MaxRows = 1
  MaxMishaps = 0
  People = {p1}
  Owner = p1
  Admins = {q1}
  MaxLinks = 1
  MaxStarts = 0
  Agents = {a1}
  Entries = 1
  Pages = 1
  Uploads = 1
  MaxFaults = 0
SYMMETRY Symmetry
INVARIANTS
  
  VerdictsAreTheirOwn
  GoodResultIsKept
CHECK_DEADLOCK FALSE
