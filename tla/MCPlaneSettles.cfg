SPECIFICATION FairMCSpec
CONSTANTS
  None = None
  r1 = r1
  j1 = j1
  j2 = j2
  e1 = e1
  w1 = w1
  w2 = w2
  h1 = h1
  h2 = h2
  l1 = l1
  l2 = l2
  Jobs = {j1}
  Runs = {r1}
  Exts = {e1}
  Workers = {w1}
  Leases = {l1, l2}
  Handlers = {h1}
  MaxAttempts = 1
  RunOf <- MCRunOf
  ExtOf <- MCExtOf
  Capable <- MCCapable
  Outcomes <- Verdicts
  Allowed = {"operator", "pause", "crash"}
  Budget = 1
  a1 = a1
  a2 = a2
  t1 = t1
  p1 = p1
  p2 = p2
  q1 = q1
  q2 = q2
  Scenes = {"plane", "execute"}
  Hosts = {h1}
  Tokens = {t1}
  Sends = 1
  MaxRows = 1
  MaxMishaps = 0
  People = {p1}
  Owner = p1
  Admins = {q1}
  MaxLinks = 1
  MaxStarts = 0
  Agents = {a1, a2}
  Entries = 2
  Pages = 2
  Uploads = 2
  MaxFaults = 2
INVARIANT
  ExecutionInv

  
CHECK_DEADLOCK FALSE
