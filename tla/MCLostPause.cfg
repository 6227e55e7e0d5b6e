SPECIFICATION MCSpec
CONSTANTS
  r1 = r1
  Scenes = {"client"}
  Callers = {c1, c2}
  Floor = 1
  Pace = 2
  Pause = 3
  Backoff = 1
  Tries = 2
  MaxLapses = 1
  Staff = {s1, s2}
  Languages = {en}
  Attempts = 3
  MaxActs = 2
  MaxFaults = 1
  Drafts <- MCDrafts
  Pushers = {h1}
  Syncers = {r1, r2}
  Poll = poll
  MaxCommits = 2
  MaxWeeks = 2
  MaxFailures = 1
  MaxEdits = 1
  Clerks = {k1, k2}
  MaxOrders = 2
  MaxOverruns = 1
  MaxRow = 3
  MaxValue = 2
  Limit = 1
  MaxChurn = 2
  Subjects = {e1, e2}
  Clearers = {q1, q2}
  MaxAcks = 1
  MaxClear = 1
  MaxEvents = 5
  Services = {v1, v2}
  Lifetime = 1
  MaxRequests = 2
  MaxTime = 3
  MaxMishaps = 1
PROPERTIES PauseHolds
CHECK_DEADLOCK FALSE
