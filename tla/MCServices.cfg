SPECIFICATION MCSpec
CONSTANTS
  None = None
  a = a
  d = d
  x = x
  y = y
  p1 = p1
  p2 = p2
  r1 = r1
  r2 = r2
  Scenes = {"shared", "race", "mishap", "alone", "replicas", "spread", "renumbered", "doubles", "parts"}
  Chapters = {a, d}
  Confirmations = 2
  Exts = {x, y}
  Procs = {p1, p2}
  Slots = {s1}
  ExtOf <- MCExtOf
  LangOf <- MCLangOf
  Speaks <- MCSpeaks
  Ours = {a, d}
  Reports <- MCReports
  Shelves = {"listed", "expired", "dropped"}
  Standings = {"none", "paused"}
  Endings = {"carded"}
  MaxUpsets = 1
  Replicas = {r1, r2}
  Schedule <- MCSchedule
  DayLength = 2
  Horizon = 3
  SyncInterval = 2
  MaxCrashes = 1
  MaxSwitches = 1
  Planners = {p1, p2}
  Series <- MCSeries
  Backlog <- MCBacklog
  PerDay = 3
  PerMangaPerDay = 2
  Interval = 4
  Spacing = 0
  Clock = {3, 4}
  MaxStops = 1
  Numbers = {1, 2}
  Entries = {{1}, {2}, {1, 2}}
  Clerks = {p1, p2}
  MaxChanges = 2
  MaxFailures = 1
INVARIANTS CatalogueInv SchedulerInv  IntakeInv
PROPERTIES RemovalsAreGrounded PollsAreSpaced ServicesGoOn
CHECK_DEADLOCK FALSE
