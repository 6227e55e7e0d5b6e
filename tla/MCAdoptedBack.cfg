SPECIFICATION MCSpec
CONSTANTS
  p1 = p1
  p2 = p2
  Scenes = {"rebuild"}
  Copies = {1, 2, 3}
  NumberOf <- MCNumberOf
  Overrides = {{}, {1, 2}}
  Passes = {p1, p2}
  Nobody = Nobody
  MaxMishaps = 1
  Entries = {1, 2}
  Grouped = {1}
  RowBatch = 1
  Clicks = {p1, p2}
  Nil = Nil
  MaxTurns = 1
PROPERTIES NeverAdoptedBack
CHECK_DEADLOCK FALSE
