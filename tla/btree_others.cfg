CONSTANTS
  T = 2
  ValuesPerPage = 2
  Garbage = Garbage
  Key = {1, 2, 3, 4, 5}
  Value = {v1, v2}
  NotFound = NotFound
  MaxRestarts = 0
  Loaded = v1
  Plans <- ReusePlan
SPECIFICATION MCSpec
PROPERTIES OthersKept
