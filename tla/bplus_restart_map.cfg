CONSTANTS
  maxDegree = 2
  ValuesPerPage = 2
  Key = {1, 2, 3, 4, 5, 6, 7}
  Value = {v1, v2}
  NotFound = NotFound
  MaxPages = 20
  MaxRestarts = 1
  Loaded = v1
  LoadedEven = v2
  Plans <- RestartPlan
SPECIFICATION MCSpec
PROPERTIES IsMap
