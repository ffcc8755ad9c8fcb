CONSTANTS
  maxDegree = 3
  ValuesPerPage = 4
  Key = {1, 2, 3, 4, 5, 6, 7, 8, 9, 10, 11, 12, 13, 14, 15, 16}
  Value = {v1, v2}
  NotFound = NotFound
  MaxPages = 20
  MaxRestarts = 0
  Loaded = v1
  LoadedEven = v2
  Plans <- Degree3Plans
SPECIFICATION MCSpec
INVARIANTS SearchTree SlotsAccountedUnlessStale
PROPERTIES IsMap
