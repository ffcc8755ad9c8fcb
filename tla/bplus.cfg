CONSTANTS
  maxDegree = 2
  ValuesPerPage = 2
  Key = {1, 2, 3, 4, 5, 6, 7, 8, 9, 10}
  Value = {v1, v2}
  NotFound = NotFound
  MaxPages = 20
  MaxRestarts = 2
  Loaded = v1
  LoadedEven = v2
  Plans <- AllPlans
SPECIFICATION MCSpec
INVARIANTS TypeOK SearchTree PagesAccounted RootOnFile SlotsAccountedUnlessStale
PROPERTIES IsMapUnlessStale IsKeySetRestarted AllocatesRestarted
