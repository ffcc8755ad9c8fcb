CONSTANTS
  T = 2
  ValuesPerPage = 2
  Garbage = Garbage
  Key = {1, 2, 3, 4, 5, 6, 7, 8, 9, 10}
  Value = {v1, v2}
  NotFound = NotFound
  MaxRestarts = 2
  Loaded = v1
  Plans <- AllPlans
SPECIFICATION MCSpec
INVARIANTS TypeOK SearchTree NodePagesAccounted
PROPERTIES IsKeySetUnlessLost IsMapGrowing NewSetIsRead
