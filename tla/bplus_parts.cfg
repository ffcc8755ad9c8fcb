CONSTANTS
  MaxKeys = 6
  MaxKey = 7
  Entry = {e1, e2}
  Garbage = Garbage
  MaxEntries = 4
  Key = {k1, k2, k3}
  ValuesPerPage = 2
  NoSlot = NoSlot
  MaxPages = 5
  MaxRestarts = 2
  Config <- Sizes
  Layout <- Layouts
  IO_BUFFER_SIZE = 16
  ChildSize = 4
  MaxExtents = 8
SPECIFICATION MCSpec
INVARIANTS ReadsInBounds Parts CrashLosesLittle ExclusiveUnlessStale WritesApart DegreeTight NodeRoundTrip
PROPERTIES CloseKeepsList SearchReturns LayoutOpens
