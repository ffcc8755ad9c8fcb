CONSTANTS
  Thread = {t1, t2}
  Handle = {h1, h2}
  MaxOps = 3
  NoThread = NoThread
  NoHandle = NoHandle
  Loads <- All
SPECIFICATION MCSpec
INVARIANT FreshReads
