CONSTANTS
  Thread = {t1, t2}
  Handle = {h1, h2}
  MaxOps = 2
  NoThread = NoThread
  NoHandle = NoHandle
SPECIFICATION FairSpec
PROPERTY EveryRequestAnswered
