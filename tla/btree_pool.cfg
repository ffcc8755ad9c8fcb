CONSTANTS
  Thread = {t1, t2, t3}
  Handle = {h1, h2}
  MaxOps = 2
  NoThread = NoThread
  NoHandle = NoHandle
SPECIFICATION FairSpec
INVARIANTS WriterAlone HandlesAccounted NoLostWakeup StuckOnlyByKeeping
PROPERTY AnsweredWhileHandles
