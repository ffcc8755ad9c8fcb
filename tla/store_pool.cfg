CONSTANTS
  Thread = {t1, t2, t3}
  Handle = {h1, h2}
  MaxOps = 4
  NoThread = NoThread
  NoHandle = NoHandle
  Loads <- AllOrOne
SPECIFICATION MCSpec
INVARIANTS WriterAlone OneOwner NoHandleLost NoLostWakeup FreshReadsAlone
PROPERTY EveryRequestAnswered
