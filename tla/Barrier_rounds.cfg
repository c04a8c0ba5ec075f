SPECIFICATION FairBarrierSpec
CONSTANTS
  Thread = {t1, t2, t3, t4}
  NoThread = NoThread
  SpuriousWakeups = FALSE
  MaxRounds = 3
INVARIANT SleepersCounted
INVARIANT NobodyAhead
PROPERTY KeepsPromise
PROPERTY EveryoneReturns
