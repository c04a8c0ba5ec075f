SPECIFICATION FairSpec
CONSTANTS
  Thread = {m, t1, t2}
  Main = m
  NoThread = NoThread
  MAX_THREAD_NUM = 3
  MaxSleep = 1
  MaxQuantums = 1
  Preemptible <- SpawnMasked
PROPERTY EveryReadyRuns
PROPERTY EverySleepEnds
PROPERTY TerminatedIsFreed
