SPECIFICATION Spec
CONSTANTS
  Thread = {m, t1, t2, t3}
  Main = m
  NoThread = NoThread
  MAX_THREAD_NUM = 3
  MaxSleep = 1
  MaxQuantums = 1
  Preemptible <- SpawnMasked
SYMMETRY Symmetry
INVARIANT BlockedIsListed
