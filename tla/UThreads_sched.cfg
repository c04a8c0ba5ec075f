SPECIFICATION ConsiderateSpec
CONSTANTS
  Thread = {m, t1, t2, t3}
  Main = m
  NoThread = NoThread
  MAX_THREAD_NUM = 3
  MaxSleep = 2
  MaxQuantums = 6
  Preemptible <- EveryPoint
SYMMETRY Symmetry
INVARIANT TypeOK
INVARIANT ReadyQueueExact
INVARIANT SleepersExact
INVARIANT BlockedSound
INVARIANT OneOwner
INVARIANT CountExact
INVARIANT SwitchHasTarget
PROPERTY NoOvertaking
PROPERTY BlockedUntilResumed
PROPERTY SleepWakesOnTime
PROPERTY QuantumAccounting
