SPECIFICATION FairMapReduceSpec
CONSTANTS
  Thread <- Workers2
  NoThread = NoThread
  SpuriousWakeups = FALSE
  MaxRounds = 2
  Client = {c1, c2}
  NoClient = NoClient
  Inputs <- Tiny
  Emits <- Once
PROPERTY WorkersEnd
PROPERTY WaitReturns
PROPERTY WaitOutlastsWorkers
