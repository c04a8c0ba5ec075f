SPECIFICATION MapReduceSpec
CONSTANTS
  Thread <- Workers3
  NoThread = NoThread
  SpuriousWakeups = FALSE
  MaxRounds = 2
  Client = {c1}
  NoClient = NoClient
  Inputs <- Mixed
  Emits <- Once
INVARIANT MapReduceTypeOK
INVARIANT EverythingMapped
INVARIANT GroupsExact
INVARIANT ReportedFullIsComplete
PROPERTY StageNeverBack
PROPERTY ProgressNeverBack
PROPERTY KeepsJobPromise
