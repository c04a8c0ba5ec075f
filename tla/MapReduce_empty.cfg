SPECIFICATION MapReduceSpec
CONSTANTS
  Thread <- Workers2
  NoThread = NoThread
  SpuriousWakeups = FALSE
  MaxRounds = 2
  Client = {c1}
  NoClient = NoClient
  Inputs <- Silent
  Emits <- Once
PROPERTY EndIsReported
