SPECIFICATION Spec
CONSTANTS
  Server = {1, 2}
  c1 = c1
  c2 = c2
  Client = {c1}
  PortOf <- OnePort
  KeyOf <- OneKey
  FileOf <- OneFile
  Failing <- NoFailure
  Casts <- BothServers
  Mortal = {}
  None = None
  Empty = Empty
  Torn = Torn
INVARIANT AvailableIsListed
CHECK_DEADLOCK FALSE
