SPECIFICATION FairSpec
CONSTANTS
  Server = {1, 2, 3}
  c1 = c1
  c2 = c2
  Client = {c1, c2}
  PortOf <- OwnPorts
  KeyOf <- OwnKeys
  FileOf <- OwnFiles
  Failing <- OwnFailures
  Casts <- OwnCasts
  Mortal = {3}
  None = None
  Empty = Empty
  Torn = Torn
INVARIANT TypeOK
INVARIANT AvailableIsListed
INVARIANT ServersCleanUp
INVARIANT StableServerIsHost
INVARIANT StableMessageWhole
INVARIANT OneIsAnswered
PROPERTY EveryProcessEnds
CHECK_DEADLOCK FALSE
