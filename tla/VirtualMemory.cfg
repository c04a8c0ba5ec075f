SPECIFICATION Spec
CONSTANTS
  OFFSET_WIDTH = 1
  PHYSICAL_ADDRESS_WIDTH = 4
  VIRTUAL_ADDRESS_WIDTH = 4
  Address <- FourPages
  Value = {1}
  NoResult = NoResult
  Unused = Unused
INVARIANT TypeOK
INVARIANT PageInOnePlace
INVARIANT FramesExact
PROPERTY KeepsFlatMemory
PROPERTY EvictsFarthest
