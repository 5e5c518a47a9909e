CONSTANTS
  MemoryMaps <- MCMemoryMaps
  HEAP_START = 35
  HEAP_PAGES = 4
  FANOUT = 2
  None = None
  SLOTS = 2
  FUNCTIONS = 2
  PHYS_OFFSET = 16
  ADDRESS_SPACE = 32
  RX_PAGES = 2

SPECIFICATION BootSpec

INVARIANTS
  BootTypeOK
  FramesDistinct
  HeapBacked
  CardInNetwork

PROPERTY BootEnds
