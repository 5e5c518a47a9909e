CONSTANTS
  RING = 48
  SLACK = 24
  TX_BUFFERS = 2
  PayloadLens = {1, 4, 5}
  JunkLengths = {0, 7, 100}
  MaxPackets = 4
  MaxFrames = 4

SPECIFICATION Rtl8139Spec

INVARIANTS
  Rtl8139TypeOK
  ReceivesInOrder
  TransmitsInOrder
