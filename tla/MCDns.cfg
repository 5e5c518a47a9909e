CONSTANTS
  a = a
  b = b
  long = long
  Names = {a, b, long}
  LongNames = {long}
  Kinds = {"address", "empty", "short"}
  None = None
  POLLS = 3
  RX_SLOTS = 2
  MaxCalls = 4

SPECIFICATION DnsSpec

INVARIANTS
  SocketPerFailedSend
  OnlyAnswersUnderWay

PROPERTIES
  NoAddressAfterFailedSend
