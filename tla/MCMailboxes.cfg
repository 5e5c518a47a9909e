SPECIFICATION MailboxSpec
CONSTANTS
  Paths <- MCPaths
  Pids <- MCPids
  NewCaps <- MCNewCaps
  MaxCaps = 2
  Payloads = {m1}
  SUPERVISOR_MAX = 2
  ENDPOINT_MAX = 1
  MaxSends = 2
INVARIANTS
  InOrderNoLoss
  NoForgedCapability
  WithinLimit
PROPERTY
  RevokedStaysRevoked
