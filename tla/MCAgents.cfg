CONSTANTS
  Paths <- MCPaths
  Pids <- MCPids
  MaxCaps = 2
  SUPERVISOR_MAX = 1
  ENDPOINT_MAX = 1
  MaxAgents = 2
  FileNames <- MCFileNames
  FileData = {d}
  Owners = {1, 2}
  NoFile = NoFile
  Payloads = {m}
  CapTypes = {1}
  AGENT_PREFIX <- MCDir
  BadPtr = BadPtr
  TooLong = TooLong
  NotUtf8 = NotUtf8
  BadArgs = {}
  NewCaps <- MCNewCaps
  Terminable = {1}
  MaxHeld = 1

SPECIFICATION AgentSpec

INVARIANT IdMeansOneCapability
INVARIANT SenderHadAuthority
INVARIANT WriterHadAuthority
INVARIANT SeenConfined
PROPERTY LiveAuthority
