CONSTANTS
  Paths <- MCPaths
  Pids <- MCPids
  MaxCaps = 5
  SUPERVISOR_MAX = 2
  ENDPOINT_MAX = 1
  MaxAgents = 1
  FileNames <- MCFileNames
  FileData <- MCFileData
  d1 = d1
  d2 = d2
  Owners = {1}
  NoFile = NoFile
  Payloads = {m}
  CapTypes = {0, 1, 3}
  AGENT_PREFIX <- MCDir
  BadPtr = BadPtr
  TooLong = TooLong
  NotUtf8 = NotUtf8
  BadArgs = {BadPtr, TooLong, NotUtf8}
  Archives <- MCArchives
  EmptyArchive = EmptyArchive
  MaxRequests = 3

SPECIFICATION KernelSpec

INVARIANT EveryCapabilityHeldOnce
INVARIANT RunsBootImage
INVARIANT EveryModuleRuns
INVARIANT FilesUnderWritablePrefix
INVARIANT SupervisorHasOldest
PROPERTY KernelHalts
