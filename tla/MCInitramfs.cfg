CONSTANTS
  FileNames <- MCFileNames
  FileData <- MCFileData
  Owners = {1}
  NoFile = NoFile
  BLOCK = 2
  EntryNames <- MCEntryNames
  Sizes = {0, 2, 3}
  MaxEntries = 2
  MaxArchive <- MCMaxArchive
  NotUtf8 = NotUtf8
  Bodies <- MCBodies
  WrittenData <- MCWriteData

SPECIFICATION InitramfsSpec

INVARIANT MountsTheArchive
INVARIANT MountedApart
PROPERTY MountReturns
PROPERTY ImplementsFileMap
