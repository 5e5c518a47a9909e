CONSTANTS
  NoAddress = NoAddress
  Domains <- MCDomains
  OwnerNames <- MCOwnerNames
  RecordData <- MCRecordData
  MaxRecords = 2
  MaxCount = 3
  Cuts <- MCCuts

SPECIFICATION AnswersSpec

INVARIANTS
  NeverPanics
  FindsFirstAddress

PROPERTY ParseEnds
